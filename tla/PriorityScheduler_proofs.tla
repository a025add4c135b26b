---------------------- MODULE PriorityScheduler_proofs ----------------------
(***************************************************************************)
(* Proofs about PriorityScheduler, for any set of packets and any bounds.  *)
(*                                                                         *)
(* TypeOK and RetryHasRoom are inductive together.  BoundedBypass is not:  *)
(* it needs Unpassed, which says that while the dispatcher stands between  *)
(* its two try_recv calls only packets nobody has overtaken are waiting.   *)
(* Last comes the refinement of LossyPriorityQueue.                        *)
(***************************************************************************)
EXTENDS PriorityScheduler, TLAPS

\* What Append and Tail do to the elements of a sequence.
LEMMA ElemsAppend ==
  ASSUME NEW S, NEW s \in Seq(S), NEW x \in S
  PROVE  Elems(Append(s, x)) = Elems(s) \cup {x}
<1>1. Len(Append(s, x)) = Len(s) + 1 /\ Append(s, x)[Len(s) + 1] = x
  OBVIOUS
<1>2. \A i \in 1..Len(s) : Append(s, x)[i] = s[i]
  OBVIOUS
<1>3. 1..(Len(s) + 1) = (1..Len(s)) \cup {Len(s) + 1}
  OBVIOUS
<1>. QED  BY <1>1, <1>2, <1>3 DEF Elems

LEMMA TailProperties ==
  ASSUME NEW S, NEW s \in Seq(S), s # <<>>
  PROVE  /\ Tail(s) \in Seq(S) /\ Len(Tail(s)) = Len(s) - 1
         /\ Head(s) \in S
         /\ Elems(Tail(s)) \subseteq Elems(s)
         /\ Len(s) \in Nat \ {0}
<1>1. /\ Tail(s) \in Seq(S) /\ Len(Tail(s)) = Len(s) - 1
      /\ Head(s) \in S /\ Len(s) \in Nat \ {0}
  OBVIOUS
<1>2. \A i \in 1..Len(Tail(s)) : Tail(s)[i] = s[i + 1] /\ i + 1 \in 1..Len(s)
  BY <1>1
<1>. QED  BY <1>1, <1>2 DEF Elems

LEMMA ClassOf == \A pkt \in Packet : PriorityOf(pkt) \in Priority
  BY DEF PriorityOf, Priority

---------------------------------------------------------------------------
(* Type correctness and the retry that never fails.                        *)

SafeInv == TypeOK /\ RetryHasRoom

\* The log keeps its type and its cap.
LEMMA PushKeepsCap ==
  ASSUME NEW ev \in OverflowEvent,
         overflow_log \in Seq(OverflowEvent), Len(overflow_log) <= LogCap
  PROVE  /\ PushOverflow(ev) \in Seq(OverflowEvent)
         /\ Len(PushOverflow(ev)) <= LogCap
<1>1. CASE Len(overflow_log) >= LogCap
  <2>1. overflow_log # <<>>  BY <1>1, BoundAssumption
  <2>2. Tail(overflow_log) \in Seq(OverflowEvent)
        /\ Len(Tail(overflow_log)) = Len(overflow_log) - 1
    BY <2>1
  <2>. QED  BY <1>1, <2>2, BoundAssumption DEF PushOverflow
<1>2. CASE ~(Len(overflow_log) >= LogCap)
  BY <1>2, BoundAssumption DEF PushOverflow
<1>. QED  BY <1>1, <1>2

\* An accepted packet fits, and nobody has overtaken it yet.
LEMMA AcceptKeepsType ==
  ASSUME TypeOK, NEW pkt \in Packet, HasRoom(pkt), Accept(pkt)
  PROVE  /\ queue' \in [Priority -> Seq(Packet)]
         /\ \A p \in Priority : Len(queue'[p]) <= QueueDepth
         /\ bypass' \in [Packet -> 0..2]
<1>1. PriorityOf(pkt) \in Priority  BY ClassOf
<1>2. queue[PriorityOf(pkt)] \in Seq(Packet)  BY <1>1 DEF TypeOK
<1>3. Append(queue[PriorityOf(pkt)], pkt) \in Seq(Packet)
      /\ Len(Append(queue[PriorityOf(pkt)], pkt)) = Len(queue[PriorityOf(pkt)]) + 1
  BY <1>2
<1>4. Len(queue[PriorityOf(pkt)]) + 1 <= QueueDepth
  BY <1>2, BoundAssumption DEF HasRoom
<1>. QED  BY <1>1, <1>3, <1>4 DEF Accept, TypeOK

\* A take or an eviction leaves the queues well formed and no longer.
LEMMA ShrinkKeepsType ==
  ASSUME TypeOK, NEW p \in Priority, queue[p] # <<>>,
         queue' = [queue EXCEPT ![p] = Tail(@)]
  PROVE  /\ queue' \in [Priority -> Seq(Packet)]
         /\ \A q \in Priority : Len(queue'[q]) <= Len(queue[q])
         /\ \A q \in Priority : Len(queue'[q]) <= QueueDepth
         /\ Len(queue'[p]) < QueueDepth
         /\ Head(queue[p]) \in Packet
         /\ \A q \in Priority : Elems(queue'[q]) \subseteq Elems(queue[q])
<1>1. queue[p] \in Seq(Packet) /\ Len(queue[p]) <= QueueDepth  BY DEF TypeOK
<1>2. /\ Tail(queue[p]) \in Seq(Packet) /\ Len(Tail(queue[p])) = Len(queue[p]) - 1
      /\ Head(queue[p]) \in Packet
      /\ Elems(Tail(queue[p])) \subseteq Elems(queue[p])
      /\ Len(queue[p]) \in Nat \ {0}
  BY <1>1, TailProperties
<1>3. queue'[p] = Tail(queue[p]) /\ \A q \in Priority \ {p} : queue'[q] = queue[q]
  BY DEF TypeOK
<1>4. \A q \in Priority : Len(queue[q]) \in Nat /\ Len(queue[q]) <= QueueDepth
  BY DEF TypeOK
<1>5. \A q \in Priority : Len(queue'[q]) <= Len(queue[q])
  BY <1>2, <1>3, <1>4
<1>6. queue' \in [Priority -> Seq(Packet)]  BY <1>2 DEF TypeOK
<1>7. \A q \in Priority : Len(queue'[q]) <= QueueDepth
  BY <1>2, <1>3, <1>4, BoundAssumption
<1>8. Len(queue'[p]) < QueueDepth
  <2>1. Len(queue'[p]) = Len(queue[p]) - 1  BY <1>2, <1>3
  <2>2. Len(queue[p]) \in Nat /\ QueueDepth \in Nat  BY <1>2, BoundAssumption
  <2>. QED  BY <1>1, <2>1, <2>2
<1>9. \A q \in Priority : Elems(queue'[q]) \subseteq Elems(queue[q])
  <2>1. Elems(queue'[p]) \subseteq Elems(queue[p])  BY <1>2, <1>3
  <2>2. \A q \in Priority \ {p} : Elems(queue'[q]) = Elems(queue[q])  BY <1>3
  <2>. QED  BY <2>1, <2>2
<1>. QED  BY <1>2, <1>5, <1>6, <1>7, <1>8, <1>9

LEMMA SampleKeepsType ==
  ASSUME TypeOK, NEW p \in Priority
  PROVE  CountSample(p) \in [Priority -> 0..DriftWindow]
  BY BoundAssumption DEF CountSample, TypeOK

LEMMA InitSafe == Init => SafeInv
<1>. SUFFICES ASSUME Init PROVE SafeInv
  OBVIOUS
<1>. USE DEF Init
<1>1. queue \in [Priority -> Seq(Packet)]
      /\ \A p \in Priority : Len(queue[p]) <= QueueDepth
  BY BoundAssumption
<1>2. overflow_log \in Seq(OverflowEvent) /\ Len(overflow_log) <= LogCap
  BY BoundAssumption
<1>3. drift \in [Priority -> 0..DriftWindow] /\ bypass \in [Packet -> 0..2]
      /\ overflows \in 0..MaxOverflows
  BY BoundAssumption
<1>4. TypeOK  BY <1>1, <1>2, <1>3 DEF TypeOK
<1>. QED  BY <1>4 DEF SafeInv, RetryHasRoom

LEMMA ParserSafe == SafeInv /\ Parser => SafeInv'
<1>. SUFFICES ASSUME SafeInv, Parser PROVE SafeInv'
  OBVIOUS
<1>. USE DEF SafeInv
<1>0. NoPacket \notin Packet  BY PacketAssumption DEF Packet
<1>1. CASE Receive
  BY <1>0, <1>1 DEF Receive, TypeOK, RetryHasRoom, HasRoom, disp_vars, log_vars
<1>2. CASE ParserExits
  BY <1>2 DEF ParserExits, TypeOK, RetryHasRoom, HasRoom, disp_vars, log_vars
<1>3. CASE Enqueue
  <2>. parse_pkt \in Packet  BY <1>3 DEF Enqueue, TypeOK
  <2>1. CASE HasRoom(parse_pkt)
    <3>1. /\ Accept(parse_pkt) /\ parse_pc' = "recv" /\ parse_pkt' = NoPacket
          /\ UNCHANGED <<disp_pc, disp_pkt, overflows, overflow_log, drift, stop>>
      BY <1>3, <2>1 DEF Enqueue, disp_vars, log_vars
    <3>2. /\ queue' \in [Priority -> Seq(Packet)]
          /\ \A p \in Priority : Len(queue'[p]) <= QueueDepth
          /\ bypass' \in [Packet -> 0..2]
      BY <2>1, <3>1, AcceptKeepsType
    <3>. QED  BY <3>1, <3>2 DEF TypeOK, RetryHasRoom
  <2>2. CASE ~HasRoom(parse_pkt)
    BY <1>0, <1>3, <2>2 DEF Enqueue, TypeOK, RetryHasRoom, disp_vars, log_vars
  <2>. QED  BY <2>1, <2>2
<1>4. CASE LogOverflow
  <2>. parse_pkt \in Packet  BY <1>4 DEF LogOverflow, TypeOK
  <2>1. overflows' \in 0..MaxOverflows
    BY <1>4, BoundAssumption DEF LogOverflow, TypeOK
  <2>2. overflows' \in OverflowEvent
    BY <2>1 DEF OverflowEvent
  <2>3. overflow_log' \in Seq(OverflowEvent) /\ Len(overflow_log') <= LogCap
    BY <1>4, <2>2, PushKeepsCap DEF LogOverflow, TypeOK
  <2>. QED
    BY <1>0, <1>4, <2>1, <2>3 DEF LogOverflow, TypeOK, RetryHasRoom, disp_vars
<1>5. CASE EvictOldest
  <2>. DEFINE p == PriorityOf(parse_pkt)
  <2>0. parse_pkt \in Packet /\ p \in Priority
    BY <1>5, ClassOf DEF EvictOldest, TypeOK
  <2>1. /\ parse_pc' = "retry" /\ parse_pkt' = parse_pkt
        /\ UNCHANGED <<disp_pc, disp_pkt, overflows, overflow_log, drift, stop, bypass>>
    BY <1>5 DEF EvictOldest, disp_vars, log_vars
  <2>2. /\ queue' \in [Priority -> Seq(Packet)]
        /\ \A q \in Priority : Len(queue'[q]) <= QueueDepth
        /\ Len(queue'[p]) < QueueDepth
    <3>1. CASE queue[p] = <<>>
      <4>1. queue' = queue /\ Len(queue[p]) = 0
        BY <1>5, <3>1 DEF EvictOldest, DropHead
      <4>. QED  BY <4>1, BoundAssumption DEF TypeOK
    <3>2. CASE queue[p] # <<>>
      <4>1. queue' = [queue EXCEPT ![p] = Tail(@)]
        BY <1>5, <3>2 DEF EvictOldest, DropHead
      <4>. QED  BY <2>0, <3>2, <4>1, ShrinkKeepsType
    <3>. QED  BY <3>1, <3>2
  <2>3. RetryHasRoom'
    BY <2>1, <2>2 DEF RetryHasRoom, HasRoom, PriorityOf
  <2>. QED  BY <1>0, <2>0, <2>1, <2>2, <2>3 DEF TypeOK
<1>6. CASE Retry
  <2>. parse_pkt \in Packet  BY <1>6 DEF Retry, TypeOK
  <2>1. HasRoom(parse_pkt)  BY <1>6 DEF Retry, RetryHasRoom
  <2>2. /\ Accept(parse_pkt) /\ parse_pc' = "recv" /\ parse_pkt' = NoPacket
        /\ UNCHANGED <<disp_pc, disp_pkt, overflows, overflow_log, drift, stop>>
    BY <1>6, <2>1 DEF Retry, disp_vars, log_vars
  <2>3. /\ queue' \in [Priority -> Seq(Packet)]
        /\ \A p \in Priority : Len(queue'[p]) <= QueueDepth
        /\ bypass' \in [Packet -> 0..2]
    BY <2>1, <2>2, AcceptKeepsType
  <2>. QED  BY <2>2, <2>3 DEF TypeOK, RetryHasRoom
<1>. QED  BY <1>1, <1>2, <1>3, <1>4, <1>5, <1>6 DEF Parser

\* A successful try_recv, of either class, frees room and takes none away.
LEMMA TakeSafe ==
  ASSUME SafeInv, NEW p \in Priority, TakeHead(p),
         UNCHANGED <<parse_pc, parse_pkt, overflows, overflow_log, stop>>,
         bypass' \in [Packet -> 0..2]
  PROVE  SafeInv'
<1>. USE DEF SafeInv
<1>0. queue[p] # <<>> /\ queue' = [queue EXCEPT ![p] = Tail(@)]
      /\ disp_pkt' = Head(queue[p]) /\ disp_pc' = "send"
  BY DEF TakeHead
<1>1. /\ queue' \in [Priority -> Seq(Packet)]
      /\ \A q \in Priority : Len(queue'[q]) <= Len(queue[q])
      /\ \A q \in Priority : Len(queue'[q]) <= QueueDepth
      /\ Head(queue[p]) \in Packet
  BY <1>0, ShrinkKeepsType
<1>2. drift' \in [Priority -> 0..DriftWindow]
  BY SampleKeepsType DEF TakeHead, TypeOK
<1>3. Head(queue[p]) # NoPacket  BY <1>1, PacketAssumption DEF Packet
<1>4. RetryHasRoom'
  <2>. SUFFICES ASSUME parse_pc = "retry"
       PROVE  Len(queue'[PriorityOf(parse_pkt)]) < QueueDepth
    BY DEF RetryHasRoom, HasRoom, PriorityOf
  <2>. DEFINE q == PriorityOf(parse_pkt)
  <2>1. q \in Priority  BY ClassOf DEF TypeOK
  <2>2. Len(queue[q]) < QueueDepth  BY DEF RetryHasRoom, HasRoom
  <2>3. Len(queue'[q]) \in Nat /\ Len(queue[q]) \in Nat /\ QueueDepth \in Nat
    BY <1>1, <2>1, BoundAssumption DEF TypeOK
  <2>. QED  BY <1>1, <2>1, <2>2, <2>3
<1>5. TypeOK'  BY <1>0, <1>1, <1>2, <1>3 DEF TypeOK
<1>. QED  BY <1>4, <1>5

LEMMA DispatcherSafe == SafeInv /\ Dispatcher => SafeInv'
<1>. SUFFICES ASSUME SafeInv, Dispatcher PROVE SafeInv'
  OBVIOUS
<1>. USE DEF SafeInv
<1>1. CASE DispatchLoop
  BY <1>1 DEF DispatchLoop, TypeOK, RetryHasRoom, HasRoom, parser_vars, log_vars
<1>2. CASE TryRecvHigh
  <2>1. CASE TakeHead("High")
    BY <1>2, <2>1, TakeSafe
       DEF TryRecvHigh, TypeOK, Priority, parser_vars, log_vars
  <2>2. CASE ~TakeHead("High")
    BY <1>2, <2>2 DEF TryRecvHigh, TypeOK, RetryHasRoom, HasRoom, parser_vars, log_vars
  <2>. QED  BY <2>1, <2>2
<1>3. CASE TryRecvLow
  <2>1. CASE TakeHead("Low") /\ bypass' # bypass
    <3>1. bypass' \in [Packet -> 0..2]
      <4>1. bypass' = [pkt \in Packet |->
                        IF pkt \in Elems(queue["High"]) /\ bypass[pkt] < 2
                          THEN bypass[pkt] + 1 ELSE bypass[pkt]]
        BY <1>3, <2>1 DEF TryRecvLow
      <4>2. \A pkt \in Packet : bypass[pkt] \in 0..2  BY DEF TypeOK
      <4>. QED  BY <4>1, <4>2
    <3>. QED  BY <1>3, <2>1, <3>1, TakeSafe DEF TryRecvLow, Priority, parser_vars, log_vars
  <2>2. CASE TakeHead("Low") /\ bypass' = bypass
    BY <1>3, <2>2, TakeSafe DEF TryRecvLow, TypeOK, Priority, parser_vars, log_vars
  <2>3. CASE ~TakeHead("Low")
    BY <1>3, <2>3 DEF TryRecvLow, TypeOK, RetryHasRoom, HasRoom, parser_vars, log_vars
  <2>. QED  BY <2>1, <2>2, <2>3
<1>4. CASE Forward
  BY <1>4 DEF Forward, TypeOK, RetryHasRoom, HasRoom, parser_vars, log_vars
<1>. QED  BY <1>1, <1>2, <1>3, <1>4 DEF Dispatcher

LEMMA OtherSafe == SafeInv /\ OtherPipeline => SafeInv'
<1>. SUFFICES ASSUME SafeInv, OtherPipeline PROVE SafeInv'
  OBVIOUS
<1>. USE DEF SafeInv
<1>0. UNCHANGED <<queue, parse_pc, parse_pkt, disp_pc, disp_pkt, overflows, stop, bypass>>
  BY DEF OtherPipeline, parser_vars, disp_vars
<1>1. overflow_log' \in Seq(OverflowEvent) /\ Len(overflow_log') <= LogCap
  <2>1. 1..MaxOverflows \subseteq OverflowEvent  BY BoundAssumption DEF OverflowEvent
  <2>. QED  BY <2>1, PushKeepsCap DEF OtherPipeline, TypeOK
<1>2. drift' \in [Priority -> 0..DriftWindow]
  BY SampleKeepsType DEF OtherPipeline, TypeOK
<1>. QED  BY <1>0, <1>1, <1>2 DEF TypeOK, RetryHasRoom, HasRoom

LEMMA SafeStep == SafeInv /\ [Next]_vars => SafeInv'
<1>. SUFFICES ASSUME SafeInv, [Next]_vars PROVE SafeInv'
  OBVIOUS
<1>1. CASE SetStop
  BY <1>1 DEF SetStop, SafeInv, TypeOK, RetryHasRoom, HasRoom,
              parser_vars, disp_vars, log_vars
<1>2. CASE UNCHANGED vars
  BY <1>2 DEF vars, SafeInv, TypeOK, RetryHasRoom, HasRoom,
              parser_vars, disp_vars, log_vars
<1>. QED
  BY <1>1, <1>2, ParserSafe, DispatcherSafe, OtherSafe DEF Next, Terminated

\* Every variable has its type: in particular neither channel ever holds more
\* than QUEUE_DEPTH packets and the overflow log never outgrows its cap.
THEOREM TypeCorrect == Spec => []TypeOK
<1>1. SafeInv => TypeOK  BY DEF SafeInv
<1>. QED  BY InitSafe, SafeStep, <1>1, PTL DEF Spec

\* The enqueue after an eviction, whose result the parsers ignore, succeeds.
THEOREM RetryNeverFails == Spec => []RetryHasRoom
<1>1. SafeInv => RetryHasRoom  BY DEF SafeInv
<1>. QED  BY InitSafe, SafeStep, <1>1, PTL DEF Spec

---------------------------------------------------------------------------
(* A human packet is overtaken at most once.                               *)

Unpassed == disp_pc = "low" =>
              \A pkt \in Elems(queue["High"]) : bypass[pkt] = 0
AtMostOnce == \A pkt \in Packet : bypass[pkt] <= 1

BypassInv == SafeInv /\ Unpassed /\ AtMostOnce

\* Whoever waits has been accepted, so the queues hold packets only.
LEMMA WaitingArePackets ==
  ASSUME TypeOK, NEW p \in Priority
  PROVE  Elems(queue[p]) \subseteq Packet
  BY DEF TypeOK, Elems

\* Accepting a packet adds it to its class with a clean record.
LEMMA AcceptKeepsBypass ==
  ASSUME BypassInv, NEW pkt \in Packet, Accept(pkt), disp_pc' = disp_pc
  PROVE  Unpassed' /\ AtMostOnce'
<1>. USE DEF BypassInv, SafeInv
<1>0. PriorityOf(pkt) \in Priority /\ "High" \in Priority
  BY ClassOf DEF Priority
<1>1. bypass' = [bypass EXCEPT ![pkt] = 0] /\ bypass \in [Packet -> 0..2]
  BY DEF Accept, TypeOK
<1>2. AtMostOnce'  BY <1>1 DEF AtMostOnce
<1>3. Elems(queue'["High"]) \subseteq Elems(queue["High"]) \cup {pkt}
  <2>1. CASE PriorityOf(pkt) = "High"
    <3>1. queue'["High"] = Append(queue["High"], pkt) /\ queue["High"] \in Seq(Packet)
      BY <1>0, <2>1 DEF Accept, TypeOK
    <3>. QED  BY <3>1, ElemsAppend
  <2>2. CASE PriorityOf(pkt) # "High"
    <3>1. queue'["High"] = queue["High"]  BY <1>0, <2>2 DEF Accept, TypeOK
    <3>. QED  BY <3>1
  <2>. QED  BY <2>1, <2>2
<1>4. Unpassed'
  <2>. SUFFICES ASSUME disp_pc = "low", NEW q \in Elems(queue'["High"])
       PROVE  bypass'[q] = 0
    BY DEF Unpassed
  <2>1. CASE q = pkt  BY <1>1, <2>1
  <2>2. CASE q # pkt
    <3>1. q \in Elems(queue["High"]) /\ q \in Packet
      BY <1>0, <1>3, <2>2, WaitingArePackets
    <3>. QED  BY <1>1, <2>2, <3>1 DEF Unpassed
  <2>. QED  BY <2>1, <2>2
<1>. QED  BY <1>2, <1>4

\* Taking packets out cannot make a waiting packet one that was overtaken.
LEMMA ShrinkKeepsBypass ==
  ASSUME BypassInv, bypass' = bypass, disp_pc' = "low" => disp_pc = "low",
         Elems(queue'["High"]) \subseteq Elems(queue["High"])
  PROVE  Unpassed' /\ AtMostOnce'
  BY DEF BypassInv, Unpassed, AtMostOnce

LEMMA ParserBypass == BypassInv /\ Parser => Unpassed' /\ AtMostOnce'
<1>. SUFFICES ASSUME BypassInv, Parser PROVE Unpassed' /\ AtMostOnce'
  OBVIOUS
<1>. TypeOK /\ RetryHasRoom  BY DEF BypassInv, SafeInv
<1>1. CASE Receive \/ ParserExits \/ LogOverflow
  BY <1>1, ShrinkKeepsBypass DEF Receive, ParserExits, LogOverflow, disp_vars
<1>2. CASE Enqueue
  <2>1. CASE HasRoom(parse_pkt)
    BY <1>2, <2>1, AcceptKeepsBypass DEF Enqueue, TypeOK, disp_vars
  <2>2. CASE ~HasRoom(parse_pkt)
    BY <1>2, <2>2, ShrinkKeepsBypass DEF Enqueue, disp_vars
  <2>. QED  BY <2>1, <2>2
<1>3. CASE EvictOldest
  <2>. DEFINE p == PriorityOf(parse_pkt)
  <2>0. p \in Priority /\ "High" \in Priority
    BY <1>3, ClassOf DEF EvictOldest, TypeOK, Priority
  <2>1. Elems(queue'["High"]) \subseteq Elems(queue["High"])
    <3>1. CASE queue[p] = <<>>
      BY <1>3, <3>1 DEF EvictOldest, DropHead
    <3>2. CASE queue[p] # <<>>
      <4>1. queue' = [queue EXCEPT ![p] = Tail(@)]
        BY <1>3, <3>2 DEF EvictOldest, DropHead
      <4>. QED  BY <2>0, <3>2, <4>1, ShrinkKeepsType
    <3>. QED  BY <3>1, <3>2
  <2>. QED  BY <1>3, <2>1, ShrinkKeepsBypass DEF EvictOldest, disp_vars
<1>4. CASE Retry
  <2>1. HasRoom(parse_pkt) /\ parse_pkt \in Packet
    BY <1>4 DEF Retry, RetryHasRoom, TypeOK
  <2>. QED  BY <1>4, <2>1, AcceptKeepsBypass DEF Retry, disp_vars
<1>. QED  BY <1>1, <1>2, <1>3, <1>4 DEF Parser

LEMMA DispatcherBypass == BypassInv /\ Dispatcher => Unpassed' /\ AtMostOnce'
<1>. SUFFICES ASSUME BypassInv, Dispatcher PROVE Unpassed' /\ AtMostOnce'
  OBVIOUS
<1>. TypeOK  BY DEF BypassInv, SafeInv
<1>0. "High" \in Priority /\ "Low" \in Priority  BY DEF Priority
<1>1. CASE DispatchLoop \/ Forward
  BY <1>1, ShrinkKeepsBypass DEF DispatchLoop, Forward
<1>2. CASE TryRecvHigh
  <2>1. CASE TakeHead("High")
    BY <1>2, <2>1 DEF TakeHead, TryRecvHigh, BypassInv, Unpassed, AtMostOnce
  <2>2. CASE queue["High"] = <<>> /\ UNCHANGED <<queue, bypass>>
    <3>1. Elems(queue'["High"]) = {}  BY <2>2 DEF Elems
    <3>. QED  BY <2>2, <3>1 DEF BypassInv, Unpassed, AtMostOnce
  <2>. QED  BY <1>2, <2>1, <2>2 DEF TryRecvHigh
<1>3. CASE TryRecvLow
  <2>1. CASE TakeHead("Low") /\ bypass' # bypass
    <3>1. Unpassed'  BY <2>1 DEF TakeHead, Unpassed
    <3>2. bypass' = [pkt \in Packet |->
                      IF pkt \in Elems(queue["High"]) /\ bypass[pkt] < 2
                        THEN bypass[pkt] + 1 ELSE bypass[pkt]]
      BY <1>3, <2>1 DEF TryRecvLow
    <3>3. \A pkt \in Elems(queue["High"]) : bypass[pkt] = 0
      BY <1>3 DEF TryRecvLow, BypassInv, Unpassed
    <3>. QED  BY <3>1, <3>2, <3>3 DEF BypassInv, AtMostOnce
  <2>2. CASE bypass' = bypass /\ disp_pc' # "low"
    BY <2>2 DEF BypassInv, Unpassed, AtMostOnce
  <2>. QED  BY <1>3, <2>1, <2>2 DEF TryRecvLow, TakeHead
<1>. QED  BY <1>1, <1>2, <1>3 DEF Dispatcher

LEMMA BypassStep == BypassInv /\ [Next]_vars => BypassInv'
<1>. SUFFICES ASSUME BypassInv, [Next]_vars PROVE BypassInv'
  OBVIOUS
<1>1. SafeInv'  BY SafeStep DEF BypassInv
<1>2. CASE SetStop \/ OtherPipeline \/ UNCHANGED vars
  <2>1. UNCHANGED <<queue, disp_pc, bypass>>
    BY <1>2 DEF SetStop, OtherPipeline, vars, disp_vars
  <2>. QED  BY <1>1, <2>1, ShrinkKeepsBypass DEF BypassInv
<1>. QED
  BY <1>1, <1>2, ParserBypass, DispatcherBypass DEF BypassInv, Next, Terminated

\* At most one bot packet is dispatched past any human packet.
THEOREM BypassIsBounded == Spec => []BoundedBypass
<1>1. Init => BypassInv
  <2>1. Init => SafeInv  BY InitSafe
  <2>2. Init => Unpassed /\ AtMostOnce  BY DEF Init, Unpassed, AtMostOnce
  <2>. QED  BY <2>1, <2>2 DEF BypassInv
<1>2. BypassInv => BoundedBypass
  BY DEF BypassInv, AtMostOnce, BoundedBypass, Packet
<1>. QED  BY <1>1, BypassStep, <1>2, PTL DEF Spec

---------------------------------------------------------------------------
(* PriorityScheduler implements LossyPriorityQueue.  Each channel          *)
(* operation is one abstract step: the first enqueue is Accept or Overflow, *)
(* evict_oldest is Drop, the retry is Accept (it never fails), a try_recv  *)
(* that finds a packet is TakeHuman or TakeBot; everything else stutters.  *)

\* The high channel holds human packets only.
HumansInHigh == Elems(queue["High"]) \subseteq HumanPacket

RefInv == BypassInv /\ HumansInHigh

\* The refinement mapping, named.
Pressure == CASE parse_pc \in {"overflow", "evict"} -> "full"
              [] parse_pc = "retry" -> "dropped"
              [] OTHER -> "none"
Passed == {pkt \in HumanPacket : bypass[pkt] > 0}

LEMMA SameOperators ==
  /\ \A pkt : Abstract!Class(pkt) = PriorityOf(pkt)
  /\ \A p : Abstract!Waiting(p) = Elems(queue[p])
  BY DEF Abstract!Class, Abstract!Waiting, PriorityOf, Elems

LEMMA AcceptKeepsHumans ==
  ASSUME TypeOK, HumansInHigh, NEW pkt \in Packet, Accept(pkt)
  PROVE  HumansInHigh'
<1>0. PriorityOf(pkt) \in Priority /\ "High" \in Priority
  BY ClassOf DEF Priority
<1>1. CASE PriorityOf(pkt) = "High"
  <2>1. pkt \in HumanPacket  BY <1>1 DEF PriorityOf
  <2>2. queue'["High"] = Append(queue["High"], pkt) /\ queue["High"] \in Seq(Packet)
    BY <1>0, <1>1 DEF Accept, TypeOK
  <2>3. Elems(queue'["High"]) = Elems(queue["High"]) \cup {pkt}
    BY <2>2, ElemsAppend
  <2>. QED  BY <2>1, <2>3 DEF HumansInHigh
<1>2. CASE PriorityOf(pkt) # "High"
  <2>1. queue'["High"] = queue["High"]  BY <1>0, <1>2 DEF Accept, TypeOK
  <2>. QED  BY <2>1 DEF HumansInHigh
<1>. QED  BY <1>1, <1>2

LEMMA ShrinkKeepsHumans ==
  ASSUME TypeOK, HumansInHigh, NEW p \in Priority, queue[p] # <<>>,
         queue' = [queue EXCEPT ![p] = Tail(@)]
  PROVE  HumansInHigh'
<1>1. Elems(queue'["High"]) \subseteq Elems(queue["High"])
  BY ShrinkKeepsType DEF Priority
<1>. QED  BY <1>1 DEF HumansInHigh

LEMMA RefInvStep == RefInv /\ [Next]_vars => RefInv'
<1>. SUFFICES ASSUME RefInv, [Next]_vars PROVE RefInv'
  OBVIOUS
<1>. BypassInv /\ TypeOK /\ RetryHasRoom /\ HumansInHigh
  BY DEF RefInv, BypassInv, SafeInv
<1>1. BypassInv'  BY BypassStep
<1>2. HumansInHigh'
  <2>1. CASE UNCHANGED queue  BY <2>1 DEF HumansInHigh
  <2>2. CASE Enqueue /\ HasRoom(parse_pkt)
    BY <2>2, AcceptKeepsHumans DEF Enqueue, TypeOK
  <2>3. CASE Retry
    <3>1. parse_pkt \in Packet /\ HasRoom(parse_pkt)
      BY <2>3 DEF Retry, RetryHasRoom, TypeOK
    <3>. QED  BY <2>3, <3>1, AcceptKeepsHumans DEF Retry
  <2>4. CASE EvictOldest /\ queue' # queue
    <3>. DEFINE p == PriorityOf(parse_pkt)
    <3>1. p \in Priority /\ queue[p] # <<>> /\ queue' = [queue EXCEPT ![p] = Tail(@)]
      BY <2>4, ClassOf DEF EvictOldest, DropHead, TypeOK
    <3>. QED  BY <3>1, ShrinkKeepsHumans
  <2>5. ASSUME NEW p \in Priority, TakeHead(p) PROVE HumansInHigh'
    BY <2>5, ShrinkKeepsHumans DEF TakeHead
  <2>. QED
    BY <2>1, <2>2, <2>3, <2>4, <2>5
       DEF Next, Parser, Dispatcher, Receive, ParserExits, Enqueue, LogOverflow,
           DispatchLoop, TryRecvHigh, TryRecvLow, Forward, SetStop, OtherPipeline,
           Terminated, vars, Priority
<1>. QED  BY <1>1, <1>2 DEF RefInv

---------------------------------------------------------------------------
(* Every step is an abstract step or a stutter.                            *)

\* Steps the abstract queue does not see.
Silent == UNCHANGED <<queue, parse_pkt, bypass>> /\ Pressure' = Pressure

LEMMA ParserImplements ==
  ASSUME RefInv, Parser
  PROVE  Abstract!Next \/ Silent
<1>. TypeOK /\ RetryHasRoom  BY DEF RefInv, BypassInv, SafeInv
<1>0. NoPacket \notin Packet  BY PacketAssumption DEF Packet
<1>. USE SameOperators
<1>1. CASE Receive
  <2>1. parse_pkt = NoPacket  BY <1>1 DEF Receive, TypeOK
  <2>2. Abstract!Offer
    BY <1>1, <2>1 DEF Receive, Abstract!Offer, InFlight, Packet
  <2>. QED  BY <2>2 DEF Abstract!Next
<1>2. CASE ParserExits \/ LogOverflow
  BY <1>2 DEF ParserExits, LogOverflow, Silent, Pressure
<1>3. ASSUME Accept(parse_pkt), HasRoom(parse_pkt), parse_pkt \in Packet,
             parse_pc \in {"enqueue", "retry"},
             parse_pc' = "recv", parse_pkt' = NoPacket
      PROVE  Abstract!Accept
  <2>1. Passed' = Passed \ {parse_pkt}
    BY <1>3 DEF Accept, Passed, TypeOK, Packet
  <2>2. Pressure # "full" /\ Pressure' = "none"  BY <1>3 DEF Pressure
  <2>. QED
    BY <1>0, <1>3, <2>1, <2>2 DEF Abstract!Accept, Accept, HasRoom, Passed, Pressure
<1>4. CASE Enqueue
  <2>. parse_pkt \in Packet  BY <1>4 DEF Enqueue, TypeOK
  <2>1. CASE HasRoom(parse_pkt)
    BY <1>3, <1>4, <2>1 DEF Enqueue, Abstract!Next
  <2>2. CASE ~HasRoom(parse_pkt)
    <3>1. Len(queue[PriorityOf(parse_pkt)]) \in Nat  BY ClassOf DEF TypeOK
    <3>2. Len(queue[PriorityOf(parse_pkt)]) >= QueueDepth
      BY <2>2, <3>1, BoundAssumption DEF HasRoom
    <3>3. Abstract!Overflow
      BY <1>0, <1>4, <2>2, <3>2 DEF Enqueue, Abstract!Overflow
    <3>. QED  BY <3>3 DEF Abstract!Next
  <2>. QED  BY <2>1, <2>2
<1>5. CASE EvictOldest
  BY <1>5 DEF EvictOldest, DropHead, Abstract!Drop, Abstract!Next
<1>6. CASE Retry
  <2>1. HasRoom(parse_pkt) /\ parse_pkt \in Packet
    BY <1>6 DEF Retry, RetryHasRoom, TypeOK
  <2>. QED  BY <1>3, <1>6, <2>1 DEF Retry, Abstract!Next
<1>. QED  BY <1>1, <1>2, <1>4, <1>5, <1>6 DEF Parser

LEMMA DispatcherImplements ==
  ASSUME RefInv, Dispatcher
  PROVE  Abstract!Next \/ Silent
<1>. TypeOK  BY DEF RefInv, BypassInv, SafeInv
<1>. USE SameOperators
<1>0. UNCHANGED parser_vars
  BY DEF Dispatcher, DispatchLoop, TryRecvHigh, TryRecvLow, Forward
<1>1. CASE DispatchLoop \/ Forward
  BY <1>0, <1>1 DEF DispatchLoop, Forward, Silent, Pressure, parser_vars
<1>2. CASE TryRecvHigh
  <2>1. CASE TakeHead("High")
    BY <1>0, <1>2, <2>1
       DEF TryRecvHigh, TakeHead, Abstract!TakeHuman, Abstract!Next, parser_vars
  <2>2. CASE UNCHANGED queue
    BY <1>0, <1>2, <2>2 DEF TryRecvHigh, Silent, Pressure, parser_vars
  <2>. QED  BY <1>2, <2>1, <2>2 DEF TryRecvHigh
<1>3. CASE TryRecvLow
  <2>1. CASE UNCHANGED <<queue, bypass>>
    BY <1>0, <2>1 DEF Silent, Pressure, parser_vars
  <2>2. CASE TakeHead("Low") /\ bypass' = [pkt \in Packet |->
                IF pkt \in Elems(queue["High"]) /\ bypass[pkt] < 2
                  THEN bypass[pkt] + 1 ELSE bypass[pkt]]
    <3>1. \A pkt \in Elems(queue["High"]) : bypass[pkt] = 0
      BY <1>3 DEF TryRecvLow, RefInv, BypassInv, Unpassed
    <3>2. Elems(queue["High"]) \subseteq HumanPacket  BY DEF RefInv, HumansInHigh
    <3>3. Elems(queue["High"]) \cap Passed = {}  BY <3>1 DEF Passed
    <3>4. Passed' = Passed \cup Elems(queue["High"])
      <4>1. \A pkt \in HumanPacket : bypass[pkt] \in 0..2  BY DEF TypeOK, Packet
      <4>2. \A pkt \in Elems(queue["High"]) : bypass'[pkt] = 1
        BY <2>2, <3>1, <3>2 DEF Packet
      <4>3. \A pkt \in HumanPacket \ Elems(queue["High"]) : bypass'[pkt] = bypass[pkt]
        BY <2>2 DEF Packet
      <4>. QED  BY <3>2, <4>1, <4>2, <4>3 DEF Passed
    <3>5. queue["Low"] # <<>> /\ queue' = [queue EXCEPT !["Low"] = Tail(@)]
      BY <2>2 DEF TakeHead
    <3>6. Abstract!TakeBot
      BY <1>0, <3>3, <3>4, <3>5 DEF Abstract!TakeBot, Passed, parser_vars
    <3>. QED  BY <3>6 DEF Abstract!Next
  <2>. QED  BY <1>3, <2>1, <2>2 DEF TryRecvLow
<1>. QED  BY <1>1, <1>2, <1>3 DEF Dispatcher

\* PriorityScheduler is a bounded lossy queue per class, in which every packet
\* offered is accepted and a bot passes a waiting human at most once.
THEOREM Implements == Spec => Refines
<1>1. Init => RefInv
  <2>1. Init => BypassInv
    <3>1. Init => SafeInv  BY InitSafe
    <3>2. Init => Unpassed /\ AtMostOnce  BY DEF Init, Unpassed, AtMostOnce
    <3>. QED  BY <3>1, <3>2 DEF BypassInv
  <2>2. Init => HumansInHigh  BY DEF Init, HumansInHigh, Elems, Priority
  <2>. QED  BY <2>1, <2>2 DEF RefInv
<1>2. Init => Abstract!Init
  <2>1. Init => Passed = {}  BY DEF Init, Passed, Packet
  <2>. QED  BY <2>1 DEF Init, Abstract!Init, Passed, Priority
<1>3. RefInv /\ [Next]_vars => [Abstract!Next]_Abstract!vars
  <2>. SUFFICES ASSUME RefInv, [Next]_vars PROVE [Abstract!Next]_Abstract!vars
    OBVIOUS
  <2>1. Silent => UNCHANGED Abstract!vars
    BY DEF Silent, Abstract!vars, Pressure
  <2>2. CASE SetStop \/ OtherPipeline \/ UNCHANGED vars
    <3>1. Silent
      BY <2>2 DEF SetStop, OtherPipeline, vars, parser_vars, Silent, Pressure
    <3>. QED  BY <2>1, <3>1
  <2>. QED
    BY <2>1, <2>2, ParserImplements, DispatcherImplements DEF Next, Terminated
<1>. QED  BY <1>1, RefInvStep, <1>2, <1>3, PTL DEF Spec, Refines, Abstract!Spec
=============================================================================
