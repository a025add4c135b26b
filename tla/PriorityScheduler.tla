------------------------- MODULE PriorityScheduler -------------------------
(***************************************************************************)
(* Component C: the two bounded priority queues, and the two threads (or   *)
(* Tokio tasks) of one pipeline that meet there.                           *)
(*                                                                         *)
(*   parser      drain_and_parse / threaded_parse_loop: enqueue; when the  *)
(*               queue of the packet's class is full, count and log an     *)
(*               overflow, evict the head of that queue, enqueue again and *)
(*               ignore the result.                                        *)
(*   dispatcher  dispatch_loop_async / run_dispatch_loop: dequeue_next     *)
(*               (a try_recv on the high queue, then one on the low queue) *)
(*               and hand the packet to the hot path's channel.            *)
(*                                                                         *)
(* Each channel operation is one atomic step; whatever lies between two    *)
(* channel operations of a thread may be interleaved with the other one.   *)
(* The stream of packets is endless: a packet that has left the scheduler  *)
(* may be offered again, so Packet need not be large.                      *)
(***************************************************************************)
EXTENDS Integers, Sequences

CONSTANTS
  HumanPacket,   \* packets of Priority::High
  BotPacket,     \* packets of Priority::Low
  NoPacket,      \* "this thread holds no packet"
  QueueDepth,    \* QUEUE_DEPTH, per priority class
  MaxOverflows,  \* the u64 overflow counter saturates here in the model
  LogCap,        \* cap of SharedMetrics.overflow_log
  DriftWindow    \* WINDOW of LatencySamples

Packet == HumanPacket \cup BotPacket
Priority == {"High", "Low"}
PriorityOf(pkt) == IF pkt \in HumanPacket THEN "High" ELSE "Low"

ASSUME PacketAssumption ==
  /\ HumanPacket \cap BotPacket = {}
  /\ NoPacket \notin Packet
ASSUME BoundAssumption ==
  /\ QueueDepth \in Nat \ {0}
  /\ LogCap \in Nat \ {0}
  /\ MaxOverflows \in Nat
  /\ DriftWindow \in Nat

VARIABLES
  queue,        \* the two crossbeam channels, oldest packet first
  parse_pc, parse_pkt,   \* parser: next step, packet in hand
  disp_pc, disp_pkt,     \* dispatcher: next step, packet in hand
  overflows,    \* parser's overflow counter
  overflow_log, \* SharedMetrics.overflow_log, of both pipelines
  drift,        \* number of drift samples kept, per class, of both pipelines
  stop,         \* the shared stop flag
  bypass        \* history: bots dequeued past a packet since it was accepted,
                \* where 2 stands for two or more

parser_vars == <<parse_pc, parse_pkt>>
disp_vars   == <<disp_pc, disp_pkt>>
log_vars    == <<overflows, overflow_log>>
vars == <<queue, parser_vars, disp_vars, log_vars, drift, stop, bypass>>

Elems(s) == {s[i] : i \in 1..Len(s)}
InFlight == Elems(queue["High"]) \cup Elems(queue["Low"])
              \cup {parse_pkt, disp_pkt}
\* An OverflowEvent, as far as its total_drops goes.
OverflowEvent == 0..MaxOverflows

TypeOK ==
  /\ queue \in [Priority -> Seq(Packet)]
  /\ \A p \in Priority : Len(queue[p]) <= QueueDepth
  /\ parse_pc \in {"recv", "enqueue", "overflow", "evict", "retry", "done"}
  /\ parse_pkt \in Packet \cup {NoPacket}
  /\ parse_pkt = NoPacket <=> parse_pc \in {"recv", "done"}
  /\ disp_pc \in {"loop", "high", "low", "send", "done"}
  /\ disp_pkt \in Packet \cup {NoPacket}
  /\ disp_pkt = NoPacket <=> disp_pc # "send"
  /\ overflows \in 0..MaxOverflows
  /\ overflow_log \in Seq(OverflowEvent)
  /\ Len(overflow_log) <= LogCap
  /\ drift \in [Priority -> 0..DriftWindow]
  /\ stop \in BOOLEAN
  /\ bypass \in [Packet -> 0..2]

Init ==
  /\ queue = [p \in Priority |-> <<>>]
  /\ parse_pc = "recv" /\ parse_pkt = NoPacket
  /\ disp_pc = "loop" /\ disp_pkt = NoPacket
  /\ overflows = 0 /\ overflow_log = <<>>
  /\ drift = [p \in Priority |-> 0]
  /\ stop = FALSE
  /\ bypass = [pkt \in Packet |-> 0]

---------------------------------------------------------------------------
(* Operations of PriorityScheduler.                                        *)

HasRoom(pkt) == Len(queue[PriorityOf(pkt)]) < QueueDepth

\* Faulty variant of Accept: the packet joins its queue at the head.
Faulty_AcceptAtHead(pkt) ==
  /\ queue' = [queue EXCEPT ![PriorityOf(pkt)] = <<pkt>> \o @]
  /\ bypass' = [bypass EXCEPT ![pkt] = 0]

\* enqueue() returning true: the packet is at the tail of its class.
Accept(pkt) ==
  /\ queue' = [queue EXCEPT ![PriorityOf(pkt)] = Append(@, pkt)]
  /\ bypass' = [bypass EXCEPT ![pkt] = 0]

\* Faulty variants of DropHead: the other class pays; the newest packet goes.
Faulty_DropOtherClass(p) ==
  LET q == CHOOSE other \in Priority : other # p
  IN  queue' = IF queue[q] = <<>> THEN queue ELSE [queue EXCEPT ![q] = Tail(@)]
Faulty_DropNewest(p) ==
  queue' = IF queue[p] = <<>> THEN queue
           ELSE [queue EXCEPT ![p] = SubSeq(@, 1, Len(@) - 1)]

\* Discard the head of a queue; nothing happens to an empty one.
DropHead(p) ==
  queue' = IF queue[p] = <<>> THEN queue
                              ELSE [queue EXCEPT ![p] = Tail(@)]

\* LatencySamples::push, as far as the number of samples goes.
CountSample(p) ==
  [drift EXCEPT ![p] = IF @ < DriftWindow THEN @ + 1 ELSE @]

\* dequeue_next() once a try_recv has found a packet: the drift sample is
\* lost when another thread holds the metrics lock.
TakeHead(p) ==
  /\ queue[p] # <<>>
  /\ queue' = [queue EXCEPT ![p] = Tail(@)]
  /\ disp_pkt' = Head(queue[p])
  /\ disp_pc' = "send"
  /\ \E locked \in BOOLEAN : drift' = IF locked THEN CountSample(p) ELSE drift

\* Faulty variant of PushOverflow: the cap is forgotten.
Faulty_PushUncapped(ev) == Append(overflow_log, ev)

\* push_overflow: the oldest entry makes room in a full log.
PushOverflow(ev) ==
  IF Len(overflow_log) >= LogCap THEN Append(Tail(overflow_log), ev)
                                 ELSE Append(overflow_log, ev)

---------------------------------------------------------------------------
(* The parser.                                                             *)

\* Faulty variant of Receive: the loop does not look at stop.
Faulty_ReceiveForever ==
  /\ parse_pc = "recv"
  /\ parse_pkt' \in Packet \ InFlight
  /\ parse_pc' = "enqueue"
  /\ UNCHANGED <<queue, disp_vars, log_vars, drift, stop, bypass>>

\* Head of the loop: a packet parsed from the raw channel.
Receive ==
  /\ parse_pc = "recv" /\ ~stop
  /\ parse_pkt' \in Packet \ InFlight
  /\ parse_pc' = "enqueue"
  /\ UNCHANGED <<queue, disp_vars, log_vars, drift, stop, bypass>>

ParserExits ==
  /\ parse_pc = "recv" /\ stop
  /\ parse_pc' = "done"
  /\ UNCHANGED <<queue, parse_pkt, disp_vars, log_vars, drift, stop, bypass>>

Enqueue ==
  /\ parse_pc = "enqueue"
  /\ \/ /\ HasRoom(parse_pkt)
        /\ Accept(parse_pkt)
        /\ parse_pc' = "recv" /\ parse_pkt' = NoPacket
     \/ /\ ~HasRoom(parse_pkt)
        /\ parse_pc' = "overflow"
        /\ UNCHANGED <<queue, bypass, parse_pkt>>
  /\ UNCHANGED <<disp_vars, log_vars, drift, stop>>

\* Faulty variant of LogOverflow: an overflow counts only if it can be logged.
Faulty_CountUnderLock ==
  /\ parse_pc = "overflow"
  /\ parse_pc' = "evict"
  /\ \/ /\ overflows' = overflows + 1
        /\ overflow_log' = PushOverflow(overflows')
     \/ UNCHANGED log_vars
  /\ UNCHANGED <<queue, parse_pkt, disp_vars, drift, stop, bypass>>

\* The counter is the parser's own; the event is dropped when the metrics lock
\* is held elsewhere.
LogOverflow ==
  /\ parse_pc = "overflow"
  /\ parse_pc' = "evict"
  /\ overflows' = IF overflows < MaxOverflows THEN overflows + 1 ELSE overflows
  /\ \E locked \in BOOLEAN :
       overflow_log' = IF locked THEN PushOverflow(overflows') ELSE overflow_log
  /\ UNCHANGED <<queue, parse_pkt, disp_vars, drift, stop, bypass>>

\* Faulty variant of EvictOldest: the retry follows at once.
Faulty_NoEviction ==
  /\ parse_pc = "evict"
  /\ parse_pc' = "retry"
  /\ UNCHANGED <<queue, parse_pkt, disp_vars, log_vars, drift, stop, bypass>>

EvictOldest ==
  /\ parse_pc = "evict"
  /\ DropHead(PriorityOf(parse_pkt))
  /\ parse_pc' = "retry"
  /\ UNCHANGED <<parse_pkt, disp_vars, log_vars, drift, stop, bypass>>

\* The second enqueue: its result is ignored, a packet that does not fit
\* is gone.
Retry ==
  /\ parse_pc = "retry"
  /\ IF HasRoom(parse_pkt) THEN Accept(parse_pkt)
                           ELSE UNCHANGED <<queue, bypass>>
  /\ parse_pc' = "recv" /\ parse_pkt' = NoPacket
  /\ UNCHANGED <<disp_vars, log_vars, drift, stop>>

Parser == Receive \/ ParserExits \/ Enqueue \/ LogOverflow \/ EvictOldest \/ Retry

---------------------------------------------------------------------------
(* The dispatcher.                                                         *)

DispatchLoop ==
  /\ disp_pc = "loop"
  /\ disp_pc' = IF stop THEN "done" ELSE "high"
  /\ UNCHANGED <<queue, parser_vars, disp_pkt, log_vars, drift, stop, bypass>>

TryRecvHigh ==
  /\ disp_pc = "high"
  /\ \/ TakeHead("High")
     \/ /\ queue["High"] = <<>>
        /\ disp_pc' = "low"
        /\ UNCHANGED <<queue, disp_pkt, drift>>
  /\ UNCHANGED <<parser_vars, log_vars, stop, bypass>>

\* Every human packet that is waiting now has been overtaken by one bot more.
TryRecvLow ==
  /\ disp_pc = "low"
  /\ \/ /\ TakeHead("Low")
        /\ bypass' = [pkt \in Packet |->
                        IF pkt \in Elems(queue["High"]) /\ bypass[pkt] < 2
                          THEN bypass[pkt] + 1 ELSE bypass[pkt]]
     \/ /\ queue["Low"] = <<>>
        /\ disp_pc' = "loop"
        /\ UNCHANGED <<queue, disp_pkt, drift, bypass>>
  /\ UNCHANGED <<parser_vars, log_vars, stop>>

\* Faulty variant of Forward: after a bot, drain the low queue first.
Faulty_DrainBots ==
  /\ disp_pc = "send"
  /\ disp_pc' = IF disp_pkt \in BotPacket THEN "low" ELSE "loop"
  /\ disp_pkt' = NoPacket
  /\ UNCHANGED <<queue, parser_vars, log_vars, drift, stop, bypass>>

\* out_tx.try_send, whose result is ignored.
Forward ==
  /\ disp_pc = "send"
  /\ disp_pc' = "loop" /\ disp_pkt' = NoPacket
  /\ UNCHANGED <<queue, parser_vars, log_vars, drift, stop, bypass>>

Dispatcher == DispatchLoop \/ TryRecvHigh \/ TryRecvLow \/ Forward

---------------------------------------------------------------------------

\* The end of the run, or another pipeline sharing the flag.
SetStop ==
  /\ ~stop /\ stop' = TRUE
  /\ UNCHANGED <<queue, parser_vars, disp_vars, log_vars, drift, bypass>>

\* The other pipeline has a parser, a scheduler and a counter of its own, and
\* writes to the same SharedMetrics: its events and its drift samples.
OtherPipeline ==
  /\ \/ /\ \E total \in 1..MaxOverflows : overflow_log' = PushOverflow(total)
        /\ UNCHANGED drift
     \/ /\ \E p \in Priority : drift' = CountSample(p)
        /\ UNCHANGED overflow_log
  /\ UNCHANGED <<queue, parser_vars, disp_vars, overflows, stop, bypass>>

Terminated ==
  /\ parse_pc = "done" /\ disp_pc = "done"
  /\ UNCHANGED vars

Next == Parser \/ Dispatcher \/ SetStop \/ OtherPipeline \/ Terminated

Spec == Init /\ [][Next]_vars

\* Both loops run on threads of their own, and no step of either blocks.
FairSpec == Spec /\ WF_vars(Parser) /\ WF_vars(Dispatcher)

---------------------------------------------------------------------------
(* Properties.                                                             *)

\* The second enqueue, whose result drain_and_parse and threaded_parse_loop
\* throw away, never fails: between the eviction and the retry no other
\* thread adds to the queue, so the packet in hand is never lost.
RetryHasRoom == parse_pc = "retry" => HasRoom(parse_pkt)

\* "The dispatcher always drains the High-priority (human) channel completely
\* before taking items from the Low-priority (bot) channel"
\* (priority_scheduler.rs:10-11), but it looks at the two one after the other: a
\* human packet may arrive in between and be overtaken, though never twice.
BoundedBypass == \A pkt \in HumanPacket : bypass[pkt] <= 1

\* A human packet in the queue leaves it (dispatched or evicted), however
\* many bots keep arriving, unless the run is stopped.
HumanServed ==
  \A pkt \in HumanPacket :
    pkt \in Elems(queue["High"]) ~> pkt \notin Elems(queue["High"]) \/ stop

\* Once stop is set both threads end: the joins of run_threaded_pipeline and
\* the stats_handle.await of the async pipeline return.
Shutdown == stop ~> parse_pc = "done" /\ disp_pc = "done"

\* The promise to the rest of the system, stated without threads: a bounded
\* FIFO per class that accepts every packet offered, loses at most the oldest
\* one per overflow, and lets a bot overtake a waiting human at most once.
Abstract == INSTANCE LossyPriorityQueue WITH
  Capacity <- QueueDepth,
  waiting  <- queue,
  pending  <- parse_pkt,
  pressure <- CASE parse_pc \in {"overflow", "evict"} -> "full"
                [] parse_pc = "retry" -> "dropped"
                [] OTHER -> "none",
  passed   <- {pkt \in HumanPacket : bypass[pkt] > 0}
Refines == Abstract!Spec
=============================================================================
