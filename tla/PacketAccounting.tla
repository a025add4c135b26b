-------------------------- MODULE PacketAccounting --------------------------
(***************************************************************************)
(* PriorityScheduler with the fate of every packet written down: each      *)
(* packet is parsed at most once, and the history variables say in which   *)
(* order packets arrived and what became of them.                          *)
(***************************************************************************)
EXTENDS PriorityScheduler, FiniteSets

VARIABLES
  arrived,   \* packets in the order the parser produced them
  sent,      \* packets out_tx took, in the order it took them
  refused,   \* packets out_tx.try_send returned: dropped, unreported
  evicted,   \* packets evict_oldest took out of a queue
  rejected   \* packets the second enqueue did not accept

fate_vars == <<arrived, sent, refused, evicted, rejected>>
all_vars  == <<vars, fate_vars>>

AInit ==
  /\ Init
  /\ arrived = <<>> /\ sent = <<>>
  /\ refused = {} /\ evicted = {} /\ rejected = {}

AReceive ==
  /\ Receive
  /\ parse_pkt' \notin Elems(arrived)
  /\ arrived' = Append(arrived, parse_pkt')
  /\ UNCHANGED <<sent, refused, evicted, rejected>>

AEvictOldest ==
  /\ EvictOldest
  /\ evicted' = evicted \cup
       UNION {Elems(queue[p]) \ Elems(queue'[p]) : p \in Priority}
  /\ UNCHANGED <<arrived, sent, refused, rejected>>

ARetry ==
  /\ Retry
  /\ rejected' = rejected \cup ({parse_pkt} \ Elems(queue'[PriorityOf(parse_pkt)]))
  /\ UNCHANGED <<arrived, sent, refused, evicted>>

\* The hot path's channel is bounded too: out_tx may be full.
AForward ==
  /\ Forward
  /\ \/ sent' = Append(sent, disp_pkt) /\ UNCHANGED refused
     \/ refused' = refused \cup {disp_pkt} /\ UNCHANGED sent
  /\ UNCHANGED <<arrived, evicted, rejected>>

Elsewhere ==
  /\ \/ ParserExits \/ Enqueue \/ LogOverflow
     \/ DispatchLoop \/ TryRecvHigh \/ TryRecvLow
     \/ SetStop \/ OtherPipeline \/ Terminated
  /\ UNCHANGED fate_vars

ANext == AReceive \/ AEvictOldest \/ ARetry \/ AForward \/ Elsewhere

ASpec == AInit /\ [][ANext]_all_vars

---------------------------------------------------------------------------

Age(pkt) == CHOOSE i \in 1..Len(arrived) : arrived[i] = pkt
OfClass(p, S) == {pkt \in S : PriorityOf(pkt) = p}
Dispatched == Elems(sent) \cup refused \cup ({disp_pkt} \ {NoPacket})

Fate == [
  parser     |-> {parse_pkt}, high |-> Elems(queue["High"]),
  low        |-> Elems(queue["Low"]), dispatcher |-> {disp_pkt},
  sent       |-> Elems(sent), refused |-> refused,
  evicted    |-> evicted, rejected |-> rejected ]

\* No packet the parser produced disappears unreported between the parser and
\* out_tx, none is there twice, and none sits in the other class's channel:
\* drain_and_parse, evict_oldest and dequeue_next take from and put into the
\* same two channels without a common lock.
Conservation ==
  /\ \A pkt \in Elems(arrived) :
       Cardinality({place \in DOMAIN Fate : pkt \in Fate[place]}) = 1
  /\ \A p \in Priority :
       /\ OfClass(p, Elems(queue[p])) = Elems(queue[p])
       /\ Cardinality(Elems(queue[p])) = Len(queue[p])
  /\ rejected = {}

\* Within a class packets reach the hot path in the order they were parsed,
\* whatever is evicted from the head of the queue meanwhile.
FifoPerClass ==
  /\ \A i, j \in 1..Len(sent) :
       i < j /\ PriorityOf(sent[i]) = PriorityOf(sent[j])
         => Age(sent[i]) < Age(sent[j])
  /\ \A p \in Priority : \A old \in OfClass(p, Dispatched) :
       \A i \in 1..Len(queue[p]) : Age(old) < Age(queue[p][i])

\* Drop-oldest (async_pipeline.rs:10-11; REPORT.md:132 has the incoming packet
\* dropped instead): a packet that was evicted is older than every packet of its
\* class that still waits or is in the parser's hand.
DropsOldest ==
  \A old \in evicted :
    \A new \in Elems(queue[PriorityOf(old)])
                \cup OfClass(PriorityOf(old), {parse_pkt} \ {NoPacket}) :
      Age(old) < Age(new)

\* The parser's counter against the packets that are gone. It never falls behind
\* the evictions. It may run ahead, for an overflow that found the queue full may
\* find it empty when it evicts; but each such overflow has seen the dispatcher
\* take a whole queue of packets in between. (As long as the model's counter is
\* not saturated; the program's never is.)
Pending == IF parse_pc = "evict" THEN 1 ELSE 0
Overcount == overflows - Cardinality(evicted) - Pending
LossIsCounted ==
  overflows < MaxOverflows =>
    /\ Overcount >= 0
    /\ Overcount * QueueDepth <= Cardinality(Dispatched)
=============================================================================
