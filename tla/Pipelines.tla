----------------------------- MODULE Pipelines -----------------------------
(***************************************************************************)
(* One run of the program: both pipelines from source to dispatcher, the   *)
(* stop flag and the metrics they share, the statistics each writes when   *)
(* it is over, and main, which waits for one of them and prints.           *)
(*                                                                         *)
(*   source      the mock stream; when a channel is full its try_send      *)
(*               drops the event, silently.                                *)
(*   bridge      adapt_to_sync_sender's thread, between the std channel of *)
(*               the threaded pipeline's source and its raw channel.       *)
(*   parser, dispatcher   as in PriorityScheduler, with numbers of packets *)
(*               in place of packets and one queue in place of two.        *)
(*   runner      run_async_pipeline_inner and run_threaded_pipeline: sleep,*)
(*               set stop, wait for the parser (the threaded one for the   *)
(*               dispatcher too), write the final statistics.              *)
(*                                                                         *)
(* A try_lock on the metrics fails when main prints, and may fail at any   *)
(* time, as the hot paths and the watchdog use them too.  stop is Relaxed  *)
(* and read at the head of a round: a loop may go on for some rounds after *)
(* it was set.  Sleeps take any time, so the 200 ms that main leaves      *)
(* the threads promise nothing.  When main returns, all threads are gone.  *)
(***************************************************************************)
EXTENDS Integers

CONSTANTS
  ChannelCapacity,  \* CHANNEL_CAPACITY: of the raw channels and the bridge's
  QueueDepth,       \* QUEUE_DEPTH
  MaxEvents         \* per pipeline: bound on the events its source offers

Pipe    == {"async", "threaded"}
Bridged == {"threaded"}

ASSUME PipelinesAssumption ==
  /\ ChannelCapacity \in Nat \ {0} /\ QueueDepth \in Nat \ {0}
  /\ MaxEvents \in [Pipe -> Nat]

VARIABLES
  stop,        \* the flag both pipelines, the hot paths and main share
  printing,    \* does main hold SharedMetrics' mutex?
  src_pc, bridge_pc, parse_pc, disp_pc, run_pc,  \* per pipeline: next steps
  main_pc,
  bridge, raw, backlog,      \* per pipeline: channel lengths
  events, overflows,         \* per pipeline: the parser's counters
  result,                    \* per pipeline: what the runner got from them
  m_events, m_overflows,     \* {async,threaded}_{events_received,overflow_count}
  printed,                   \* per pipeline: what the summary showed
  made, evicted              \* history: events offered, packets evicted

pc_vars   == <<src_pc, bridge_pc, parse_pc, disp_pc, run_pc, main_pc>>
chan_vars == <<bridge, raw, backlog>>
stat_vars == <<events, overflows>>
m_vars    == <<m_events, m_overflows>>
sum_vars  == <<result, printed>>
hist_vars == <<made, evicted>>
pvars == <<stop, printing, pc_vars, chan_vars, stat_vars, m_vars, sum_vars, hist_vars>>

Count == 0..(MaxEvents["async"] + MaxEvents["threaded"])
Statistics == [events : Count, overflows : Count]

PTypeOK ==
  /\ stop \in BOOLEAN /\ printing \in BOOLEAN
  /\ src_pc \in [Pipe -> {"loop", "done"}]
  /\ bridge_pc \in [Pipe -> {"recv", "done"}]
  /\ parse_pc \in [Pipe -> {"loop", "enqueue", "overflow", "evict", "retry", "done"}]
  /\ disp_pc \in [Pipe -> {"loop", "done"}]
  /\ run_pc \in [Pipe -> {"sleep", "join", "report", "over"}]
  /\ main_pc \in {"await", "logs", "write", "summary", "print", "top_n", "tail", "exit"}
  /\ bridge \in [Pipe -> 0..ChannelCapacity] /\ raw \in [Pipe -> 0..ChannelCapacity]
  /\ backlog \in [Pipe -> 0..QueueDepth]
  /\ events \in [Pipe -> Count] /\ overflows \in [Pipe -> Count]
  /\ result \in [Pipe -> Statistics] /\ printed \in [Pipe -> Statistics]
  /\ m_events \in [Pipe -> Count] /\ m_overflows \in [Pipe -> Count]
  /\ made \in [Pipe -> Count] /\ evicted \in [Pipe -> Count]
  /\ printing <=> main_pc \in {"write", "print", "tail"}

None == [p \in Pipe |-> 0]
NoStatistics == [p \in Pipe |-> [events |-> 0, overflows |-> 0]]

PInit ==
  /\ stop = FALSE /\ printing = FALSE
  /\ src_pc = [p \in Pipe |-> "loop"] /\ bridge_pc = [p \in Pipe |-> "recv"]
  /\ parse_pc = [p \in Pipe |-> "loop"] /\ disp_pc = [p \in Pipe |-> "loop"]
  /\ run_pc = [p \in Pipe |-> "sleep"] /\ main_pc = "await"
  /\ bridge = None /\ raw = None /\ backlog = None
  /\ events = None /\ overflows = None
  /\ result = NoStatistics /\ printed = NoStatistics
  /\ m_events = None /\ m_overflows = None
  /\ made = None /\ evicted = None

Go(pc, p, next) == [pc EXCEPT ![p] = next]
Add(f, p, n) == [f EXCEPT ![p] = @ + n]

---------------------------------------------------------------------------
(* Source and bridge.                                                      *)

SourceEnds(p) ==
  /\ src_pc[p] = "loop" /\ stop
  /\ src_pc' = Go(src_pc, p, "done")
  /\ UNCHANGED <<stop, printing, bridge_pc, parse_pc, disp_pc, run_pc, main_pc,
                 chan_vars, stat_vars, m_vars, sum_vars, hist_vars>>

\* try_send into a bounded channel: 1 if it fits, or 0. The parser's end takes
\* the receiver of the raw channel with it, and then nothing fits any more.
BridgeFits(p) == IF bridge[p] < ChannelCapacity THEN 1 ELSE 0
RawFits(p) == IF raw[p] < ChannelCapacity /\ parse_pc[p] # "done" THEN 1 ELSE 0

\* An event the silence window does not hold back is offered to the channel.
Offer(p) ==
  /\ src_pc[p] = "loop" /\ made[p] < MaxEvents[p]
  /\ made' = Add(made, p, 1)
  /\ IF p \in Bridged
       THEN bridge' = Add(bridge, p, BridgeFits(p)) /\ UNCHANGED raw
       ELSE raw' = Add(raw, p, RawFits(p)) /\ UNCHANGED bridge
  /\ UNCHANGED <<stop, printing, pc_vars, backlog, stat_vars, m_vars, sum_vars, evicted>>

\* recv, and try_send into the raw channel.
Relay(p) ==
  /\ bridge_pc[p] = "recv" /\ bridge[p] > 0
  /\ bridge' = Add(bridge, p, -1)
  /\ raw' = Add(raw, p, RawFits(p))
  /\ UNCHANGED <<stop, printing, pc_vars, backlog, stat_vars, m_vars, sum_vars, hist_vars>>

\* Faulty variant of BridgeEnds: a clone of the sender is kept.
Faulty_SenderKept(p) == FALSE /\ UNCHANGED pvars

\* The source is gone and with it the sender: recv fails once all is relayed.
BridgeEnds(p) ==
  /\ bridge_pc[p] = "recv" /\ bridge[p] = 0 /\ src_pc[p] = "done"
  /\ bridge_pc' = Go(bridge_pc, p, "done")
  /\ UNCHANGED <<stop, printing, src_pc, parse_pc, disp_pc, run_pc, main_pc,
                 chan_vars, stat_vars, m_vars, sum_vars, hist_vars>>

---------------------------------------------------------------------------
(* Parser and dispatcher.                                                  *)

ParserEnds(p) ==
  /\ parse_pc[p] = "loop" /\ stop
  /\ parse_pc' = Go(parse_pc, p, "done")
  /\ UNCHANGED <<stop, printing, src_pc, bridge_pc, disp_pc, run_pc, main_pc,
                 chan_vars, stat_vars, m_vars, sum_vars, hist_vars>>

\* An event, or a malformed one, which is skipped.
ReceiveRaw(p) ==
  /\ parse_pc[p] = "loop" /\ raw[p] > 0
  /\ raw' = Add(raw, p, -1)
  /\ \/ events' = Add(events, p, 1) /\ parse_pc' = Go(parse_pc, p, "enqueue")
     \/ UNCHANGED <<events, parse_pc>>
  /\ UNCHANGED <<stop, printing, src_pc, bridge_pc, disp_pc, run_pc, main_pc, bridge,
                 backlog, overflows, m_vars, sum_vars, hist_vars>>

EnqueuePacket(p) ==
  /\ parse_pc[p] = "enqueue"
  /\ IF backlog[p] < QueueDepth
       THEN backlog' = Add(backlog, p, 1) /\ parse_pc' = Go(parse_pc, p, "loop")
       ELSE UNCHANGED backlog /\ parse_pc' = Go(parse_pc, p, "overflow")
  /\ UNCHANGED <<stop, printing, src_pc, bridge_pc, disp_pc, run_pc, main_pc, bridge,
                 raw, stat_vars, m_vars, sum_vars, hist_vars>>

\* The overflow is counted, and shown if metrics.try_lock() succeeds.
CountOverflow(p) ==
  /\ parse_pc[p] = "overflow"
  /\ overflows' = Add(overflows, p, 1)
  /\ \/ ~printing /\ m_overflows' = [m_overflows EXCEPT ![p] = overflows'[p]]
     \/ UNCHANGED m_overflows
  /\ parse_pc' = Go(parse_pc, p, "evict")
  /\ UNCHANGED <<stop, printing, src_pc, bridge_pc, disp_pc, run_pc, main_pc, chan_vars,
                 events, m_events, sum_vars, hist_vars>>

\* evict_oldest: there may be nothing left to evict.
EvictHead(p) ==
  /\ parse_pc[p] = "evict"
  /\ LET n == IF backlog[p] > 0 THEN 1 ELSE 0 IN
       backlog' = Add(backlog, p, -n) /\ evicted' = Add(evicted, p, n)
  /\ parse_pc' = Go(parse_pc, p, "retry")
  /\ UNCHANGED <<stop, printing, src_pc, bridge_pc, disp_pc, run_pc, main_pc, bridge,
                 raw, stat_vars, m_vars, sum_vars, made>>

RetryEnqueue(p) ==
  /\ parse_pc[p] = "retry"
  /\ backlog' = IF backlog[p] < QueueDepth THEN Add(backlog, p, 1) ELSE backlog
  /\ parse_pc' = Go(parse_pc, p, "loop")
  /\ UNCHANGED <<stop, printing, src_pc, bridge_pc, disp_pc, run_pc, main_pc, bridge,
                 raw, stat_vars, m_vars, sum_vars, hist_vars>>

DispatcherEnds(p) ==
  /\ disp_pc[p] = "loop" /\ stop
  /\ disp_pc' = Go(disp_pc, p, "done")
  /\ UNCHANGED <<stop, printing, src_pc, bridge_pc, parse_pc, run_pc, main_pc,
                 chan_vars, stat_vars, m_vars, sum_vars, hist_vars>>

Dequeue(p) ==
  /\ disp_pc[p] = "loop" /\ backlog[p] > 0
  /\ backlog' = Add(backlog, p, -1)
  /\ UNCHANGED <<stop, printing, pc_vars, bridge, raw, stat_vars, m_vars, sum_vars,
                 hist_vars>>

---------------------------------------------------------------------------
(* The runners, main, and the other users of the metrics.                  *)

\* The duration is over for this pipeline, and so it is for the other one.
DurationOver(p) ==
  /\ run_pc[p] = "sleep"
  /\ stop' = TRUE
  /\ run_pc' = Go(run_pc, p, "join")
  /\ UNCHANGED <<printing, src_pc, bridge_pc, parse_pc, disp_pc, main_pc, chan_vars,
                 stat_vars, m_vars, sum_vars, hist_vars>>

\* Faulty variant of JoinThreads: the counters are read without a join.
Faulty_NoJoin(p) ==
  /\ run_pc[p] = "join"
  /\ result' = [result EXCEPT ![p] = [events |-> events[p], overflows |-> overflows[p]]]
  /\ run_pc' = Go(run_pc, p, "report")
  /\ UNCHANGED <<stop, printing, src_pc, bridge_pc, parse_pc, disp_pc, main_pc,
                 chan_vars, stat_vars, m_vars, printed, hist_vars>>

\* stats_handle.await, or both joins and the loads after them.
JoinThreads(p) ==
  /\ run_pc[p] = "join" /\ parse_pc[p] = "done"
  /\ p = "threaded" => disp_pc[p] = "done"
  /\ result' = [result EXCEPT ![p] = [events |-> events[p], overflows |-> overflows[p]]]
  /\ run_pc' = Go(run_pc, p, "report")
  /\ UNCHANGED <<stop, printing, src_pc, bridge_pc, parse_pc, disp_pc, main_pc,
                 chan_vars, stat_vars, m_vars, printed, hist_vars>>

\* The final statistics, if metrics.try_lock() succeeds.
Report(p) ==
  /\ run_pc[p] = "report"
  /\ \/ /\ ~printing
        /\ m_events' = [m_events EXCEPT ![p] = result[p].events]
        /\ m_overflows' = [m_overflows EXCEPT ![p] = result[p].overflows]
     \/ UNCHANGED m_vars
  /\ run_pc' = Go(run_pc, p, "over")
  /\ UNCHANGED <<stop, printing, src_pc, bridge_pc, parse_pc, disp_pc, main_pc,
                 chan_vars, stat_vars, sum_vars, hist_vars>>

\* Only the async pipeline is waited for.
MainStops ==
  /\ main_pc = "await" /\ run_pc["async"] = "over"
  /\ stop' = TRUE
  /\ main_pc' = "logs"
  /\ UNCHANGED <<printing, src_pc, bridge_pc, parse_pc, disp_pc, run_pc, chan_vars,
                 stat_vars, m_vars, sum_vars, hist_vars>>

\* metrics.lock(): for the logs, for the first and the last part of the summary.
MainLocks ==
  /\ ~printing /\ printing' = TRUE
  /\ \/ main_pc = "logs" /\ main_pc' = "write" /\ UNCHANGED printed
     \/ /\ main_pc = "summary" /\ main_pc' = "print"
        /\ printed' = [p \in Pipe |-> [events |-> m_events[p], overflows |-> m_overflows[p]]]
     \/ main_pc = "top_n" /\ main_pc' = "tail" /\ UNCHANGED printed
  /\ UNCHANGED <<stop, src_pc, bridge_pc, parse_pc, disp_pc, run_pc, chan_vars,
                 stat_vars, m_vars, result, hist_vars>>

\* Faulty variant of MainUnlocks: the summary keeps the lock over top_n.
Faulty_KeepLock ==
  /\ printing
  /\ printing' = (main_pc = "print")
  /\ main_pc' = CASE main_pc = "write" -> "summary" [] main_pc = "print" -> "top_n"
                  [] main_pc = "tail" -> "exit" [] OTHER -> main_pc
  /\ UNCHANGED <<stop, src_pc, bridge_pc, parse_pc, disp_pc, run_pc, chan_vars,
                 stat_vars, m_vars, sum_vars, hist_vars>>

MainUnlocks ==
  /\ printing /\ printing' = FALSE
  /\ \/ main_pc = "write" /\ main_pc' = "summary"
     \/ main_pc = "print" /\ main_pc' = "top_n"
     \/ main_pc = "tail" /\ main_pc' = "exit"
  /\ UNCHANGED <<stop, src_pc, bridge_pc, parse_pc, disp_pc, run_pc, chan_vars,
                 stat_vars, m_vars, sum_vars, hist_vars>>

Source(p)     == SourceEnds(p) \/ Offer(p)
Bridge(p)     == p \in Bridged /\ (Relay(p) \/ BridgeEnds(p))
Parser(p)     == ParserEnds(p) \/ ReceiveRaw(p) \/ EnqueuePacket(p)
                   \/ CountOverflow(p) \/ EvictHead(p) \/ RetryEnqueue(p)
Dispatcher(p) == DispatcherEnds(p) \/ Dequeue(p)
Runner(p)     == DurationOver(p) \/ JoinThreads(p) \/ Report(p)
Main          == MainStops \/ MainLocks \/ MainUnlocks

Exited == main_pc = "exit" /\ UNCHANGED pvars

PNext ==
  \/ /\ main_pc # "exit"
     /\ \/ \E p \in Pipe :
             Source(p) \/ Bridge(p) \/ Parser(p) \/ Dispatcher(p) \/ Runner(p)
        \/ Main
  \/ Exited

PSpec == PInit /\ [][PNext]_pvars

\* As long as a thread of a pipeline can go on, one does: no more is needed,
\* for once stop is set each has finitely many steps left.
Threads == \E p \in Pipe :
  Source(p) \/ Bridge(p) \/ Parser(p) \/ Dispatcher(p) \/ Runner(p)
PFairSpec == PSpec /\ WF_pvars(main_pc # "exit" /\ Threads)

---------------------------------------------------------------------------
(* Properties.                                                             *)

\* A pipeline's statistics are all there or all missing, and never early: a
\* received-count other than 0 is final, and with it the overflow count, in the
\* metrics and in the summary main prints, although the threaded pipeline may be
\* running on when it does. The drops shown then cover every eviction. An
\* overflow count shown before the end may be behind, as updates are lost when
\* the metrics are taken, but is never ahead.
StatisticsAreFinal ==
  \A p \in Pipe :
    /\ m_events[p] # 0 => /\ parse_pc[p] = "done" /\ m_events[p] = events[p]
                          /\ m_overflows[p] = overflows[p]
    /\ printed[p].events # 0 => /\ printed[p] = result[p]
                                /\ evicted[p] <= printed[p].overflows
    /\ m_overflows[p] <= overflows[p]

\* Once stop is set, by whichever pipeline is over first, all threads of both
\* end, the bridge too, which looks only at its channel; or main has returned.
StopEndsAll ==
  stop ~> \/ main_pc = "exit"
          \/ \A p \in Pipe :
               /\ src_pc[p] = "done" /\ parse_pc[p] = "done" /\ disp_pc[p] = "done"
               /\ run_pc[p] = "over" /\ (p \in Bridged => bridge_pc[p] = "done")
=============================================================================
