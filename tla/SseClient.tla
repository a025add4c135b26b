----------------------------- MODULE SseClient -----------------------------
(***************************************************************************)
(* Live ingestion under the watchdog: run_sse_client_with_reconnect, the   *)
(* raw channel, and the two parsers that also write the heartbeat.  The    *)
(* threaded pipeline always runs on its mock stream, so its heartbeats are *)
(* independent of the connection.                                          *)
(*                                                                         *)
(* The network and reqwest are external: a request may be answered, refused *)
(* or never answered, a stream may deliver chunks, fail, end or go silent; *)
(* reqwest ends both with an error RequestTimeout after the request began. *)
(***************************************************************************)
EXTENDS Watchdog

CONSTANTS
  RawCapacity,     \* CHANNEL_CAPACITY of the raw channel
  RequestTimeout,  \* the client's timeout, from request to end of body
  RetryWait,       \* sleep after a connection error
  PauseWait        \* sleep after the stream has ended

ASSUME SseAssumption ==
  /\ {"sse", "async", "threaded"} = Writers
  /\ RawCapacity \in Nat \ {0}
  /\ RequestTimeout \in Nat /\ RetryWait \in Nat /\ PauseWait \in Nat

VARIABLES
  conn,      \* where run_sse_client_with_reconnect is
  chunk,     \* the chunk in hand: "data", "error" or "none"
  req_time,  \* ticks since the request began
  wait,      \* ticks left to sleep
  raw,       \* number of events in the raw channel
  breaks,    \* history: connections abandoned because of the flag
  unheard    \* history: ticks since the latest event from the network or, if
             \* later, Network Reset; Never before the first event

conn_vars == <<conn, chunk, req_time, wait>>
svars == <<wvars, conn_vars, raw, breaks, unheard>>

STypeOK ==
  /\ TypeOK
  /\ conn \in {"loop", "request", "stream", "stopped?", "flagged?", "event",
               "store", "send", "ended", "pause", "backoff", "done"}
  /\ chunk \in {"data", "error", "none"}
  /\ chunk # "none" <=> conn \in {"stopped?", "flagged?", "event", "store", "send"}
  /\ conn \in {"event", "store", "send"} => chunk = "data"
  /\ stamp["sse"] # Never <=> conn = "store"
  /\ req_time \in 0..RequestTimeout
  /\ wait \in 0..(RetryWait + PauseWait)
  /\ raw \in 0..RawCapacity
  /\ breaks \in 0..MaxResets
  /\ unheard \in Age \cup {Never}

SInit ==
  /\ Init
  /\ conn = "loop" /\ chunk = "none" /\ req_time = 0 /\ wait = 0
  /\ raw = 0 /\ breaks = 0 /\ unheard = Never

---------------------------------------------------------------------------
(* run_sse_client_with_reconnect.                                          *)

Become(next) == conn' = next

SseLoop ==
  /\ conn = "loop"
  /\ Become(IF stop THEN "done" ELSE "request")
  /\ req_time' = 0
  /\ UNCHANGED <<wvars, chunk, wait, raw, breaks, unheard>>

Connected ==
  /\ conn = "request" /\ req_time < RequestTimeout
  /\ Become("stream")
  /\ UNCHANGED <<wvars, chunk, req_time, wait, raw, breaks, unheard>>

\* A connection error, the timeout included: the flag is not looked at.
ConnectError ==
  /\ conn = "request"
  /\ Become("backoff") /\ wait' = RetryWait
  /\ UNCHANGED <<wvars, chunk, req_time, raw, breaks, unheard>>

\* byte_stream.next(): a chunk, an error, or the end of the stream. A live
\* stream is cut off by an error when the request times out.
NextChunk ==
  /\ conn = "stream"
  /\ \/ /\ Become("stopped?")
        /\ chunk' \in (IF req_time < RequestTimeout THEN {"data", "error"}
                                                    ELSE {"error"})
     \/ Become("ended") /\ UNCHANGED chunk
  /\ UNCHANGED <<wvars, req_time, wait, raw, breaks, unheard>>

ChunkWhenStopped ==
  /\ conn = "stopped?"
  /\ IF stop THEN Become("done") /\ chunk' = "none"
             ELSE Become("flagged?") /\ UNCHANGED chunk
  /\ UNCHANGED <<wvars, req_time, wait, raw, breaks, unheard>>

\* Faulty variant of SwapFlag: the flag is read but not cleared.
Faulty_LoadFlag ==
  /\ conn = "flagged?"
  /\ IF reconnect_flag \/ chunk = "error"
       THEN Become("ended") /\ chunk' = "none"
       ELSE \/ Become("event") /\ UNCHANGED chunk
            \/ Become("stream") /\ chunk' = "none"
  /\ breaks' = IF reconnect_flag /\ breaks < MaxResets THEN breaks + 1 ELSE breaks
  /\ UNCHANGED <<wvars, req_time, wait, raw, unheard>>

\* reconnect_flag.swap(false): a set flag, or an error, ends the stream, and
\* the chunk is lost; otherwise the chunk completes an event, or none.
SwapFlag ==
  /\ conn = "flagged?" /\ TakeFlag
  /\ breaks' = IF reconnect_flag /\ breaks < MaxResets THEN breaks + 1 ELSE breaks
  /\ IF reconnect_flag \/ chunk = "error"
       THEN Become("ended") /\ chunk' = "none"
       ELSE \/ Become("event") /\ UNCHANGED chunk
            \/ Become("stream") /\ chunk' = "none"
  /\ UNCHANGED <<req_time, wait, raw, unheard>>

SseReadClock ==
  /\ conn = "event" /\ ReadClock("sse")
  /\ unheard' = 0
  /\ Become("store")
  /\ UNCHANGED <<chunk, req_time, wait, raw, breaks>>

SseStore ==
  /\ conn = "store" /\ Store("sse")
  /\ Become("send")
  /\ UNCHANGED <<chunk, req_time, wait, raw, breaks, unheard>>

\* Faulty variant of TrySend: the channel is not bounded.
Faulty_SendUnbounded ==
  /\ conn = "send"
  /\ raw' = raw + 1
  /\ Become("stream") /\ chunk' = "none"
  /\ UNCHANGED <<wvars, req_time, wait, breaks, unheard>>

\* tx.try_send: an event that does not fit is dropped. The chunk may hold
\* another event.
TrySend ==
  /\ conn = "send"
  /\ raw' = IF raw < RawCapacity THEN raw + 1 ELSE raw
  /\ \/ Become("event") /\ UNCHANGED chunk
     \/ Become("stream") /\ chunk' = "none"
  /\ UNCHANGED <<wvars, req_time, wait, breaks, unheard>>

StreamEnded ==
  /\ conn = "ended"
  /\ IF stop THEN Become("loop") /\ UNCHANGED wait
             ELSE Become("pause") /\ wait' = PauseWait
  /\ UNCHANGED <<wvars, chunk, req_time, raw, breaks, unheard>>

WaitOver ==
  /\ conn \in {"pause", "backoff"} /\ wait = 0
  /\ Become("loop")
  /\ UNCHANGED <<wvars, chunk, req_time, wait, raw, breaks, unheard>>

Client ==
  \/ SseLoop \/ Connected \/ ConnectError \/ NextChunk \/ ChunkWhenStopped
  \/ SwapFlag \/ SseReadClock \/ SseStore \/ TrySend \/ StreamEnded \/ WaitOver

---------------------------------------------------------------------------
(* The parsers, as far as the heartbeat goes.                              *)

\* drain_and_parse takes an event from the raw channel, stop having been looked
\* at before the await; a malformed one is skipped without a heartbeat.
AsyncReceive ==
  /\ raw > 0 /\ stamp["async"] = Never
  /\ raw' = raw - 1
  /\ ReadClock("async") \/ UNCHANGED wvars
  /\ UNCHANGED <<conn_vars, breaks, unheard>>

\* threaded_parse_loop, fed by its own mock stream, may beat at any time.
Heartbeat ==
  /\ Store("async") \/ ReadClock("threaded") \/ Store("threaded")
  /\ UNCHANGED <<conn_vars, raw, breaks, unheard>>

SPoll ==
  /\ Poll
  /\ unheard' = IF wd_pc = "report" /\ unheard # Never THEN 0 ELSE unheard
  /\ UNCHANGED <<conn_vars, raw, breaks>>

\* Only waiting takes time: for the network, for a timer, or between a clock
\* reading and its store.
STick ==
  /\ Tick
  /\ conn \in {"request", "stream", "store", "pause", "backoff", "done"}
  /\ conn \in {"request", "stream"} => req_time < RequestTimeout
  /\ conn \in {"pause", "backoff"} => wait > 0
  /\ raw > 0 => stop \/ stamp["async"] # Never
  /\ req_time' = IF conn \in {"request", "stream", "store"} /\ req_time < RequestTimeout
                   THEN req_time + 1 ELSE req_time
  /\ wait' = IF wait > 0 THEN wait - 1 ELSE 0
  /\ unheard' = Older(unheard)
  /\ UNCHANGED <<conn, chunk, raw, breaks>>

SSetStop == SetStop /\ UNCHANGED <<conn_vars, raw, breaks, unheard>>

SNext == Client \/ AsyncReceive \/ Heartbeat \/ SPoll \/ STick \/ SSetStop

SSpec == SInit /\ [][SNext]_svars

---------------------------------------------------------------------------
(* Properties.                                                             *)

\* One Network Reset costs at most one connection, although the flag is only
\* looked at when a chunk arrives and outlives a connection that ends or
\* fails by itself.
BreaksAreCaused == breaks <= reset_count

\* "triggers a 'Network Reset' if no data is received for 10 seconds"
\* (watchdog.rs:4-5): once events have arrived from the live stream, there is
\* a reset when none has for the timeout and one poll. (Stated for
\* MaxDelay = 0, where an event is parsed in the tick in which it arrives.)
LiveSilenceDetected ==
  wd_pc # "done" /\ unheard # Never => unheard <= Timeout + Slack
=============================================================================
