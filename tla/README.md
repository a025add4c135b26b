# A verification project for the Wikipedia real-time monitor

The program reads Wikipedia's stream of recent changes (live, or a mock), takes it
through two pipelines at once (one of Tokio tasks, one of OS threads), gives human edits
priority over bots, counts edits per domain, and watches itself: a fail-safe controller
sheds bot traffic when latency rises, and a watchdog reconnects when the stream falls
silent. The modules here model its concurrent core step by step; TLC checks them on small
instances, and TLAPS proves the main results for every value of the constants.

Paths below are relative to `src/src/` of the repository, but for its `README.md` and `REPORT.md`,
which are in `src/`.

## 1. Inventory

| Part | State | Operations | Hard behaviour |
|---|---|---|---|
| Ingestion `ingestion/sse_client.rs` | the connection, a buffer of bytes, the raw channel (bounded, drops the newest) | connect, read chunk, test `stop`, swap `reconnect_flag`, stamp `last_event_ms`, `try_send`, pause, back off | errors, timeouts, silent streams; a flag looked at only when a chunk arrives |
| Mock `ingestion/mock_stream.rs` | a counter, the silence window | generate, `try_send`, sleep | a pause the watchdog must see |
| SSE framing `sse_client.rs:91-140` | the buffer of one connection | cut at double newlines, find the `data:` line | chunks that end anywhere, a stream that breaks off inside a block |
| Parsing `types.rs`, `component_b/zero_copy_parser.rs` | none | serde, `from_change`, `parse_zero_copy`, `parse_hot_fields` | borrowed strings; three parsers of one format |
| A: pipelines `component_a/{async,threaded}_pipeline.rs` | raw channel, the bridge thread's channel, event and overflow counters, shared `stop` | parse, heartbeat, enqueue / log / evict / retry, dispatch, final statistics | parser and dispatcher work on the same queues without a common lock; shutdown |
| C: scheduler `component_c/priority_scheduler.rs` | two bounded crossbeam channels, drift samples | `enqueue`, `evict_oldest`, `dequeue_next`, `run_dispatch_loop` | two `try_recv` that are not atomic; eviction at the end the dispatcher reads |
| B: hot path `component_b/hot_path.rs` | stress counter; writes leaderboard, metrics, fail-safe | `process` | checks the mode before the work; skips bots in DEGRADED before it measures |
| D: leaderboard `component_d/leaderboard.rs` | a map under a mutex, a map under an rwlock, ten atomics | `increment`, `top_n` | snapshots against increments; counters under `try_lock` |
| D: benchmark `component_d/sync_benchmark.rs` | a shared count per strategy, latencies per thread | spawn, time each increment, join, mean, p99, throughput | results are those of the joined threads |
| E: fail-safe `component_e/fail_safe.rs` | `mode`, `degraded_clean`, `clean_cycles`, all atomic | `record_latency`, `transition_to` | one controller, two hot-path threads, check-then-act |
| E: watchdog `component_e/watchdog.rs` | heartbeat, reset count, reconnect flag | poll every second, reset after 10 s | stale loads, late stores, rearming over a newer value |
| Metrics `metrics.rs` | one mutex around counters, windows and capped logs | `push*`, percentiles | everyone uses `try_lock` and drops the update when it fails |
| `main.rs` | the wiring: metrics, `stop`, `last_event`, leaderboard and fail-safe are each *one* object shared by both pipelines | start, wait for the async pipeline, stop, write logs, print | sharing that the components do not expect; a summary printed while the threaded pipeline runs on |

How they interact:

    sse_client / mock -> raw channel -> parser -> [High | Low] -> dispatcher -> out channel -> hot path
          |                               |         scheduler C                                  |
          +------> last_event_ms <--------+                              leaderboard D, fail-safe E, metrics
                      ^   |
                      |   v
                    watchdog E ---- reconnect_flag ----> sse_client (swapped at the next chunk)

What makes each part correct: *C and the pipelines* lose no packet silently, keep the
order within a class, drop the oldest, do not starve or overtake humans, and stop;
*fail-safe* counts consecutive clean packets, takes only the transitions it names, counts
activations and returns to NORMAL; *watchdog* resets in time, only after silence, and not
again at once; *sse_client* survives every failure and gives up one connection per reset;
the *framing* delivers the events of complete blocks and nothing else, however the stream is
cut; the *parsers* agree; the *pipelines* write statistics that are
final or missing, and end when either is over; *D* loses no increment and its queries return
what was true; its *benchmark* counts every operation; *B* sheds bots as soon as the system is degraded, and still lets it
recover.

Not part of the compiled program, hence not modelled: `component_a/{sensor, processor,
sync_manager, transmitter}.rs`, `component_b/{actuator, controller, receiver}.rs` and
`advanced/` are in no module tree (section 7).

## 2. Modules

| Module | Models |
|---|---|
| `LossyPriorityQueue` | what C promises, without threads: a bounded FIFO per class, loss of the oldest, bounded overtaking |
| `PriorityScheduler` | both channels, parser and dispatcher of one pipeline, `stop`, overflow log; implements `LossyPriorityQueue` |
| `PacketAccounting` | the same with the fate of every packet recorded |
| `FailSafeFSM` | what E promises for calls that do not overlap: the three-state machine, its counts and its resets, driven by the latency of each packet |
| `FailSafe` | `record_latency` and `transition_to`, an atomic operation per step, any number of threads |
| `FailSafeCalls` | the same with the history of which calls overlap; implements `FailSafeFSM` |
| `HotPath` | extends `FailSafe` with the loop and `process`: DEGRADED skip, stress window, deadline misses |
| `Watchdog` | heartbeat, writers and polling thread in discrete time |
| `SseClient` | extends `Watchdog` with the connection loop, the raw channel and the parsers as `main.rs` wires them |
| `SseFraming` | the byte stream of one connection, cut into chunks and put together into events; the three parsers |
| `Pipelines` | both pipelines with source, bridge thread, parser, dispatcher and runner, as numbers of events; the shared `stop` and metrics; `main` |
| `AtomicLeaderboard` | what D promises, without locks: an increment is one step, a query too unless it reads counters without a lock |
| `Leaderboard` | the three strategies of D: `increment`, `top_n`, `try_lock` on the metrics; implements `AtomicLeaderboard` |
| `SyncBenchmark` | extends `Leaderboard` with the benchmark's threads, joins and statistics |
| `LatencySamples` | percentiles of `metrics.rs` and of the benchmark, as operators |
| `MCPacketAccounting`, `MCPipelines`, `MCSseFraming`, `MCSyncBenchmark` | symmetry and constants for TLC |
| `*_proofs` | theorems |

**PriorityScheduler.** `parse_pc` and `disp_pc` are the program points between channel
operations. `Receive` is the head of the parse loop with a parsed packet in hand (a
timeout or a malformed event changes nothing here), `Enqueue`, `LogOverflow`,
`EvictOldest` and `Retry` are the lines from the first `enqueue` to the second;
`DispatchLoop`, `TryRecvHigh`, `TryRecvLow` and `Forward` are `dequeue_next` in its loop.
The async and the threaded pipeline take the same steps. A `try_lock` that fails is a
choice. Of a drift sample only its existence is kept. The overflow log and the drift samples
are `SharedMetrics`', one object for both pipelines (`main.rs:65, 88, 110`): `OtherPipeline`
pushes what the other one does, overflows with totals of its own, at any time, so the totals
in the log are in no order. `stop` is set at any time. Packets
are identities; one that has left the scheduler may be offered again, so a few stand for
an endless stream. `bypass` is a history variable: bots taken past a waiting packet.

**PacketAccounting.** Adds what a packet's fate is: taken or refused by the out channel,
evicted, or rejected by the second enqueue. Each packet arrives once. `Overcount` is how far the
overflow counter is ahead of the evictions.

**FailSafe.** One `pc` per hot-path thread. `LoadMode` is the load everything else in
`record_latency` relies on; `AddDegraded`/`AddClean` are the `fetch_add`s with the
comparison of the value they return, `ClearDegraded`/`ClearClean` the stores, `Swap` and
`Publish` are `transition_to`. Latencies are numbers in `Latencies`; only the comparisons with the two
thresholds matter (the controller acts on `>` and `<`, so there are three ranges).
`entries` records the entries into DEGRADED. `CalmDown` marks the end of the load's spikes,
for the liveness property. `allow_bot_packet` and `recovery_tick` have no
caller in the program and are left out.

**FailSafeCalls.** With the two threads of `main.rs` calls of `record_latency` may overlap, and then
they lose resets and take transitions the machine does not have (finding 1). The promise is for the
others. `disturbed` is set when a second call starts while one runs, and cleared when none runs and
what they left behind is no count for an episode still to come (`Quiet`): `degraded_clean` is 0 or the
mode is DEGRADED. Outside of that, `FailSafeFSM` has a packet arrive with its latency and be judged
exactly once, and the judgement is a function of state, streak and latency: a packet that is not
clean must start the streak over, a clean one must count, a full streak must lead on. A call that
left the counters alone where a reset is due would not be a step of it. Each packet may come from
either thread, so a streak may be spread over both.

**HotPath.** `hp` is the point in `process` (`check`, `stress`, `measure`), `pc` the one in
`record_latency`; a thread is in one of them. `Take` receives a packet of either class,
`CheckMode` is the early return for bots, `Stress` counts and decides on the busy-spin,
`Measure` takes the latency, counts a deadline miss (if the metrics are free) and calls
`record_latency`, whose steps are `Record`. `phase` is the part of the run: before 15 s, the
stress window, after 25 s, stopped; it moves at any time. Each worker has its own
`stress_counter`, as each `HotPathProcessor` does. The counter is kept modulo
`InjectEvery`, which is all the code asks of it. `late` is a history variable.

**Watchdog.** A timestamp is represented by its *age*, so time passes in one action
(`Tick`) that ages everything, clock readings held by a delayed thread included. A writer
reads the clock (`ReadClock`) and stores what it read (`Store`), at most `MaxDelay` later,
so stores come late and out of order. `WdLoad`, `WdClock`, `WdReport`, `WdFlag`,
`WdRearm` are the shared accesses of the polling loop in their order; `TakeFlag` is the
client's `swap(false)`. Readings are allowed after `stop` is set, since every writer looks at
`stop` before it waits for its event; the model does not limit their number, the code does.
`heard`, `longest` and `since_reset` are history: the age of the latest reading, the longest silence so
far in this round of polling (it starts afresh in `WdLoop`), the age of the latest reset.

**SseClient.** `conn` is the point in `run_sse_client_with_reconnect`. The network and
reqwest are external: a request is answered, refused or times out, a stream delivers, fails
or ends, or is silent until `RequestTimeout` (the client's 30 s `timeout`, which covers
the body). Bytes are abstracted: a chunk completes some events or none.
`SseFraming` has the bytes.

**SseFraming.** The stream is a sequence of symbols: newline, the prefix `data:`, a text that
is no object, and one symbol per JSON object, a record of what the parsers tell apart. The
server is external and sends whole blocks: `stream` is all it has sent, `ends` the positions at
which a block ends, `carriers` the events with the ends of their blocks. The client knows
only the first `received` symbols of it; `Chunk` cuts anywhere, `SplitBlock` is one round
of the loop over `find_double_newline`, `Reconnect` is a new connection with a new buffer,
from any point of the stream. The parsers are operators; serde's derive is external
(`FromSlice`): a string that cannot be borrowed is an error, so is `null` for the `bool`.

**Pipelines.** Here packets are numbers: `made` and `evicted`
are history, `events` and `overflows` the parser's counters. The two priority queues
are one of `QueueDepth` (the order of two queues is `PriorityScheduler`'s subject, what is
left in them at the end is this one's). `Offer` is the source's `try_send`; a full channel,
or one whose receiver is gone (`RawFits`), loses the event silently. `Relay` is the thread of
`adapt_to_sync_sender`. `JoinThreads` waits for the parser, in the threaded pipeline
for the dispatcher too; `Report` writes the statistics if it gets the metrics.
`MainLocks`/`MainUnlocks` are the three critical sections of `main` after `stop`; on
`exit` all threads are gone, wherever they were. `stop` may be read late by one or more rounds
(`Relaxed`), and sleeps take any time.

**Leaderboard.** `strategy` is chosen at the start. An increment is `Call`,
`LockForWriting`, `LoadEntry`, `StoreEntry`, `TryMetrics`, `BumpOps`, `Unlock`; under
`Atomic` it is `StoreEntry` (the `fetch_add`) and the two steps on the metrics. A query copies
entry by entry (`CopyEntry`) under its lock, or loads counter by counter without one, then
sorts and truncates (`Top`); `seen` is how far its iterator has come, in an order of the map's own. An
entry of 0 is one the map does not have. `OthersUseMetrics` is the rest of the
program as a user of the metrics; `busy` says whether there is one. `edits`, `all_edits` and
`before` are history variables. `Phase` and `AnswerOf` map a reader to `AtomicLeaderboard`:
it has its answer when the lock goes, sorted already, for the sort touches nothing shared.

**SyncBenchmark.** `role` is "leaderboard" (the program's use of D) or "benchmark": the
same steps on one key and without metrics (`SkipOps`), a latency from `Latency` after each, and joins in
the order of the handles. The percentile index is rounded in `f64`; for the percentiles asked
for (50, 90, 99) and every window up to 10,000 it equals the integer expression of
`LatencySamples`, as does the benchmark's own index up to 100,000 operations. (Compared by
enumeration; floating point itself is not modelled.)

## 3. Runs

| Run | Question | Result |
|---|---|---|
| `scheduler` | Is the retry after an eviction safe, is overtaking bounded, do the threads implement the abstract queue; is a waiting human served under any flood of bots; do both loops end? | yes |
| `packet_accounting` | Where does every packet go? | none is lost unreported or doubled; FIFO per class; the oldest goes; the counter is never behind the evictions, and each overflow without one has seen a whole queue dispatched |
| `failsafe_shared` | Two threads on one controller: are full counts cleared, activations and degradations real, are calls that do not overlap the three-state machine, does it recover? | yes |
| `failsafe_transitions` | And are the documented transitions the only ones, with the two threads of `main.rs`? | **no** (finding 1) |
| `hot_path` | Two threads: are bots shed at once, misses not overcounted, does the system recover with bots skipped? | yes, if human packets keep coming |
| `watchdog` | With clock readings stored late and out of order: do resets come in time, only after a silence of this round of polling, and spaced? | yes |
| `sse_client` | The composed system: does one reset cost at most one connection, with every network failure; does the raw channel keep its bound? | yes |
| `live_silence` | Is a silent live stream reset? | **no** (finding 2) |
| `sse_framing` | Do the events of complete blocks come out whatever the chunks and wherever the stream breaks; is the buffer bounded; do the parsers agree? | yes, but for events without a `server_name` |
| `escaped_events` | Does an escape sequence cost an allocation only? | **no**, the event (finding 3) |
| `pipelines` | Are the statistics final or missing, do all threads end when one pipeline does? | yes |
| `sync_benchmark` | D under each strategy: no edit lost, increments and locked queries as if in one step, honest operation counts; the benchmark: every operation counted, percentiles of the right rank? | yes |

"Refused" packets: `out_tx.try_send` discards a packet when the out channel is full, in
both dispatch loops. `Conservation` lists that place of loss explicitly; it is the only
one between parser and hot path that leaves neither a log entry nor a count.

**Bounds.** `QueueDepth = 2` is the least at which the oldest, the newest and an order
exist. `scheduler` has three bots, which fill their queue and keep one in the parser's hand,
so that the low queue overflows; `packet_accounting` has four humans for the high queue. In
`scheduler` a packet that has left comes back, so the streams are endless, and
`MaxOverflows = 1` saturates the overflow count; in `packet_accounting` the bound of 3 exceeds
the two overflows that four packets allow, and `LogCap` is smaller, so that the log wraps. `DriftWindow` is 0
or 1 because no property reads it. `FailSafe` uses windows of 2 in place of 25 and 60
and latencies below, between and above the thresholds; 3 spikes suffice to degrade, to fall
back from RECOVERY and to do so again. Two threads are what `main.rs` starts. `hot_path` has
one spike and latencies 0 and 3, because a second spike multiplies the states without a
new order of checks and swaps. `watchdog` has two writers and `Timeout = 4`, `PollPeriod = 2`, `MaxDelay = 1`
(474,089 states): a delay shorter than the sleep, as delays of milliseconds are to one second, so that
stale loads and late stores are there. `sse_client` has `Timeout = 2`, `PollPeriod = 1`, `MaxDelay = 0`
(1.6 million states), for its own properties do not speak of time; what `watchdog` shows
holds of it by `DrivesWatchdog`, and the bounds are proved for every value of the three. `AgeCap` lies beyond every age a
property or guard compares with.
`pipelines` has channels and queues of one place, the async source one event and the
threaded one two (319,804 states), so that the threaded channels and its queue overflow and
the async one's do not. `sse_framing` has three blocks per connection, enough for a whole block, the one
that is cut and the one behind it, of every kind, and one event of each kind
the parsers tell apart. `sync_benchmark` has two writers with two increments each, a query
and three domains, one of them unknown (2.8 million states): two writers are
what `main.rs` has, and a query can lie between any two steps of both.

**Fairness.** `WF_vars(Parser)` and `WF_vars(Dispatcher)`: each loop is an OS thread, or a
task on Tokio's multi-threaded runtime, and no step of either blocks for ever. For the async
dispatcher, which yields only when both queues are empty, this needs a runtime with more
than one worker. `WF_vars(Worker(w))` for the controller: the thread runs, and packets
that are not skipped keep coming. `HotPath` makes the second part explicit: the threads run
(`WF` of `HWorker(w)`), and whenever a thread keeps asking it is handed a human packet again
and again (`SF` of `Take(w, "High")`), which is an assumption about Wikipedia, not the code.
Without it DEGRADED is never left: `process` returns for a bot before `record_latency`. In `Pipelines` the fairness is one `WF`: while any thread of a
pipeline can go on and `main` has not returned, one does. The sources are finite there and a
loop that has seen `stop` ends, so no thread can keep the others waiting for ever. The
watchdog's properties are bounded-time safety, under the assumption that no thread is
delayed by more than `MaxDelay` between the two ends of a critical pair; `NoFalseAlarm` also
needs `MaxDelay < PollPeriod`, for a writer held up through a whole round could put an old reading over
any number of newer ones.

**Memory model.** The program's atomics are `Relaxed`. The models interleave them. For a single
variable this is exact; between variables (`mode` and the two counts) a weaker order could
show more behaviours than are checked here.

## 4. Findings

1. `failsafe_transitions`: with the shared controller of `main.rs` the mode also goes, for example, from
   NORMAL to RECOVERY, which is none of the transitions at `types.rs:175`: `record_latency` acts on a
   mode loaded earlier.
2. `live_silence`: both pipelines store the same heartbeat, and the threaded one always runs a mock, so
   "triggers a 'Network Reset' if no data is received for 10 seconds" (`component_e/watchdog.rs:4`)
   fails for the live stream. Without the threaded heartbeat the property holds.
3. `escaped_events`: the fields of `WikiChange` are `Option<&str>` (`types.rs:24`), so a string with an
   escape sequence does not make serde "allocate" (`types.rs:18`), it makes the whole event an
   error, and the parsers skip it, uncounted.

Also seen, without a run of their own:
- a bot can be taken past a waiting human, contrary to "always drains the High-priority
  (human) channel completely before taking items from the Low-priority (bot) channel"
  (`component_c/priority_scheduler.rs:10`): at most one per human (`BoundedBypass`, proved);
- which packet an overflow costs. `async_pipeline.rs:10-12`, `metrics.rs:87` and `README.md:118` say
  the oldest, `REPORT.md:130-132, 661` and `673` the incoming one ("drop-newest"). In the priority queues
  the code drops the oldest (`DropsOldest`, proved), and the report does not describe it;
- at the raw channel the code drops the newest, silently (`sse_client.rs:111`, `mock_stream.rs:77`),
  although `async_pipeline.rs:10-12` ("when the ingestion channel is full, the OLDEST packet is evicted") and
  `types.rs:111-112` name that channel for the eviction and the log. Nothing in the program counts this loss, nor
  that of packets the out channel refuses or that are still queued at the end;
- the overflow counts, "Overflow events (oldest-drop)" (`metrics.rs:87`), include overflows
  that dropped nothing because the dispatcher emptied the queue in between (how many is bounded,
  `LossIsCounted`); an `OverflowEvent` names the domain of the packet that did not fit
  (`async_pipeline.rs:203`), not of the one dropped; and its `total_drops`, "in total (running count)"
  (`types.rs:121`), is a pipeline's own count in a log both share, so the column of
  `logs/overflow_events.csv` neither ascends nor says whose it is;
- the fail-safe's windows: `fail_safe.rs:14` and `REPORT.md:380-393` have one count of 20 clean cycles,
  and RECOVERY as soon as the jitter falls below 500, as at `types.rs:177`; the code
  counts 25 packets to leave DEGRADED (`fail_safe.rs:89`) and 60 to leave RECOVERY (`types.rs:204`);
- stress: "3 ms spike every 8 packets (..., keeps system in DEGRADED)" (`types.rs:150`); the code
  spins on every 20th packet of each processor, and the two share one count of 25 clean packets,
  so the mode may leave DEGRADED within the window: `REPORT.md:577` expects "DEGRADED ↔ RECOVERY
  cycling" and its output (586-589) shows it. No run claims the comment;
- `top_n` under the Atomic strategy loads its counters one by one: "a snapshot" (`leaderboard.rs:105`) of no single
  moment. `KeepsPromise` promises no more than each count by itself there;
- the heartbeat is stamped by the parsers and by `sse_client` before the raw channel (`sse_client.rs:107`), "from the parser stage, not the
  ingestion stage" in `REPORT.md:665`, so a frozen parser is not seen on the live stream;
- a `reconnect_flag` that outlives its connection breaks the next, healthy one (`BreaksAreCaused` allows one
  per reset);
- the summary shows 0 events for a pipeline whose `try_lock` failed, or that was not yet over;
- an event without `server_name` is counted under "unknown" by the pipelines and rejected
  by `parse_zero_copy` (`ParsersAgree`);
- `timeout(30 s)` of reqwest ends a healthy live stream every 30 s; a broken stream is not
  reconnected "immediately" but after 2 s (`sse_client.rs:30`);
- drift is recorded twice per packet (`dequeue_next` and `process`); RECOVERY's reduced bot
  rate (`types.rs:185`) is `allow_bot_packet`, which nothing calls.

## 5. Proofs

From the assumptions named in the modules (disjoint classes, `QueueDepth >= 1`, thresholds
and windows in `Nat`, `Workers` finite, `MaxDelay <= Timeout`) and nothing else:

| Theorem | Says | By |
|---|---|---|
| `PriorityScheduler_proofs!TypeCorrect` | types; queues within `QueueDepth`, log within its cap | inductive as it stands |
| `RetryNeverFails` | the ignored second `enqueue` succeeds | `SafeInv`: after the eviction only the parser adds to the queues |
| `BypassIsBounded` | a human is overtaken at most once | `BypassInv`: `SafeInv`, and while the dispatcher is about to look at the low queue no human that waits has been overtaken |
| `Implements` | `PriorityScheduler` implements `LossyPriorityQueue` | `RefInv` makes `passed` determine who may be overtaken; one step-simulation lemma per thread |
| `FailSafe_proofs!TypeCorrect` | types, for any set of threads | inductive |
| `CountIsCleared` | a full `degraded_clean` has threads about to clear it | `CountInv` with the cardinality of the clearing threads |
| `ActivationsAreReal` | activations never exceed entries into DEGRADED | `ActInv`: each pending publication has its entry |
| `DegradesForACause` | entries into DEGRADED never exceed the spikes | `SpikeInv`: each thread that holds a spike, or is on its way to swap, has one not yet spent |
| `CallsImplementMachine` | for any number of threads, calls that do not overlap implement `FailSafeFSM` | `CallsInv`: while one call runs undisturbed, where it is determines the mode it loaded and the counts; one lemma for a call's steps (`CallStep`), one for calls that start, end or overlap (`CallsStep`) |
| `HotPath_proofs!DrivesController` | `HSpec => Spec`: what holds of `FailSafe` holds of `HotPath` | every step of the hot path is one of the controller or none |
| `HTypeCorrect` | types; deadline misses never exceed the spikes | inductive |
| `BotsShed` | at most one bot per thread and episode | `ShedInv`: a thread working on a bot in DEGRADED has not finished one in the episode |
| `SseClient_proofs!TypeCorrect` | types, for any writers and times | `TypeInv` |
| `ResetsAreInTime` | no silence beyond timeout, poll and two delays | `SilenceInv`: where in its round the poller is bounds the heartbeat's age |
| `ResetsAreSpaced` | two resets are more than `Timeout - MaxDelay` apart | `SpacingInv` |
| `AlarmsAreReal` | a reset follows a real silence in its own round of polling, if delays are shorter than the sleep | `AlarmInv` with `Covered` |
| `STypeCorrect` | types of the composed system | `SInv`: the watchdog's `TypeInv` and the client's types |
| `DrivesWatchdog` | `SSpec => Spec`: what holds of `Watchdog` holds of the composed system | every step of it is one of `Watchdog` or none |
| `BreaksHaveACause` | breaks <= resets | `BreakInv`: a raised flag is a reset not yet spent |
| `PacketAccounting_proofs!NothingVanishes` | every packet is in exactly one place (`Conservation`) | `AccInv`, below |
| `ClassesStayInOrder` | FIFO per class (`FifoPerClass`) | `AccInv` |
| `OldestGoFirst` | what was evicted is older than what waits (`DropsOldest`) | `AccInv` |
| `LossesAreCounted` | the counter is never behind the evictions, and each overflow without one has a whole queue dispatched, as long as the model's overflow count is below `MaxOverflows` (`LossIsCounted`) | `LossInv`: `AccInv`, and `Balance`, below |
| `Pipelines_proofs!PTypeCorrect` | types | `PInv`, below |
| `StatisticsFinal` | statistics are final or missing (`StatisticsAreFinal`) | `PInv` |
| `Leaderboard_proofs!BenchTypes` | types; a writer's lock excludes every reader's | `BInv`, below |
| `EveryEditCounts` | no edit of a counted domain is lost (`NoEditLost`) | `BInv` |
| `OpsAreEdits` | `write_ops` never runs ahead of the edits (`OpsFollowEdits`) | `BInv` |
| `LeaderboardKeepsPromise` | `Leaderboard` implements `AtomicLeaderboard` (`KeepsPromise`) | `BInv` and `Copying`; one step-simulation lemma for writers, one for readers |
| `BenchIsComplete` | after the joins every operation is counted and timed (`BenchCountsEveryOp`) | `BInv`: the increments done are a set of pairs of writer and number |
| `RanksAreRight` | percentiles have their rank, in windows of any size (`PercentileHasRank`) | that the rank of an index in a stable sort is a permutation |
| `SseFraming_proofs!FramingTypes` | types | `FInv`, below |
| `BlocksAreDelivered` | the events of complete blocks come out, and no others (`DeliversCompleteBlocks`) | `FInv` |
| `BufferStaysShort` | the buffer never holds more than a part of one block when the client reads (`BufferIsPartOfBlock`) | `FInv` |
| `AllParsersAgree` | the three parsers agree on every object (`ParsersAgree`) | by cases, for any set of events |

*AccInv.* `Conservation` alone is not inductive: that a packet leaves for one place only needs
that it was in one before (`OnePlace`, for packets yet to arrive too), and that the retry finds
room (`SafeInv`). The two order properties need one another: what is dispatched is older than what
waits because queues are sorted by age (`QueuesByAge`) and the parser's packet is the
youngest of all (`Youngest`); the order of `sent` needs the dispatcher's packet in between
(`SentByAge`). Each move from one place to another (arrive, accept, take, evict, forward) is a lemma; each
action is one of the moves or none.

*Balance.* `LossIsCounted` is not inductive: the places the dispatcher frees between a failed `enqueue` and the
eviction must be paid before the eviction finds the queue empty. `Freed` is how many there are in the parser's
queue, and `Overcount * QueueDepth + Freed` never exceeds the packets dispatched: a packet taken raises both sides,
an eviction that finds nothing turns `QueueDepth` free places into one overcounted overflow.

*PInv.* What is in the channels and parsed has been offered (`Offered`), evictions against counted overflows
against events (`OverflowsBounded`), and what a runner that has waited knows (`Waited`). One lemma per thread; threads of
different pipelines touch each other only through `stop`, the metrics and `main`.

*BInv.* For the leaderboard (`LInv`): a thread between lock and unlock is the owner or one of those that
share (`Locks`), so what a writer loaded is still there when it stores (`Loaded`), and the counts
stand still under a query (`HeldStill`). The try_locks of the writers are serialised by the map's
lock (`Metrics`), hence `OpsFollowEdits`, with the cardinality of the threads between count and bump.
`Reads` says what a query has at each of its steps: no entry is older than the query, and a domain it has
passed is collected or had no edits when it began. `Copying` adds what the refinement needs: domains are
collected once, with a count above 0, and under a lock those passed over still have none. For the
benchmark (`BenchInv`): the edits of the key are as many as the increments done, each
thread has a latency for each that is timed, and threads that are joined have exited. The statistics and
`top_n` share the lemmas on sorting: the rank of an index, the number of indices not behind it in a stable
order, is a permutation of the indices, and keys ascend with it.

*FInv.* `DeliversCompleteBlocks` compares two ends of the connection, so it needs what lies between.
`StreamInv` is about the server: two newlines in a row are the end of a block, from every end the next is at
most a longest block away, and an object is in the data line of a block that carries it and nothing else.
`ClientInv` is about the client: what it has cut off ends where a block does, the buffer is the received
rest of the stream, and the events delivered are those of the blocks cut off. A round of the loop then cuts one
block, whatever chunks it came in, and stops when no end is in the buffer, which is therefore short.

Only model-checked: the liveness properties (`HumanServed`, `Shutdown`, `Recovers`,
`HRecovers`, `StopEndsAll`), which are out of the prover's reach. Every other property of the
passing runs has a theorem. The runs that end in a violation have none.

## 6. What is left

1. The refinements stop at the components: the pipelines as one system (`Pipelines` counts packets that
   `PriorityScheduler` orders) are related by their common steps only, not by a refinement mapping.
2. `HotPath` and `Leaderboard` share the metrics' `try_lock` in the program; each has it as a choice of
   its own.

## 7. Not modelled

- Files that no `mod.rs` includes: `component_a/{sensor, processor, sync_manager,
  transmitter}.rs`, `component_b/{actuator, controller, receiver}.rs`, `advanced/`.
- The allocation counter and `bin/alloc_proof.rs` (one counter, a measurement), the comparison binaries
  and the benches, which run the pipelines one after the other and print.
- `main.rs` beyond its wiring, its waits and its locks: formatting, log files, and the demo
  markers, which are sleeps and prints.
- The values of drift and latency samples on their way into the windows, means and deviations, and the log of
  deadline misses: no step of the program reads them, only the summary prints them.
- `allow_bot_packet`, `recovery_tick` and `top_domains`, which have no caller.
- The generated contents of the mock stream.
