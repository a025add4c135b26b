--------------------------- MODULE SyncBenchmark ---------------------------
(***************************************************************************)
(* The strategies of the leaderboard timed under contention: the threads   *)
(* of benchmark_mutex, benchmark_rwlock and benchmark_atomic make the same *)
(* increments on one key, without the metrics, and keep the latency of     *)
(* each; the results are joined thread by thread and summarised.           *)
(*                                                                         *)
(* A process runs either the leaderboard or a benchmark on it.             *)
(***************************************************************************)
EXTENDS Leaderboard, LatencySamples

CONSTANTS
  Latency,     \* what an increment may take
  JoinOrder    \* the threads in the order they were spawned

ASSUME BenchAssumption ==
  /\ Latency \subseteq Nat
  /\ JoinOrder \in [1..Cardinality(Writers) -> Writers]
  /\ \A i, j \in DOMAIN JoinOrder : JoinOrder[i] = JoinOrder[j] => i = j

VARIABLES
  role,       \* "leaderboard" or "benchmark"
  lats,       \* per thread: the latencies it measured
  joined,     \* number of threads joined
  latencies   \* what the joins have returned

bench_vars == <<lats, joined, latencies>>
bvars == <<lvars, role, bench_vars>>

key == KnownDomain[1]
Total == Cardinality(Writers) * MaxCalls

BTypeOK ==
  /\ LTypeOK
  /\ role \in {"leaderboard", "benchmark"}
  /\ lats \in [Writers -> Seq(Latency)]
  /\ joined \in 0..Cardinality(Writers)
  /\ latencies \in Seq(Latency)
  /\ role = "benchmark" => write_ops = 0 /\ sharing = {}

BInit ==
  /\ LInit
  /\ role \in {"leaderboard", "benchmark"}
  /\ role = "benchmark" => busy   \* there are no metrics to be had
  /\ lats = [w \in Writers |-> <<>>] /\ joined = 0 /\ latencies = <<>>

\* There are no metrics here.
SkipOps(w) ==
  /\ w_pc[w] = "ops" /\ Goto(w, AfterOps)
  /\ UNCHANGED <<strategy, busy, map_vars, met_vars, w_domain, w_old, calls, r_vars,
                 e_vars>>

\* The statement is over, the lock given back: the time it took is kept.
Finish(w) ==
  /\ IF strategy = "Atomic" THEN SkipOps(w) ELSE Unlock(w)
  /\ \E t \in Latency : lats' = [lats EXCEPT ![w] = Append(@, t)]

\* One step of a thread's loop of ops_each increments.
BenchStep(w) ==
  /\ \/ /\ \/ Call(w) /\ w_domain'[w] = key
           \/ LockForWriting(w) \/ LoadEntry(w) \/ StoreEntry(w)
           \/ strategy # "Atomic" /\ SkipOps(w)
        /\ UNCHANGED lats
     \/ Finish(w)
  /\ UNCHANGED <<role, joined, latencies>>

Exited(w) == w_pc[w] = "idle" /\ calls[w] = MaxCalls

\* Faulty variant of Join: the handle is not waited for.
Faulty_JoinEarly ==
  /\ joined < Cardinality(Writers)
  /\ latencies' = latencies \o lats[JoinOrder[joined + 1]]
  /\ joined' = joined + 1
  /\ UNCHANGED <<lvars, role, lats>>

\* h.join() for the next handle.
Join ==
  /\ joined < Cardinality(Writers) /\ Exited(JoinOrder[joined + 1])
  /\ latencies' = latencies \o lats[JoinOrder[joined + 1]]
  /\ joined' = joined + 1
  /\ UNCHANGED <<lvars, role, lats>>

BDone == joined = Cardinality(Writers) /\ UNCHANGED bvars

BNext ==
  \/ role = "leaderboard" /\ LNext /\ UNCHANGED <<role, bench_vars>>
  \/ /\ role = "benchmark"
     /\ (\E w \in Writers : BenchStep(w)) \/ Join \/ BDone

BSpec == BInit /\ [][BNext]_bvars

---------------------------------------------------------------------------
(* Properties.                                                             *)

\* ops_per_sec and the mean divide by what was really done: when all threads
\* are joined, the counter has every increment and there is one latency each.
BenchCountsEveryOp ==
  role = "benchmark" /\ joined = Cardinality(Writers) =>
    /\ Len(latencies) = Total
    /\ counts[key] = Total

\* The p-th percentile is a sample of the right rank: about p percent of the
\* others are smaller, to within half a sample on either side, for windows of
\* every size from the first sample on. The benchmarks' own p99 is that sample or
\* the next one, never past the end, where it would be 0.
PercentileHasRank ==
  latencies # <<>> =>
    LET n == Len(latencies) IN
    /\ \A p \in {50, 90, 99} :
         LET v == Percentile(latencies, p)
         IN  /\ 100 * Cardinality({i \in 1..n : latencies[i] < v}) <= p * (n - 1) + 50
             /\ 100 * Cardinality({i \in 1..n : latencies[i] <= v}) > p * (n - 1) + 50
    /\ BenchIndex(n) - PercentileIndex(99, n) \in {0, 1}
    /\ BenchP99(latencies) >= Percentile(latencies, 99)
=============================================================================
