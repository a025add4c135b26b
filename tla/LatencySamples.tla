-------------------------- MODULE LatencySamples --------------------------
(***************************************************************************)
(* The statistics of metrics.rs and sync_benchmark.rs, on sequences of     *)
(* integers.  LatencySamples rounds a rank in f64 (half away from zero);   *)
(* for the three percentiles the program asks for and any window of up to  *)
(* WINDOW samples that is what the integer expression below gives.         *)
(***************************************************************************)
EXTENDS Integers, Sequences, FiniteSets

\* The value with index k (from 0) once the samples are sorted: fewer than
\* k + 1 samples are smaller and at least k + 1 are not greater.
NthSmallest(samples, k) ==
  CHOOSE v \in {samples[i] : i \in 1..Len(samples)} :
    /\ Cardinality({i \in 1..Len(samples) : samples[i] < v}) <= k
    /\ Cardinality({i \in 1..Len(samples) : samples[i] <= v}) > k

\* Faulty variant of PercentileIndex: truncated, not rounded.
Faulty_Truncated(p, n) == (p * (n - 1)) \div 100

\* ((p / 100) * (len - 1)).round(), at most len - 1.
PercentileIndex(p, n) ==
  LET k == (2 * p * (n - 1) + 100) \div 200 IN IF k < n - 1 THEN k ELSE n - 1

\* percentile(p), of no sample 0.
Percentile(samples, p) ==
  IF samples = <<>> THEN 0
                    ELSE NthSmallest(samples, PercentileIndex(p, Len(samples)))

\* Faulty variant of BenchIndex: one too far.
Faulty_OnePast(n) == (99 * n + 99) \div 100

\* The benchmarks' own p99: get((len * 0.99) as usize), or 0.
BenchIndex(n) == (99 * n) \div 100
BenchP99(samples) ==
  IF BenchIndex(Len(samples)) < Len(samples)
    THEN NthSmallest(samples, BenchIndex(Len(samples))) ELSE 0
=============================================================================
