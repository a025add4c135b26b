-------------------------- MODULE MCSyncBenchmark --------------------------
(* TLC instance of SyncBenchmark: two known domains, two writers. *)
EXTENDS SyncBenchmark

CONSTANTS en, de, w1, w2

KnownTwo == <<en, de>>
Spawned  == <<w1, w2>>
=============================================================================
