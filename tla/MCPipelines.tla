---------------------------- MODULE MCPipelines ----------------------------
(* TLC instance of Pipelines: one pipeline overflows, the other does not. *)
EXTENDS Pipelines

EventLimit == [async |-> 1, threaded |-> 2]
=============================================================================
