------------------------ MODULE MCPipelineTypecheck ------------------------
(* Two files, in one stratum or in two. *)
EXTENDS PipelineTypecheck, TLC

CONSTANTS w1, w2

OneStratum == [f \in Files |-> 0]
TwoStrata == [f \in Files |-> IF f = 1 THEN 0 ELSE 1]

WorkerSymmetry == Permutations({w1, w2})
=============================================================================
