-------------------------- MODULE MCPipelineQueue --------------------------
(* Model-checking instances of PipelineQueue: workers, handlers and helper *)
(* goroutines are interchangeable; tasks are ordered by their age.         *)
EXTENDS PipelineQueue, TLC

Symmetry == Permutations(Worker) \cup Permutations(Caller) \cup Permutations(Helper)
=============================================================================
