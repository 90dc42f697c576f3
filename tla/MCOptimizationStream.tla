------------------------ MODULE MCOptimizationStream ------------------------
(* Instances of OptimizationStream for TLC. *)
EXTENDS OptimizationStream
=============================================================================
