------------------------- MODULE MCPipelineEffects -------------------------
(* Instances of PipelineEffects for TLC. *)
EXTENDS PipelineEffects, TLC

Symmetry == Permutations(Worker)
=============================================================================
