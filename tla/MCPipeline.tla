----------------------------- MODULE MCPipeline -----------------------------
(* Instances of Pipeline for TLC.                                          *)
EXTENDS PipelineInvariant, PipelineRefinement, TLC

CONSTANTS r1, r2, t1

(* A client that reuses an id: every request carries the same one.         *)
SameId == [r \in Requests |-> t1]

Symmetric == Permutations(Requests)
=============================================================================
