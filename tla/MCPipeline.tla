---------------------------- MODULE MCPipeline -----------------------------
(* Instances of Pipeline for TLC.                                           *)
EXTENDS Pipeline

\* Contexts are interchangeable.
Symmetry == Permutations(Contexts)
=============================================================================
