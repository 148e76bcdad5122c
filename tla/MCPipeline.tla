----------------------------- MODULE MCPipeline -----------------------------
(* Instances of Pipeline for TLC. *)
EXTENDS Pipeline, TLC

Perms == Permutations(Calls) \cup Permutations(Conns)
=============================================================================
