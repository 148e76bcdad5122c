------------------------- MODULE MCTraditionalConn -------------------------
(* Instances of TraditionalConn for TLC. *)
EXTENDS TraditionalConn, TLC

Perms == Permutations(Calls)
=============================================================================
