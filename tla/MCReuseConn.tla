---------------------------- MODULE MCReuseConn ----------------------------
(* Instances of ReuseConn for TLC. *)
EXTENDS ReuseConn, TLC

Perms == Permutations(Queries) \cup Permutations(Conns)
=============================================================================
