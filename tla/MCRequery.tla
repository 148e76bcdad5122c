----------------------------- MODULE MCRequery -----------------------------
(* Instances of Requery for TLC. *)
EXTENDS Requery, TLC

Perms == Permutations(Tasks) \cup Permutations(Domains)
=============================================================================
