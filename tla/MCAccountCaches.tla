-------------------------- MODULE MCAccountCaches ---------------------------
(***************************************************************************)
(* AccountCaches for TLC: nothing tells one caller from another.           *)
(***************************************************************************)
EXTENDS AccountCaches, TLC

Symmetry == Permutations(Callers)
=============================================================================
