--------------------------- MODULE MCStoreCallers ---------------------------
(***************************************************************************)
(* TLC instances of StoreCallers.                                          *)
(***************************************************************************)
EXTENDS StoreCallers, TLC

Symmetry == Permutations(Ids) \union Permutations(Regs) \union Permutations(Arns)
=============================================================================
