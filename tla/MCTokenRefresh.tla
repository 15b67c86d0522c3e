--------------------------- MODULE MCTokenRefresh ---------------------------
(***************************************************************************)
(* TLC instances of TokenRefresh.                                          *)
(***************************************************************************)
EXTENDS TokenRefresh, TLC

Symmetry == Permutations(Callers) \union Permutations(Regs)
=============================================================================
