------------------------------ MODULE MCSignIn ------------------------------
(***************************************************************************)
(* SignIn for TLC.                                                         *)
(***************************************************************************)
EXTENDS SignIn, TLC

Symmetry == Permutations(Ids) \union Permutations(Users)
                \union Permutations(States) \union Permutations(Requests)
=============================================================================
