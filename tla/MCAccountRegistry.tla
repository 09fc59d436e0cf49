-------------------------- MODULE MCAccountRegistry --------------------------
(* A small instance of AccountRegistry for TLC. *)
EXTENDS AccountRegistry, TLC

\* Account ids are drawn at random and compared for equality only.
AccountSymmetry == Permutations(Accounts)
=============================================================================
