----------------------------- MODULE MCSetupFlow -----------------------------
(***************************************************************************)
(* SetupFlow for TLC. Accounts are only told apart, so they may be permuted.*)
(***************************************************************************)
EXTENDS SetupFlow, TLC

AccountSymmetry == Permutations(Accounts)
==============================================================================
