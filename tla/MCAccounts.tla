----------------------------- MODULE MCAccounts -----------------------------
(* Two names, interchangeable.                                             *)
EXTENDS Accounts, TLC

Symmetry == Permutations(Names)

=============================================================================
