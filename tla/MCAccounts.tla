----------------------------- MODULE MCAccounts -----------------------------
(***************************************************************************)
(* Instances of Accounts for TLC.                                          *)
(***************************************************************************)
EXTENDS Accounts, TLC

CONSTANTS r1, r2

MCSymmetry == Permutations(Requests)
=============================================================================
