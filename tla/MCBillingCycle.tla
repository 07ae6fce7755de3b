--------------------------- MODULE MCBillingCycle ---------------------------
(***************************************************************************)
(* Instances of BillingCycle for TLC.                                      *)
(***************************************************************************)
EXTENDS BillingCycle, TLC

CONSTANTS s1, s2, s3, w1, w2, r1

MCSymmetry == Permutations(Runs) \cup Permutations(Subs)
=============================================================================
