------------------------------ MODULE MCOrders ------------------------------
(***************************************************************************)
(* Instances of Orders for TLC.  The initial states cover a customer who   *)
(* sends one request at a time and one who sends two.                      *)
(***************************************************************************)
EXTENDS Orders, TLC

CONSTANTS o1, b1, b2, s1

MCSymmetry == Permutations(Browsers)
=============================================================================
