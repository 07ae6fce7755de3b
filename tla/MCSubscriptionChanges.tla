------------------------ MODULE MCSubscriptionChanges ------------------------
(***************************************************************************)
(* Instances of SubscriptionChanges for TLC.                               *)
(***************************************************************************)
EXTENDS SubscriptionChanges, TLC

CONSTANTS r1, r2, q1, q2

MCOffers == {{[type |-> "PLAN", to |-> "fast"], [type |-> "ADDON_ADDED", to |-> "tv"]},
             {[type |-> "CANCELLED"]}}

MCSymmetry == Permutations(Requests) \cup Permutations(Asks)
=============================================================================
