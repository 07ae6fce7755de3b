---------------------------- MODULE MCSettlement ----------------------------
(***************************************************************************)
(* Instances of Settlement for TLC.                                        *)
(***************************************************************************)
EXTENDS Settlement, TLC

CONSTANTS i1, i2, c1, p1, p2, p3, w1, w2

\* Every invoice is worth two units, so that a refund can be partial.
MCOwner == [i \in Invoices |-> c1]
MCTotal == [i \in Invoices |-> 2]

\* p1 is the gateway payment of an invoice paid before checkout was retired.
MCLegacyInvoice == [p \in Legacy |-> i1]
MCLegacyProvider == [p \in Legacy |-> "online"]

MCSymmetry == Permutations(Payments \ Legacy) \cup Permutations(Procs)
=============================================================================
