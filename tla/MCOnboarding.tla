---------------------------- MODULE MCOnboarding ----------------------------
(***************************************************************************)
(* Instances of Onboarding for TLC.                                        *)
(***************************************************************************)
EXTENDS Onboarding, TLC

CONSTANTS r1, r2, a1, a2

One == [mobile |-> "m1", email |-> "e1"]
SameEmail == [mobile |-> "m2", email |-> "e1"]

MCContacts == {One, SameEmail}

\* Two applications by people who share an email address; either may register at will.
MCApplicants == {[a \in Apps |-> IF a = a1 THEN One ELSE SameEmail]}

\* The first goes all the way; the second gets as far as its provisioning.
MCTargets == [a \in Apps |-> IF a = a1 THEN Statuses \ {"PAYMENT_PENDING", "PAYMENT_RECEIVED", "CANCELLED"}
                             ELSE {"UNDER_REVIEW", "APPROVED"}]

MCSymmetry == Permutations(Requests)
=============================================================================
