----------------------------- MODULE MCPhoneProof -----------------------------
(***************************************************************************)
(* Instances of PhoneProof for TLC.  The initial states cover an applicant *)
(* who sends one request at a time and one who sends two.                  *)
(***************************************************************************)
EXTENDS PhoneProof, TLC

CONSTANTS register, apply, r1, r2

MCSymmetry == Permutations(Requests) \cup Permutations(Contacts)

\* Beyond two codes the run goes on only with codes of one contact that nobody has
\* guessed at or verified, which is what OneLiveCode counts.
MCLater ==
    issued > 2 => \A k \in 1..issued :
        /\ code[k].contact = code[1].contact
        /\ code[k].attempts = 0 /\ ~code[k].verified
=============================================================================
