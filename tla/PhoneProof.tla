------------------------------ MODULE PhoneProof ------------------------------
(***************************************************************************)
(* Codes that prove an applicant's contact: OtpService.request, resend,    *)
(* verify and consumeProof, with what ApplicationsService.create and       *)
(* AuthService.register do with the proof.                                 *)
(*                                                                         *)
(* A contact is a mobile number and a purpose; code k is the k-th row of   *)
(* otp_requests.  A process is one request in flight; each awaited call is *)
(* a step, and what a request read before it is kept in its own record.    *)
(***************************************************************************)
EXTENDS Integers, FiniteSets

CONSTANTS
    Contacts,     \* of one mobile number: the hourly limit is common to them
    Requests,     \* requests that may be in flight at once
    MaxAttempts,  \* OTP_MAX_ATTEMPTS
    HourlyMax,    \* codes for one mobile number in an hour
    MaxCodes      \* bound: rows of otp_requests

ASSUME PhoneProofAssumption ==
    /\ IsFiniteSet(Requests)
    /\ {MaxAttempts, HourlyMax, MaxCodes} \subseteq Nat \ {0}

VARIABLES
    live,    \* the requests whoever holds the number has in flight; never changes
    code,    \* otp_requests: those issued are 1..issued
    issued,
    misses,  \* wrong codes answered for each row
    opened,  \* applications and accounts created with each row's proof
    proc

vars == <<live, code, issued, misses, opened, proc>>

Codes == 1..MaxCodes

\* age of createdAt: within the resend cooldown; within the hour; older.
\* proof: proofHash is there, of the last token made for the row.
CodeRow == [contact: Contacts, age: {"fresh", "recent", "old"},
            expired: BOOLEAN, attempts: Nat, verified: BOOLEAN,
            proof: BOOLEAN, proofExpired: BOOLEAN, consumed: BOOLEAN]

Idle == [pc |-> "idle"]
Issuing == [pc: {"count", "mail", "create"}, contact: Contacts]
OnCode == [pc: {"miss", "prove", "consume", "open"}, code: Codes]
ProcState == {Idle} \cup Issuing \cup OnCode

Init ==
    /\ live \in SUBSET Requests
    /\ code = [k \in {} |-> k]
    /\ issued = 0
    /\ misses = [k \in Codes |-> 0]
    /\ opened = [k \in Codes |-> 0]
    /\ proc = [r \in Requests |-> Idle]

OfContact(c) == {k \in 1..issued : code[k].contact = c}

-----------------------------------------------------------------------------
(* request and resend *)

\* enforceCooldown: the latest row of the contact.  resend looks for an earlier
\* row first and, with or without one, goes on as request does.
CheckCooldown(r, c) ==
    /\ proc[r] = Idle
    /\ r \in live
    /\ \A k \in OfContact(c) :
          (\A j \in OfContact(c) : j <= k) => code[k].age # "fresh"
    /\ proc' = [proc EXCEPT ![r] = [pc |-> "count", contact |-> c]]
    /\ UNCHANGED <<live, code, issued, misses, opened>>

LastHour == {k \in 1..issued : code[k].age # "old"}

\* The rows of the number, whatever their purpose; those of the email and of the
\* network address, which are counted next, only refuse more.
CheckHourly(r) ==
    /\ proc[r].pc = "count"
    /\ Cardinality(LastHour) < HourlyMax
    /\ proc' = [proc EXCEPT ![r].pc = "mail"]
    /\ UNCHANGED <<live, code, issued, misses, opened>>

\* Defect: the latest code is retired, not every earlier one.
RetireLatest(r) ==
    /\ proc[r].pc = "mail"
    /\ code' = [k \in 1..issued |->
                   IF /\ k \in OfContact(proc[r].contact)
                      /\ \A j \in OfContact(proc[r].contact) : j <= k
                      /\ ~code[k].verified /\ ~code[k].consumed
                   THEN [code[k] EXCEPT !.expired = TRUE]
                   ELSE code[k]]
    /\ proc' = [proc EXCEPT ![r].pc = "create"]
    /\ UNCHANGED <<live, issued, misses, opened>>

\* issueAndDeliver: the code is mailed, and then the earlier ones are retired; a
\* code that was not delivered retires none and gets no row (Abandon).
RetireEarlier(r) ==
    /\ proc[r].pc = "mail"
    /\ code' = [k \in 1..issued |->
                   IF /\ k \in OfContact(proc[r].contact)
                      /\ ~code[k].verified /\ ~code[k].consumed
                   THEN [code[k] EXCEPT !.expired = TRUE]
                   ELSE code[k]]
    /\ proc' = [proc EXCEPT ![r].pc = "create"]
    /\ UNCHANGED <<live, issued, misses, opened>>

CreateCode(r) ==
    /\ proc[r].pc = "create"
    /\ issued < MaxCodes
    /\ issued' = issued + 1
    /\ code' = [k \in 1..issued' |->
                   IF k \in 1..issued THEN code[k]
                   ELSE [contact |-> proc[r].contact, age |-> "fresh",
                         expired |-> FALSE, attempts |-> 0, verified |-> FALSE,
                         proof |-> FALSE, proofExpired |-> FALSE,
                         consumed |-> FALSE]]
    /\ proc' = [proc EXCEPT ![r] = Idle]
    /\ UNCHANGED <<live, misses, opened>>

-----------------------------------------------------------------------------
(* verify *)

\* Defect: the attempts are not looked at.
VerifyReadUncounted(r, k) ==
    /\ proc[r] = Idle
    /\ r \in live
    /\ ~code[k].consumed /\ ~code[k].expired
    /\ \E step \in {"miss", "prove"} :
          proc' = [proc EXCEPT ![r] = [pc |-> step, code |-> k]]
    /\ UNCHANGED <<live, code, issued, misses, opened>>

\* The checks on the row as read, and whether the code given is the row's.
VerifyRead(r, k) ==
    /\ proc[r] = Idle
    /\ r \in live
    /\ ~code[k].consumed /\ ~code[k].expired
    /\ code[k].attempts < MaxAttempts
    /\ \E step \in {"miss", "prove"} :
          proc' = [proc EXCEPT ![r] = [pc |-> step, code |-> k]]
    /\ UNCHANGED <<live, code, issued, misses, opened>>

Miss(r) ==
    /\ proc[r].pc = "miss"
    /\ LET k == proc[r].code
       IN  /\ code' = [code EXCEPT ![k].attempts = @ + 1]
           /\ misses' = [misses EXCEPT ![k] = @ + 1]
    /\ proc' = [proc EXCEPT ![r] = Idle]
    /\ UNCHANGED <<live, issued, opened>>

\* By id: a proof made before is replaced, and the row may by now be expired,
\* exhausted or consumed.
Prove(r) ==
    /\ proc[r].pc = "prove"
    /\ code' = [code EXCEPT ![proc[r].code].verified = TRUE,
                            ![proc[r].code].proof = TRUE,
                            ![proc[r].code].proofExpired = FALSE]
    /\ proc' = [proc EXCEPT ![r] = Idle]
    /\ UNCHANGED <<live, issued, misses, opened>>

-----------------------------------------------------------------------------
(* consumeProof, and the create or register that called it *)

\* Defect: a proof that was used is found again.
FindProofUsed(r, k) ==
    /\ proc[r] = Idle
    /\ r \in live
    /\ code[k].verified
    /\ ~code[k].proofExpired
    /\ proc' = [proc EXCEPT ![r] = [pc |-> "consume", code |-> k]]
    /\ UNCHANGED <<live, code, issued, misses, opened>>

\* The row that has this proof, for the number and purpose it is used with.
FindProof(r, k) ==
    /\ proc[r] = Idle
    /\ r \in live
    /\ code[k].proof /\ ~code[k].consumed /\ code[k].verified
    /\ ~code[k].proofExpired
    /\ proc' = [proc EXCEPT ![r] = [pc |-> "consume", code |-> k]]
    /\ UNCHANGED <<live, code, issued, misses, opened>>

\* Defect: the row goes with its proof.
ConsumeRow(r) ==
    /\ proc[r].pc = "consume"
    /\ code' = [k \in DOMAIN code \ {proc[r].code} |-> code[k]]
    /\ proc' = [proc EXCEPT ![r].pc = "open"]
    /\ UNCHANGED <<live, issued, misses, opened>>

ConsumeProof(r) ==
    /\ proc[r].pc = "consume"
    /\ code' = [code EXCEPT ![proc[r].code].consumed = TRUE,
                            ![proc[r].code].proof = FALSE]
    /\ proc' = [proc EXCEPT ![r].pc = "open"]
    /\ UNCHANGED <<live, issued, misses, opened>>

\* The application or the account; one that is refused has used up its proof
\* (Abandon).
Open(r) ==
    /\ proc[r].pc = "open"
    /\ opened' = [opened EXCEPT ![proc[r].code] = @ + 1]
    /\ proc' = [proc EXCEPT ![r] = Idle]
    /\ UNCHANGED <<live, code, issued, misses>>

-----------------------------------------------------------------------------
(* The environment *)

\* A statement or a check throws, or the process dies.
Abandon(r) ==
    /\ proc[r] # Idle
    /\ proc' = [proc EXCEPT ![r] = Idle]
    /\ UNCHANGED <<live, code, issued, misses, opened>>

\* The cooldown of a code ends, then its hour; a later row is not older.
CreationAges(k) ==
    /\ code[k].age # "old"
    /\ code' = [code EXCEPT ![k].age = IF @ = "fresh" THEN "recent" ELSE "old"]
    /\ \A j \in 1..(k - 1) : code[j].age = "old" \/ code[j].age = code'[k].age
    /\ UNCHANGED <<live, issued, misses, opened, proc>>

CodeExpires(k) ==
    /\ ~code[k].expired
    /\ code' = [code EXCEPT ![k].expired = TRUE]
    /\ UNCHANGED <<live, issued, misses, opened, proc>>

ProofExpires(k) ==
    /\ code[k].proof /\ ~code[k].proofExpired
    /\ code' = [code EXCEPT ![k].proofExpired = TRUE]
    /\ UNCHANGED <<live, issued, misses, opened, proc>>

RequestStep(r) ==
    \/ \E c \in Contacts : CheckCooldown(r, c)
    \/ CheckHourly(r) \/ RetireEarlier(r) \/ CreateCode(r)
    \/ \E k \in 1..issued : VerifyRead(r, k) \/ FindProof(r, k)
    \/ Miss(r) \/ Prove(r) \/ ConsumeProof(r) \/ Open(r) \/ Abandon(r)

TimePasses ==
    \E k \in 1..issued : CreationAges(k) \/ CodeExpires(k) \/ ProofExpires(k)

Next == TimePasses \/ \E r \in Requests : RequestStep(r)

Spec == Init /\ [][Next]_vars

-----------------------------------------------------------------------------
(* Properties *)

TypeOK ==
    /\ live \in SUBSET Requests
    /\ issued \in 0..MaxCodes
    /\ code \in [1..issued -> CodeRow]
    /\ misses \in [Codes -> Nat]
    /\ opened \in [Codes -> Nat]
    /\ proc \in [Requests -> ProcState]

\* "each request carries its own attempt counter": a code is tried no more than
\* maxAttempts times and by the requests that overlap the last try, however often
\* it is verified, replaced or found expired in between.
GuessesBounded ==
    \A k \in Codes : misses[k] < MaxAttempts + Cardinality(live)

At(pcs) == {r \in Requests : proc[r].pc \in pcs}

\* "invalidating unused earlier codes": of the codes sent to a contact and not yet
\* verified, one can still be entered; one more for each request that issues one
\* at the same time, between retiring the others' code and writing its own.
OneLiveCode ==
    \A c \in Contacts :
        Cardinality({k \in OfContact(c) : ~code[k].expired /\ ~code[k].verified})
        <= Cardinality(live)

\* A code opens one application or account, however often it was verified and
\* whichever of its proofs is used; one more for each request that presents a
\* proof before another's use of it is written.
OneOpeningEach ==
    \A k \in Codes :
        opened[k] + Cardinality({r \in At({"open"}) : proc[r].code = k})
        <= Cardinality(live)
=============================================================================
