------------------------------- MODULE Orders -------------------------------
(***************************************************************************)
(* Ordering a plan: OrdersService.create, resendOtp, verifyOtp and         *)
(* adminUpdateStatus, with SubscriptionsService.createFromOrder.           *)
(*                                                                         *)
(* A process is one request in flight, of the order's customer (a tab that *)
(* was submitted twice, a retry that overtakes the first attempt) or of    *)
(* staff.  Each awaited call is a step; what a request read before it is   *)
(* kept in its own record.                                                 *)
(***************************************************************************)
EXTENDS Integers, FiniteSets

CONSTANTS
    Orders,
    Browsers,     \* requests of customers that may be in flight at once
    Staff,        \* requests of staff that may be in flight at once
    MaxAttempts,  \* OTP_MAX_ATTEMPTS
    ResendMax,    \* OTP_RESEND_MAX
    MaxCodes,     \* bound: codes issued per order
    MaxCrashes    \* bound: confirmations that die half way, per order

Procs == Browsers \cup Staff

ASSUME OrdersAssumption ==
    /\ IsFiniteSet(Browsers)
    /\ Browsers \cap Staff = {}
    /\ MaxAttempts \in Nat \ {0}
    /\ ResendMax \in Nat \ {0}
    /\ MaxCodes \in Nat
    /\ MaxCrashes \in Nat

VARIABLES
    tabs,     \* tabs[o]: those its customer uses; never changes
    order,    \* orders
    made,     \* subscriptions created for each order: numbers 1..made[o]
    mails,    \* ORDER_OTP log rows of the last ten minutes
    issued,   \* codes issued for each order: code k is the k-th
    misses,   \* misses[o][k]: wrong codes answered while code k was in force
    crashes,  \* confirmations that died after creating the subscription
    proc      \* what each request read and where it stands

vars == <<tabs, order, made, mails, issued, misses, crashes, proc>>

NoCode == 0
NoSubscription == 0

Statuses == {"PENDING_OTP", "CONFIRMED", "EXPIRED", "CANCELLED",
             "SCHEDULED", "INSTALLED"}
AwaitingCode == {"PENDING_OTP", "EXPIRED"}

\* The age of otpExpiresAt: never set; within the resend cooldown; still
\* valid; past.
Ages == {"none", "fresh", "valid", "past"}
OrderRow == [status: Statuses \cup {"none"}, code: Nat, age: Ages,
             attempts: Nat, subscription: Nat]

Idle == [pc |-> "idle"]
OneOrder == [pc: {"issue", "email", "expire"}, order: Orders]
Resending == [pc: {"resend"}, order: Orders, code: Nat, age: Ages]
Missing == [pc: {"miss"}, order: Orders, code: Nat \ {0}]
Subscribing == [pc: {"subscribe"}, order: Orders]
Confirming == [pc: {"confirm"}, order: Orders, subscription: Nat \ {0}]
Moving == [pc: {"move"}, order: Orders,
           to: {"CANCELLED", "SCHEDULED", "INSTALLED"}]
ProcState == {Idle} \cup OneOrder \cup Resending \cup Missing
             \cup Subscribing \cup Confirming \cup Moving

Init ==
    /\ tabs \in [Orders -> SUBSET Browsers]
    /\ order = [o \in Orders |->
                   [status |-> "none", code |-> NoCode, age |-> "none",
                    attempts |-> 0, subscription |-> NoSubscription]]
    /\ made = [o \in Orders |-> 0]
    /\ mails = [o \in Orders |-> 0]
    /\ issued = [o \in Orders |-> 0]
    /\ misses = [o \in Orders |-> [k \in 1..MaxCodes |-> 0]]
    /\ crashes = [o \in Orders |-> 0]
    /\ proc = [w \in Procs |-> Idle]

-----------------------------------------------------------------------------
(* create and resendOtp *)

Create(w, o) ==
    /\ proc[w] = Idle
    /\ w \in tabs[o]
    /\ order[o].status = "none"
    /\ order' = [order EXCEPT ![o].status = "PENDING_OTP"]
    /\ proc' = [proc EXCEPT ![w] = [pc |-> "issue", order |-> o]]
    /\ UNCHANGED <<tabs, made, mails, issued, misses, crashes>>

\* Defect: the status of the order is not looked at.
ResendReadAny(w, o) ==
    /\ proc[w] = Idle
    /\ w \in tabs[o]
    /\ order[o].status # "none"
    /\ proc' = [proc EXCEPT ![w] = [pc |-> "resend", order |-> o,
                                    code |-> issued[o], age |-> order[o].age]]
    /\ UNCHANGED <<tabs, order, made, mails, issued, misses, crashes>>

ResendRead(w, o) ==
    /\ proc[w] = Idle
    /\ w \in tabs[o]
    /\ order[o].status \in AwaitingCode
    /\ proc' = [proc EXCEPT ![w] = [pc |-> "resend", order |-> o,
                                    code |-> issued[o], age |-> order[o].age]]
    /\ UNCHANGED <<tabs, order, made, mails, issued, misses, crashes>>

\* The log count and the cooldown, which is judged now on the expiry that was
\* read: still the one in force, or that of a code replaced meanwhile, whose
\* age is then left open.
ResendCheck(w) ==
    /\ proc[w].pc = "resend"
    /\ LET o == proc[w].order
       IN  /\ mails[o] < ResendMax
           /\ proc[w].age = "fresh" /\ proc[w].code = issued[o]
                 => order[o].age # "fresh"
           /\ proc' = [proc EXCEPT ![w] = [pc |-> "issue", order |-> o]]
    /\ UNCHANGED <<tabs, order, made, mails, issued, misses, crashes>>

\* Defect: a resend sends the code in force once more.
IssueOtpSameCode(w) ==
    /\ proc[w].pc = "issue"
    /\ LET o == proc[w].order
       IN  /\ issued[o] < MaxCodes
           /\ issued' = [issued EXCEPT ![o] = @ + 1]
           /\ order' = [order EXCEPT ![o].status = "PENDING_OTP",
                                     ![o].code = IF @ = NoCode THEN issued[o] + 1 ELSE @,
                                     ![o].age = "fresh",
                                     ![o].attempts = 0]
    /\ proc' = [proc EXCEPT ![w].pc = "email"]
    /\ UNCHANGED <<tabs, made, mails, misses, crashes>>

\* issueOtp: the order waits for a new code, whatever it has become.
IssueOtp(w) ==
    /\ proc[w].pc = "issue"
    /\ LET o == proc[w].order
       IN  /\ issued[o] < MaxCodes
           /\ issued' = [issued EXCEPT ![o] = @ + 1]
           /\ order' = [order EXCEPT ![o].status = "PENDING_OTP",
                                     ![o].code = issued[o] + 1,
                                     ![o].age = "fresh",
                                     ![o].attempts = 0]
    /\ proc' = [proc EXCEPT ![w].pc = "email"]
    /\ UNCHANGED <<tabs, made, mails, misses, crashes>>

\* sendEmail logs the message once it was handed over, delivered or not.
LogEmail(w) ==
    /\ proc[w].pc = "email"
    /\ mails' = [mails EXCEPT ![proc[w].order] = @ + 1]
    /\ proc' = [proc EXCEPT ![w] = Idle]
    /\ UNCHANGED <<tabs, order, made, issued, misses, crashes>>

-----------------------------------------------------------------------------
(* verifyOtp *)

\* The checks on the row just read; a request they refuse changes nothing.
VerifyRead(w, o) ==
    /\ proc[w] = Idle
    /\ w \in tabs[o]
    /\ order[o].status \in AwaitingCode
    /\ order[o].code # NoCode
    /\ \E step \in IF order[o].age = "past" \/ order[o].attempts >= MaxAttempts
                   THEN {[pc |-> "expire", order |-> o]}
                   ELSE {[pc |-> "subscribe", order |-> o],
                         [pc |-> "miss", order |-> o, code |-> order[o].code]} :
          proc' = [proc EXCEPT ![w] = step]
    /\ UNCHANGED <<tabs, order, made, mails, issued, misses, crashes>>

\* By id, like every write below: the order may have moved on.
Expire(w) ==
    /\ proc[w].pc = "expire"
    /\ order' = [order EXCEPT ![proc[w].order].status = "EXPIRED"]
    /\ proc' = [proc EXCEPT ![w] = Idle]
    /\ UNCHANGED <<tabs, made, mails, issued, misses, crashes>>

Miss(w) ==
    /\ proc[w].pc = "miss"
    /\ LET o == proc[w].order
       IN  /\ order' = [order EXCEPT ![o].attempts = @ + 1]
           /\ misses' = [misses EXCEPT ![o][proc[w].code] = @ + 1]
    /\ proc' = [proc EXCEPT ![w] = Idle]
    /\ UNCHANGED <<tabs, made, mails, issued, crashes>>

\* createFromOrder: a transaction of its own.
Subscribe(w) ==
    /\ proc[w].pc = "subscribe"
    /\ LET o == proc[w].order
       IN  /\ made' = [made EXCEPT ![o] = @ + 1]
           /\ proc' = [proc EXCEPT ![w] = [pc |-> "confirm", order |-> o,
                                           subscription |-> made[o] + 1]]
    /\ UNCHANGED <<tabs, order, mails, issued, misses, crashes>>

Confirm(w) ==
    /\ proc[w].pc = "confirm"
    /\ order' = [order EXCEPT ![proc[w].order].status = "CONFIRMED",
                              ![proc[w].order].subscription = proc[w].subscription,
                              ![proc[w].order].code = NoCode]
    /\ proc' = [proc EXCEPT ![w] = Idle]
    /\ UNCHANGED <<tabs, made, mails, issued, misses, crashes>>

-----------------------------------------------------------------------------
(* adminUpdateStatus *)

\* Defects: staff reopen a cancelled order; staff schedule one not yet confirmed.
AllowedReopening(from) == CASE from \in AwaitingCode -> {"CANCELLED"}
                            [] from = "CONFIRMED"    -> {"SCHEDULED", "CANCELLED"}
                            [] from = "SCHEDULED"    -> {"INSTALLED", "CANCELLED"}
                            [] from = "CANCELLED"    -> {"PENDING_OTP"}
                            [] OTHER                 -> {}
AllowedUnconfirmed(from) == IF from = "none" THEN {}
                            ELSE {"SCHEDULED", "INSTALLED", "CANCELLED"} \ {from}

Allowed(from) == CASE from \in AwaitingCode -> {"CANCELLED"}
                   [] from = "CONFIRMED"    -> {"SCHEDULED", "CANCELLED"}
                   [] from = "SCHEDULED"    -> {"INSTALLED", "CANCELLED"}
                   [] OTHER                 -> {}

MoveRead(w, o) ==
    /\ proc[w] = Idle
    /\ \E to \in Allowed(order[o].status) :
          proc' = [proc EXCEPT ![w] = [pc |-> "move", order |-> o, to |-> to]]
    /\ UNCHANGED <<tabs, order, made, mails, issued, misses, crashes>>

Move(w) ==
    /\ proc[w].pc = "move"
    /\ order' = [order EXCEPT ![proc[w].order].status = proc[w].to]
    /\ proc' = [proc EXCEPT ![w] = Idle]
    /\ UNCHANGED <<tabs, made, mails, issued, misses, crashes>>

-----------------------------------------------------------------------------
(* The environment *)

\* A process dies or a statement throws, and what it committed stays.
\* (Bound: the confirmations that leave a subscription behind.)
Abandon(w) ==
    /\ proc[w] # Idle
    /\ IF proc[w].pc = "confirm"
       THEN /\ crashes[proc[w].order] < MaxCrashes
            /\ crashes' = [crashes EXCEPT ![proc[w].order] = @ + 1]
       ELSE crashes' = crashes
    /\ proc' = [proc EXCEPT ![w] = Idle]
    /\ UNCHANGED <<tabs, order, made, mails, issued, misses>>

\* The minute of the cooldown and the ten minutes of the code pass.
CodeAges(o) ==
    /\ order[o].age \in {"fresh", "valid"}
    /\ order' = [order EXCEPT ![o].age = IF @ = "fresh" THEN "valid" ELSE "past"]
    /\ UNCHANGED <<tabs, made, mails, issued, misses, crashes, proc>>

\* The oldest log row leaves the window of ten minutes.
WindowSlides(o) ==
    /\ mails[o] > 0
    /\ mails' = [mails EXCEPT ![o] = @ - 1]
    /\ UNCHANGED <<tabs, order, made, issued, misses, crashes, proc>>

CustomerStep(w) ==
    \/ \E o \in Orders : Create(w, o) \/ ResendRead(w, o) \/ VerifyRead(w, o)
    \/ ResendCheck(w) \/ IssueOtp(w) \/ LogEmail(w)
    \/ Expire(w) \/ Miss(w) \/ Subscribe(w) \/ Confirm(w)

StaffStep(w) == Move(w) \/ \E o \in Orders : MoveRead(w, o)

Next ==
    \/ \E w \in Browsers : CustomerStep(w)
    \/ \E w \in Staff : StaffStep(w)
    \/ \E w \in Procs : Abandon(w)
    \/ \E o \in Orders : CodeAges(o) \/ WindowSlides(o)

Spec == Init /\ [][Next]_vars

-----------------------------------------------------------------------------
(* Properties *)

TypeOK ==
    /\ tabs \in [Orders -> SUBSET Browsers]
    /\ order \in [Orders -> OrderRow]
    /\ made \in [Orders -> Nat]
    /\ mails \in [Orders -> Nat]
    /\ issued \in [Orders -> 0..MaxCodes]
    /\ misses \in [Orders -> [1..MaxCodes -> Nat]]
    /\ crashes \in [Orders -> 0..MaxCrashes]
    /\ proc \in [Procs -> ProcState]

\* An order that is confirmed, scheduled or installed names the subscription
\* made for it, whatever races, crashes and resends it has been through.
ConfirmedHasSubscription ==
    \A o \in Orders :
        order[o].status \in {"CONFIRMED", "SCHEDULED", "INSTALLED"}
            => order[o].subscription \in 1..made[o]

\* OTP_MAX_ATTEMPTS against requests that check the counter together: a code is
\* never tried more often than that plus the requests that overlap the last try.
GuessesBounded ==
    \A o \in Orders : \A k \in 1..MaxCodes :
        misses[o][k] < MaxAttempts + Cardinality(tabs[o])

\* A customer whose requests do not overlap gets one subscription per order,
\* whatever staff do meanwhile, but for one more each time a confirmation died
\* between creating the subscription and recording it.
OneSubscriptionUnlessCrashed ==
    \A o \in Orders : Cardinality(tabs[o]) = 1 => made[o] <= 1 + crashes[o]
=============================================================================
