---------------------------- MODULE BillingCycle ----------------------------
(***************************************************************************)
(* The monthly billing cycle: InvoicesService.runBillingCycle and generate, *)
(* SequenceService.next, and the subscription writes they race with        *)
(* (SubscriptionsService.activate, transition and adminUpdateForCustomer). *)
(*                                                                         *)
(* Several runs may be in flight: one per API instance when Redis is off,  *)
(* a BullMQ retry after a stall, the inline fallback of enqueue.  A run    *)
(* works from the rows its first query returned, one awaited statement at  *)
(* a time.  Dates are months: month m stands for the calendar month m, and *)
(* nextBillingDate = m for the first day of m.                             *)
(***************************************************************************)
EXTENDS Integers, FiniteSets, FiniteSetsExt

CONSTANTS
    Runs,         \* billing runs in flight at once
    Requests,     \* staff and onboarding requests in flight at once
    Subs,         \* subscriptions
    Broken,       \* those whose tariff PricingService.quote cannot price
    PageSize,     \* how many rows one run bills at most: 500
    StaffStatuses, \* statuses staff set by hand
    StaffMonths,  \* months (or NoDate) staff type into the billing dates
    Horizon,      \* bound: the last month of the calendar
    MaxFaults     \* bound: failed statements and dead processes

ASSUME BillingAssumption ==
    /\ Broken \subseteq Subs
    /\ Runs \cap Requests = {}
    /\ PageSize \in Nat \ {0}
    /\ Horizon \in Nat \ {0}
    /\ StaffStatuses \subseteq
          {"PENDING", "ACTIVE", "SUSPENDED", "EXPIRED", "CANCELLED"}
    /\ StaffMonths \subseteq 0..Horizon
    /\ MaxFaults \in Nat

VARIABLES
    sub,       \* subscriptions
    invoices,  \* invoices: the subscription, the period and the number
    counter,   \* system_settings: billing.invoice_sequence.YYYYMM
    month,     \* the calendar
    faults,    \* how many statements or processes have failed
    proc       \* what each process read and where it stands

vars == <<sub, invoices, counter, month, faults, proc>>

Procs == Runs \cup Requests

Statuses == {"PENDING", "ACTIVE", "SUSPENDED", "EXPIRED", "CANCELLED"}
NoDate == 0
SubRow == [status: Statuses, startedAt: Nat, periodEnd: Nat, nextBilling: Nat]
InvoiceRow == [sub: Subs, period: Nat \ {0}, number: Nat \ {0}]

Invoiced(s, m) == \E v \in invoices : v.sub = s /\ v.period = m

\* One line of the run's result set, with the period it leads to.
DueRow == [sub: Subs, period: Nat \ {0}]

Idle == [pc |-> "idle"]
Running == [pc: {"run"}, todo: SUBSET DueRow]
Billing == [pc: {"create", "advance"}, todo: SUBSET DueRow, bill: DueRow]
Activating == [pc: {"activate"}, sub: Subs]
Transiting == [pc: {"transition"}, sub: Subs, to: Statuses]
ProcState == {Idle} \cup Running \cup Billing \cup Activating \cup Transiting

Init ==
    /\ sub = [s \in Subs |-> [status |-> "PENDING", startedAt |-> NoDate,
                              periodEnd |-> NoDate, nextBilling |-> NoDate]]
    /\ invoices = {}
    /\ counter = [m \in 1..(Horizon + 1) |-> 0]
    /\ month = 1
    /\ faults = 0
    /\ proc = [w \in Procs |-> Idle]

-----------------------------------------------------------------------------
(* runBillingCycle *)

\* Defect: a month early.
IsDueEarly(s) == /\ sub[s].status = "ACTIVE"
                 /\ sub[s].nextBilling # NoDate
                 /\ sub[s].nextBilling <= month + 1

IsDue(s) == /\ sub[s].status = "ACTIVE"
            /\ sub[s].nextBilling # NoDate
            /\ sub[s].nextBilling <= month

\* periodAfter(currentPeriodEnd ?? now)
PeriodAfter(s) == (IF sub[s].periodEnd = NoDate THEN month ELSE sub[s].periodEnd) + 1

Due == {s \in Subs : IsDue(s)}

\* take: 500 without an order: all that is due, or any page of it.
Pages == IF Cardinality(Due) <= PageSize THEN {Due} ELSE kSubset(PageSize, Due)

\* The findMany that decides what this run will bill.
RunRead(w) ==
    /\ proc[w] = Idle
    /\ Due # {}
    /\ \E page \in Pages :
          proc' = [proc EXCEPT ![w] =
                      [pc |-> "run",
                       todo |-> {[sub |-> s, period |-> PeriodAfter(s)] :
                                    s \in page}]]
    /\ UNCHANGED <<sub, invoices, counter, month, faults>>

\* The rows a run has left; the run ends with the last one.
Rest(todo) == IF todo = {} THEN Idle ELSE [pc |-> "run", todo |-> todo]

\* Defect: an account that cannot be billed ends the run.
GenerateReadAborts(w, d) ==
    /\ proc[w].pc = "run"
    /\ d \in proc[w].todo
    /\ LET rest == proc[w].todo \ {d}
       IN  proc' = [proc EXCEPT ![w] =
              IF Invoiced(d.sub, d.period)
              THEN [pc |-> "advance", todo |-> rest, bill |-> d]
              ELSE IF sub[d.sub].status = "CANCELLED" \/ d.sub \in Broken
              THEN Idle
              ELSE [pc |-> "create", todo |-> rest, bill |-> d]]
    /\ UNCHANGED <<sub, invoices, counter, month, faults>>

\* What generate reads before its transaction: the invoice that may already
\* exist, the subscription, and the quote.  A cancelled subscription and a
\* tariff that cannot be priced throw, and the run goes on with the next row.
GenerateRead(w, d) ==
    /\ proc[w].pc = "run"
    /\ d \in proc[w].todo
    /\ LET rest == proc[w].todo \ {d}
       IN  proc' = [proc EXCEPT ![w] =
              IF Invoiced(d.sub, d.period)
              THEN [pc |-> "advance", todo |-> rest, bill |-> d]
              ELSE IF sub[d.sub].status = "CANCELLED" \/ d.sub \in Broken
              THEN Rest(rest)
              ELSE [pc |-> "create", todo |-> rest, bill |-> d]]
    /\ UNCHANGED <<sub, invoices, counter, month, faults>>

\* Defect: no unique constraint on the subscription and the period.
GenerateCreateAgain(w) ==
    /\ proc[w].pc = "create"
    /\ LET d == proc[w].bill
           n == counter[d.period] + 1
       IN  /\ invoices' = invoices \cup
                 {[sub |-> d.sub, period |-> d.period, number |-> n]}
           /\ counter' = [counter EXCEPT ![d.period] = n]
           /\ proc' = [proc EXCEPT ![w].pc = "advance"]
    /\ UNCHANGED <<sub, month, faults>>

\* Defect: the number is the counter as it was before the increment.
GenerateCreateStaleNumber(w) ==
    /\ proc[w].pc = "create"
    /\ LET d == proc[w].bill
           n == counter[d.period]
       IN  IF Invoiced(d.sub, d.period)
           THEN /\ proc' = [proc EXCEPT ![w] = Rest(proc[w].todo)]
                /\ UNCHANGED <<invoices, counter>>
           ELSE /\ invoices' = invoices \cup
                      {[sub |-> d.sub, period |-> d.period, number |-> n]}
                /\ counter' = [counter EXCEPT ![d.period] = n + 1]
                /\ proc' = [proc EXCEPT ![w].pc = "advance"]
    /\ UNCHANGED <<sub, month, faults>>

\* The transaction of generate.  The unique constraint on the subscription and
\* the period makes it throw, and the counter roll back, when another run came
\* first; sequence.next advances the counter of the period otherwise.
GenerateCreate(w) ==
    /\ proc[w].pc = "create"
    /\ LET d == proc[w].bill
           n == counter[d.period] + 1
       IN  IF Invoiced(d.sub, d.period)
           THEN /\ proc' = [proc EXCEPT ![w] = Rest(proc[w].todo)]
                /\ UNCHANGED <<invoices, counter>>
           ELSE /\ invoices' = invoices \cup
                      {[sub |-> d.sub, period |-> d.period, number |-> n]}
                /\ counter' = [counter EXCEPT ![d.period] = n]
                /\ proc' = [proc EXCEPT ![w].pc = "advance"]
    /\ UNCHANGED <<sub, month, faults>>

\* subscription.update by id, from the period computed at the start of the run.
Advance(w) ==
    /\ proc[w].pc = "advance"
    /\ LET d == proc[w].bill
       IN  sub' = [sub EXCEPT ![d.sub].periodEnd = d.period,
                              ![d.sub].nextBilling = d.period + 1]
    /\ proc' = [proc EXCEPT ![w] = Rest(proc[w].todo)]
    /\ UNCHANGED <<invoices, counter, month, faults>>

\* Defect: the dates advance although the invoice was not created.
SkipAndAdvance(w) ==
    /\ proc[w].pc \in {"create", "advance"}
    /\ faults < MaxFaults
    /\ faults' = faults + 1
    /\ proc' = [proc EXCEPT ![w].pc = "advance"]
    /\ UNCHANGED <<sub, invoices, counter, month>>

\* A statement of one iteration throws: the account is logged and skipped.
Skip(w) ==
    /\ proc[w].pc \in {"create", "advance"}
    /\ faults < MaxFaults
    /\ faults' = faults + 1
    /\ proc' = [proc EXCEPT ![w] = Rest(proc[w].todo)]
    /\ UNCHANGED <<sub, invoices, counter, month>>

-----------------------------------------------------------------------------
(* SubscriptionsService *)

ActivateRead(w, s) ==
    /\ proc[w] = Idle
    /\ sub[s].status \notin {"ACTIVE", "CANCELLED"}
    /\ proc' = [proc EXCEPT ![w] = [pc |-> "activate", sub |-> s]]
    /\ UNCHANGED <<sub, invoices, counter, month, faults>>

\* The first period is the current month; billing starts with the next one.
ActivateCommit(w) ==
    /\ proc[w].pc = "activate"
    /\ sub' = [sub EXCEPT ![proc[w].sub] =
                  [status |-> "ACTIVE", startedAt |-> month,
                   periodEnd |-> month, nextBilling |-> month + 1]]
    /\ proc' = [proc EXCEPT ![w] = Idle]
    /\ UNCHANGED <<invoices, counter, month, faults>>

\* suspend, reactivate and cancel.  Reactivating a pending subscription is
\* handed to activate, which reads the row again.
TransitionRead(w, s, to) ==
    /\ proc[w] = Idle
    /\ sub[s].status \notin {to, "CANCELLED"}
    /\ ~(to = "ACTIVE" /\ sub[s].status = "PENDING")
    /\ proc' = [proc EXCEPT ![w] = [pc |-> "transition", sub |-> s, to |-> to]]
    /\ UNCHANGED <<sub, invoices, counter, month, faults>>

TransitionCommit(w) ==
    /\ proc[w].pc = "transition"
    /\ LET s == proc[w].sub
           to == proc[w].to
       IN  sub' = [sub EXCEPT
              ![s].status = to,
              ![s].nextBilling = IF to = "CANCELLED" THEN NoDate ELSE @]
    /\ proc' = [proc EXCEPT ![w] = Idle]
    /\ UNCHANGED <<invoices, counter, month, faults>>

\* adminUpdateForCustomer: any status, and the dates staff typed; nothing it
\* read decides what it writes.
\* (Bound: a date typed within the calendar leads to a period within it.)
AdminUpdate(s, status, start, end, next) ==
    /\ next \in 1..Horizon => end <= Horizon
    /\ sub' = [sub EXCEPT ![s] = [status |-> status, startedAt |-> start,
                                  periodEnd |-> end, nextBilling |-> next]]
    /\ UNCHANGED <<invoices, counter, month, faults, proc>>

-----------------------------------------------------------------------------
(* The environment *)

\* A process dies; a job run that dies leaves the rest of its rows unbilled.
Die(w) ==
    /\ proc[w] # Idle
    /\ faults < MaxFaults
    /\ faults' = faults + 1
    /\ proc' = [proc EXCEPT ![w] = Idle]
    /\ UNCHANGED <<sub, invoices, counter, month>>

MonthPasses ==
    /\ month < Horizon
    /\ month' = month + 1
    /\ UNCHANGED <<sub, invoices, counter, faults, proc>>

RunStep(w) ==
    \/ RunRead(w)
    \/ proc[w].pc = "run" /\ \E d \in proc[w].todo : GenerateRead(w, d)
    \/ GenerateCreate(w)
    \/ Advance(w)

RequestStep(w) ==
    \/ \E s \in Subs :
          \/ ActivateRead(w, s)
          \/ \E to \in {"ACTIVE", "SUSPENDED", "CANCELLED"} : TransitionRead(w, s, to)
    \/ ActivateCommit(w)
    \/ TransitionCommit(w)

StaffUpdate(s) ==
    \E status \in {sub[s].status} \cup StaffStatuses,
       start \in {sub[s].startedAt} \cup StaffMonths,
       end \in {sub[s].periodEnd} \cup StaffMonths,
       next \in {sub[s].nextBilling} \cup StaffMonths :
           AdminUpdate(s, status, start, end, next)

Next ==
    \/ \E w \in Runs : RunStep(w) \/ Skip(w)
    \/ \E w \in Requests : RequestStep(w)
    \/ \E w \in Procs : Die(w)
    \/ \E s \in Subs : StaffUpdate(s)
    \/ MonthPasses

Spec == Init /\ [][Next]_vars

\* The job runs every day, and a statement that was sent returns or throws.
Fairness == \A w \in Runs : WF_vars(RunStep(w))

FairSpec == Spec /\ Fairness

-----------------------------------------------------------------------------
(* Properties *)

TypeOK ==
    /\ sub \in [Subs -> SubRow]
    /\ invoices \subseteq InvoiceRow
    /\ counter \in [1..(Horizon + 1) -> Nat]
    /\ month \in 1..Horizon
    /\ faults \in 0..MaxFaults
    /\ proc \in [Procs -> ProcState]

\* "A retried billing run - or a manual generation that overlaps one - returns
\* the invoice that already exists instead of billing the customer twice", and
\* no two invoices of a month carry the same number, however many runs overlap.
InvoicesDistinct ==
    \A v, u \in invoices :
        \/ v = u
        \/ /\ <<v.sub, v.period>> # <<u.sub, u.period>>
           /\ <<v.period, v.number>> # <<u.period, u.number>>

\* The billing dates of a subscription never move past a month that was not
\* invoiced: every month after the activation, up to the current period, has
\* its invoice, whatever runs overlap, fail half way or come back late.
NoUnbilledPeriod ==
    \A s \in Subs : \A m \in 1..(Horizon + 1) :
        sub[s].startedAt < m /\ m <= sub[s].periodEnd => Invoiced(s, m)

\* No customer is billed for a month that has not begun, even by a run that
\* works from dates another run has moved in the meantime.
NeverBilledAhead == \A v \in invoices : v.period <= month

\* "One broken tariff must not stop everybody else's bill": every other month
\* that falls due gets its invoice, unless the service stops being active or
\* its billing date is moved past that month or cleared, even when more is due
\* than one run reads.  What throws stays due and is read again: this holds while
\* a page has room for more rows than throw for good and staff do not go on
\* changing the others; as many broken tariffs as a page holds starve the rest.
DueMonthsGetBilled ==
    \A s \in Subs \ Broken : \A m \in 1..Horizon :
        (/\ sub[s].status = "ACTIVE"
         /\ sub[s].nextBilling # NoDate
         /\ sub[s].nextBilling <= m
         /\ m <= month)
            ~> \/ Invoiced(s, m)
               \/ sub[s].status # "ACTIVE"
               \/ sub[s].nextBilling \notin 1..m
=============================================================================
