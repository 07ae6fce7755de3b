----------------------------- MODULE Settlement -----------------------------
(***************************************************************************)
(* Settling invoices: PUT /admin/invoices/:id/mark-paid, POST              *)
(* /admin/refunds and the daily markOverdue job, at the grain of database  *)
(* statements under READ COMMITTED.                                        *)
(*                                                                         *)
(* Every process is one request or job run in flight, in any API instance  *)
(* or worker.  A step is one awaited database call: what a process read    *)
(* before an await it keeps in its own record and uses later, whatever the *)
(* others committed in between.  The writes of a $transaction become       *)
(* visible together, at its commit; a row lock it takes before its last    *)
(* read (the payment row of a refund) excludes other takers of that lock.  *)
(***************************************************************************)
EXTENDS InvoiceMoney, FiniteSets, FiniteSetsExt

CONSTANTS
    Procs,          \* requests and job runs that may be in flight at once
    Invoices,
    Customers,
    Owner,          \* Owner[i]: the customer of invoice i
    Total,          \* Total[i]: the total of invoice i
    Payments,       \* identifiers for payment rows
    Legacy,         \* the rows the retired online checkout (or the seed) left
    LegacyInvoice,  \* the invoice each of those paid in full
    LegacyProvider, \* and the provider recorded on it
    Scheduler,      \* the process whose daily runs the fairness is about
    RefundCap       \* bound: how much may be refunded per payment, all rows

ASSUME ConstantsAssumption ==
    /\ Owner \in [Invoices -> Customers]
    /\ Total \in [Invoices -> Nat \ {0}]
    /\ Legacy \subseteq Payments /\ IsFiniteSet(Legacy)
    /\ LegacyInvoice \in [Legacy -> Invoices]
    /\ \A p, q \in Legacy : LegacyInvoice[p] = LegacyInvoice[q] => p = q
    /\ LegacyProvider \in [Legacy -> {"online", "unknown"}]
    /\ Scheduler \in Procs
    /\ RefundCap \in Nat

VARIABLES
    invoice,     \* invoices: amountPaid and status
    payment,     \* payments, NoPayment where no row has been inserted
    refunds,     \* refunds: per payment, the sum of the rows of each status
    balance,     \* customers.balance
    phase,       \* the calendar against the due date of each invoice
    gatewayOut,  \* money the online gateway really returned, per payment
    proc         \* what each process read and where it stands

vars == <<invoice, payment, refunds, balance, phase, gatewayOut, proc>>

Providers == {"offline", "online", "unknown"}
RefundStatuses == {"APPROVED", "PROCESSED", "FAILED"}
PaymentStatuses == {"SUCCEEDED", "PARTIALLY_REFUNDED", "REFUNDED"}

NoPayment == [status |-> "none"]
PaymentRow == [status: PaymentStatuses, invoice: Invoices, amount: Nat \ {0},
               provider: Providers, refunded: Nat]

\* The local state of a process between two awaits.
Idle == [pc |-> "idle"]
MarkingPaid == [pc: {"markPaid"}, invoice: Invoices, amount: Nat \ {0}]
ApplyingPaid == [pc: {"applyPayment"}, invoice: Invoices, amount: Nat \ {0},
                 read: InvoiceRow]
Refunding == [pc: {"refund"}, payment: Payments, amount: Nat \ {0},
              refunded: Nat, outcome: RefundStatuses]
Reversing == [pc: {"reversePayment"}, payment: Payments, amount: Nat \ {0},
              refunded: Nat, read: InvoiceRow, overdue: BOOLEAN]
MarkingOverdue == [pc: {"markOverdue"}, todo: SUBSET Invoices]
ProcState == {Idle} \cup MarkingPaid \cup ApplyingPaid \cup Refunding
             \cup Reversing \cup MarkingOverdue

Issued == {p \in Payments : payment[p] # NoPayment}

-----------------------------------------------------------------------------
LegacyPaid == {LegacyInvoice[p] : p \in Legacy}

Init ==
    /\ invoice = [i \in Invoices |->
                     IF i \in LegacyPaid
                     THEN [paid |-> Total[i], status |-> "PAID"]
                     ELSE [paid |-> 0, status |-> "GENERATED"]]
    /\ payment = [p \in Payments |->
                     IF p \in Legacy
                     THEN [status |-> "SUCCEEDED", invoice |-> LegacyInvoice[p],
                           amount |-> Total[LegacyInvoice[p]],
                           provider |-> LegacyProvider[p], refunded |-> 0]
                     ELSE NoPayment]
    /\ refunds = [p \in Payments |-> [s \in RefundStatuses |-> 0]]
    /\ balance = [c \in Customers |-> 0]
    /\ phase = [i \in Invoices |-> "before"]
    /\ gatewayOut = [p \in Payments |-> 0]
    /\ proc = [w \in Procs |-> Idle]

-----------------------------------------------------------------------------
(* PUT /admin/invoices/:id/mark-paid *)

\* The checks of markPaid, on a row read before the transaction opens.
MarkPaidRead(w, i) ==
    /\ proc[w] = Idle
    /\ IsPayable(invoice[i], Total[i])
    /\ proc' = [proc EXCEPT ![w] =
                   [pc |-> "markPaid", invoice |-> i,
                    amount |-> Total[i] - invoice[i].paid]]
    /\ UNCHANGED <<invoice, payment, refunds, balance, phase, gatewayOut>>

\* Defect: the invoice is credited outside the transaction of the payment row.
MarkPaidApplyEarly(w) ==
    /\ proc[w].pc = "markPaid"
    /\ LET i == proc[w].invoice
       IN  /\ proc' = [proc EXCEPT ![w] =
                          [pc |-> "applyPayment", invoice |-> i,
                           amount |-> proc[w].amount, read |-> invoice[i]]]
           /\ invoice' = [invoice EXCEPT ![i] =
                             ApplyPayment(@, Total[i], proc[w].amount)]
    /\ UNCHANGED <<payment, refunds, balance, phase, gatewayOut>>

\* Inside the transaction, the read of applyPayment.  It takes no lock.
MarkPaidApply(w) ==
    /\ proc[w].pc = "markPaid"
    /\ proc' = [proc EXCEPT ![w] =
                   [pc |-> "applyPayment", invoice |-> proc[w].invoice,
                    amount |-> proc[w].amount,
                    read |-> invoice[proc[w].invoice]]]
    /\ UNCHANGED <<invoice, payment, refunds, balance, phase, gatewayOut>>

\* The commit: the payment row, the absolute amountPaid and the increment of
\* customers.balance become visible together.
MarkPaidCommit(w, p) ==
    /\ proc[w].pc = "applyPayment"
    /\ payment[p] = NoPayment
    /\ LET i == proc[w].invoice
           a == proc[w].amount
       IN  /\ payment' = [payment EXCEPT ![p] =
                             [status |-> "SUCCEEDED", invoice |-> i, amount |-> a,
                              provider |-> "offline", refunded |-> 0]]
           /\ invoice' = [invoice EXCEPT ![i] =
                             ApplyPayment(proc[w].read, Total[i], a)]
           /\ balance' = [balance EXCEPT ![Owner[i]] = @ - a]
    /\ proc' = [proc EXCEPT ![w] = Idle]
    /\ UNCHANGED <<refunds, phase, gatewayOut>>

-----------------------------------------------------------------------------
(* POST /admin/refunds *)

\* Bound: the rows of a payment, and what its gateway returned, stay small.
UnderCap(p, a) ==
    /\ a + gatewayOut[p] <= RefundCap
    /\ a + refunds[p]["APPROVED"] + refunds[p]["PROCESSED"]
         + refunds[p]["FAILED"] <= RefundCap

\* providers.byKey(...).refundPayment(...): external.  The offline adapter
\* only approves; a gateway may process, fail or defer.  No adapter has the
\* key "unknown", so that request throws before anything happens.
ProviderOutcomes(provider) ==
    CASE provider = "offline" -> {"APPROVED"}
      [] provider = "online"  -> RefundStatuses
      [] OTHER                -> {}

\* The read and checks of refund, and the provider's answer to it.
RefundRead(w, p, a) ==
    /\ proc[w] = Idle
    /\ payment[p].status \in {"SUCCEEDED", "PARTIALLY_REFUNDED"}
    /\ a <= payment[p].amount - payment[p].refunded
    /\ UnderCap(p, a)
    /\ \E outcome \in ProviderOutcomes(payment[p].provider) :
          /\ proc' = [proc EXCEPT ![w] =
                         [pc |-> "refund", payment |-> p, amount |-> a,
                          refunded |-> payment[p].refunded, outcome |-> outcome]]
          /\ gatewayOut' = IF outcome = "PROCESSED"
                           THEN [gatewayOut EXCEPT ![p] = @ + a]
                           ELSE gatewayOut
    /\ UNCHANGED <<invoice, payment, refunds, balance, phase>>

\* Defect: a refund the provider only approved, or failed, counts as processed.
RefundRecordAsProcessed(w) ==
    /\ proc[w].pc = "refund"
    /\ proc[w].outcome # "PROCESSED"
    /\ refunds' = [refunds EXCEPT ![proc[w].payment]["PROCESSED"] =
                      @ + proc[w].amount]
    /\ proc' = [proc EXCEPT ![w] = Idle]
    /\ UNCHANGED <<invoice, payment, balance, phase, gatewayOut>>

\* A refund that was not processed only leaves its Refund row.
RefundRecord(w) ==
    /\ proc[w].pc = "refund"
    /\ proc[w].outcome # "PROCESSED"
    /\ refunds' = [refunds EXCEPT ![proc[w].payment][proc[w].outcome] =
                      @ + proc[w].amount]
    /\ proc' = [proc EXCEPT ![w] = Idle]
    /\ UNCHANGED <<invoice, payment, balance, phase, gatewayOut>>

\* Defect: an invoice the refund leaves unpaid is late whatever its due date.
PastDueAlways(i) == TRUE

\* dueDate < Date.now(), the due date being midnight of the due day.
PastDueInstant(i) == phase[i] # "before"

\* A processed refund: refund.create and payment.update, which locks the
\* payment row until commit, then the read of reversePayment, which judges the
\* due date there and then, before it awaits its update.
RefundReverse(w) ==
    /\ proc[w].pc = "refund"
    /\ proc[w].outcome = "PROCESSED"
    /\ \A v \in Procs : proc[v].pc = "reversePayment"
                            => proc[v].payment # proc[w].payment
    /\ proc' = [proc EXCEPT ![w] =
                   [pc |-> "reversePayment", payment |-> proc[w].payment,
                    amount |-> proc[w].amount, refunded |-> proc[w].refunded,
                    read |-> invoice[payment[proc[w].payment].invoice],
                    overdue |-> PastDueInstant(payment[proc[w].payment].invoice)]]
    /\ UNCHANGED <<invoice, payment, refunds, balance, phase, gatewayOut>>

\* The absolute refundedAmount and status, from the row read at the start.
RefundedPayment(row, sum) ==
    [row EXCEPT !.refunded = sum,
                !.status = IF sum >= row.amount
                           THEN "REFUNDED" ELSE "PARTIALLY_REFUNDED"]

RefundCommit(w) ==
    /\ proc[w].pc = "reversePayment"
    /\ LET p == proc[w].payment
           a == proc[w].amount
           i == payment[p].invoice
       IN  /\ refunds' = [refunds EXCEPT ![p]["PROCESSED"] = @ + a]
           /\ payment' = [payment EXCEPT ![p] =
                             RefundedPayment(@, proc[w].refunded + a)]
           /\ invoice' = [invoice EXCEPT ![i] =
                             ReversePayment(proc[w].read, a, proc[w].overdue)]
    /\ proc' = [proc EXCEPT ![w] = Idle]
    /\ UNCHANGED <<balance, phase, gatewayOut>>

-----------------------------------------------------------------------------
(* The daily markOverdue job *)

\* dueDate < startOfDay(now): the due day itself does not count.
PastDueDay(i) == phase[i] = "after"

\* Defect: partly paid invoices are forgotten.
CandidateUntouched(i) == invoice[i].status \in {"GENERATED", "PENDING"} /\ PastDueDay(i)

IsOverdueCandidate(i) ==
    invoice[i].status \in OverdueCandidates /\ PastDueDay(i)

MarkOverdueRead(w) ==
    /\ proc[w] = Idle
    /\ \E i \in Invoices : IsOverdueCandidate(i)
    /\ proc' = [proc EXCEPT ![w] =
                   [pc |-> "markOverdue",
                    todo |-> {i \in Invoices : IsOverdueCandidate(i)}]]
    /\ UNCHANGED <<invoice, payment, refunds, balance, phase, gatewayOut>>

\* One update of the loop: by id, whatever the row has become meanwhile.
MarkOverdueUpdate(w, i) ==
    /\ proc[w].pc = "markOverdue"
    /\ i \in proc[w].todo
    /\ invoice' = [invoice EXCEPT ![i].status = "OVERDUE"]
    /\ proc' = [proc EXCEPT ![w] =
                   IF proc[w].todo = {i} THEN Idle
                   ELSE [pc |-> "markOverdue", todo |-> proc[w].todo \ {i}]]
    /\ UNCHANGED <<payment, refunds, balance, phase, gatewayOut>>

-----------------------------------------------------------------------------
(* The environment *)

\* A process dies or a call it awaits throws: its transaction rolls back, and
\* what it had already committed, or made the gateway do, stays.
Abandon(w) ==
    /\ proc[w] # Idle
    /\ proc' = [proc EXCEPT ![w] = Idle]
    /\ UNCHANGED <<invoice, payment, refunds, balance, phase, gatewayOut>>

\* The calendar: before the due day, on it, after it.
DayPasses(i) ==
    /\ phase[i] # "after"
    /\ phase' = [phase EXCEPT ![i] = IF @ = "before" THEN "dueDay" ELSE "after"]
    /\ UNCHANGED <<invoice, payment, refunds, balance, gatewayOut, proc>>

MarkPaid(w) == \/ \E i \in Invoices : MarkPaidRead(w, i)
               \/ MarkPaidApply(w)
               \/ \E p \in Payments : MarkPaidCommit(w, p)

Refund(w) == \/ \E p \in Issued : \E a \in 1..RefundCap : RefundRead(w, p, a)
             \/ RefundRecord(w)
             \/ RefundReverse(w)
             \/ RefundCommit(w)

MarkOverdue(w) == \/ MarkOverdueRead(w)
                  \/ \E i \in Invoices : MarkOverdueUpdate(w, i)

Next == \/ \E w \in Procs : MarkPaid(w) \/ Refund(w) \/ MarkOverdue(w) \/ Abandon(w)
        \/ \E i \in Invoices : DayPasses(i)

Spec == Init /\ [][Next]_vars

\* Every await ends: a call returns, or it throws or times out.
Proceed(w) == \/ MarkPaidApply(w)
              \/ \E p \in Payments : MarkPaidCommit(w, p)
              \/ RefundRecord(w) \/ RefundReverse(w) \/ RefundCommit(w)
              \/ Abandon(w)

\* The job runs every day, and a run that dies is followed by others: not
\* every one of them can die before it reaches the same invoice.
Fairness == /\ WF_vars(Proceed(Scheduler))
            /\ SF_vars(MarkOverdueRead(Scheduler))
            /\ \A i \in Invoices : SF_vars(MarkOverdueUpdate(Scheduler, i))

FairSpec == Spec /\ Fairness

-----------------------------------------------------------------------------
(* Properties *)

TypeOK ==
    /\ invoice \in [Invoices -> InvoiceRow]
    /\ payment \in [Payments -> {NoPayment} \cup PaymentRow]
    /\ refunds \in [Payments -> [RefundStatuses -> Nat]]
    /\ balance \in [Customers -> Int]
    /\ phase \in [Invoices -> {"before", "dueDay", "after"}]
    /\ gatewayOut \in [Payments -> Nat]
    /\ proc \in [Procs -> ProcState]

PaymentsOf(i) == {p \in Issued : payment[p].invoice = i}
PaidIn(i) == MapThenSumSet(LAMBDA p : payment[p].amount, PaymentsOf(i))
Processed(i) == MapThenSumSet(LAMBDA p : refunds[p]["PROCESSED"], PaymentsOf(i))

\* The status and the money of one invoice row never contradict each other in
\* the directions every writer keeps: applyPayment and reversePayment derive
\* the status from the amount they write, markOverdue leaves the amount.
StatusMatchesMoney ==
    \A i \in Invoices :
        /\ invoice[i].status = "PAID" => invoice[i].paid >= Total[i]
        /\ invoice[i].status \in {"GENERATED", "PENDING"} => invoice[i].paid = 0
        /\ invoice[i].status = "PARTIALLY_PAID" => invoice[i].paid > 0

\* An invoice is never credited with more than its payment rows add up to,
\* however many staff mark it paid or refund it at the same moment: "an invoice
\* can never be marked paid without the matching payment row".
NoCreditWithoutPayment ==
    \A i \in Invoices : invoice[i].paid <= PaidIn(i)

\* payment.refundedAmount stays within the payment and its status names it,
\* even when refunds of one payment overlap and overwrite each other.
RefundColumnMatchesStatus ==
    \A p \in Issued :
        /\ payment[p].refunded <= payment[p].amount
        /\ payment[p].status = "SUCCEEDED" <=> payment[p].refunded = 0
        /\ payment[p].status = "REFUNDED" <=> payment[p].refunded = payment[p].amount

\* A Refund row is PROCESSED only for money the gateway really returned,
\* though a request that dies after the call may leave no row at all.
NoPhantomRefund == \A p \in Payments : refunds[p]["PROCESSED"] <= gatewayOut[p]

\* No writer makes an invoice overdue before its due day: markOverdue and
\* reversePayment each look at the calendar before they await their update.
NotOverdueBeforeDue ==
    \A i \in Invoices : invoice[i].status = "OVERDUE" => phase[i] # "before"

\* markOverdue: an invoice past its due day does not stay unpaid and unflagged.
UnpaidIsFlagged ==
    \A i \in Invoices :
        (/\ phase[i] = "after"
         /\ invoice[i].status \in {"GENERATED", "PENDING", "PARTIALLY_PAID"})
            ~> invoice[i].status \in {"PAID", "OVERDUE"}

\* The ledger of each invoice: what is credited is what was paid in less what
\* was processed back.  "An invoice can never be marked paid without the
\* matching payment row - or the reverse" (applyPayment).
LedgerExact ==
    \A i \in Invoices : invoice[i].paid = PaidIn(i) - Processed(i)

\* Requests that do not overlap are atomic: every committed write is the one
\* ledger step its request stands for, and everything else it does is invisible.
\* The calendar does not wait for a request: what a refund takes off is exact,
\* but its verdict on the due date is the one it reached before it awaited.
Ledger == INSTANCE InvoiceLedger WITH
    Invoices <- Invoices, Customers <- Customers, Owner <- Owner, Total <- Total,
    Payments <- Payments, Legacy <- Legacy, LegacyInvoice <- LegacyInvoice,
    LegacyProvider <- LegacyProvider,
    invoice <- invoice, payment <- payment, refunds <- refunds,
    balance <- balance, phase <- phase
ImplementsLedger == Ledger!Spec

\* "The invoice is adjusted in the same transaction" as the Refund row
\* (docs/payments.md): every refund issued shows on its payment, and never
\* comes to more than was paid ("Refund exceeds the remaining paid amount").
RefundsWithinPayment ==
    \A p \in Issued : refunds[p]["APPROVED"] + refunds[p]["PROCESSED"]
                          <= payment[p].amount
=============================================================================
