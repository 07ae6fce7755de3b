--------------------------- MODULE InvoiceLedger ----------------------------
(***************************************************************************)
(* What settlement promises: marking an invoice paid, refunding a payment  *)
(* and flagging an overdue invoice are single steps on the ledger, each    *)
(* taken only when the rows, as they are at that instant, allow it.        *)
(* Settlement is shown to implement this when its requests do not overlap; *)
(* what overlap breaks is the subject of the properties stated there.      *)
(***************************************************************************)
EXTENDS InvoiceMoney

CONSTANTS Invoices, Customers, Owner, Total, Payments,
          Legacy, LegacyInvoice, LegacyProvider

VARIABLES invoice, payment, refunds, balance, phase

ledgerVars == <<invoice, payment, refunds, balance, phase>>

RefundStatuses == {"APPROVED", "PROCESSED", "FAILED"}
NoPayment == [status |-> "none"]

LegacyPaid == {LegacyInvoice[p] : p \in Legacy}

Init ==
    /\ invoice = [i \in Invoices |->
                     IF i \in LegacyPaid
                     THEN [paid |-> Total[i], status |-> "PAID"]
                     ELSE [paid |-> 0, status |-> "GENERATED"]]
    /\ payment = [p \in Payments |->
                     IF p \in Legacy
                     THEN [status |-> "SUCCEEDED", invoice |-> LegacyInvoice[p],
                           amount |-> Total[LegacyInvoice[p]],
                           provider |-> LegacyProvider[p], refunded |-> 0]
                     ELSE NoPayment]
    /\ refunds = [p \in Payments |-> [s \in RefundStatuses |-> 0]]
    /\ balance = [c \in Customers |-> 0]
    /\ phase = [i \in Invoices |-> "before"]

\* The whole amount due is paid offline, exactly once.
MarkPaid(i, p) ==
    /\ IsPayable(invoice[i], Total[i])
    /\ payment[p] = NoPayment
    /\ LET due == Total[i] - invoice[i].paid
       IN  /\ invoice' = [invoice EXCEPT ![i] = [paid |-> Total[i], status |-> "PAID"]]
           /\ payment' = [payment EXCEPT ![p] =
                             [status |-> "SUCCEEDED", invoice |-> i, amount |-> due,
                              provider |-> "offline", refunded |-> 0]]
           /\ balance' = [balance EXCEPT ![Owner[i]] = @ - due]
    /\ UNCHANGED <<refunds, phase>>

\* What a refund may say of the due date when it takes effect: that it has passed,
\* only if it has; that it has not, even if it passed while the refund was under
\* way.  The invoice is then PENDING past its due date, and MarkOverdue flags it.
Verdicts(i) == {overdue \in BOOLEAN : overdue => phase[i] # "before"}

\* A refund the gateway processed comes off the payment and off its invoice.
RefundProcessed(p, a) ==
    /\ payment[p].status \in {"SUCCEEDED", "PARTIALLY_REFUNDED"}
    /\ payment[p].provider = "online"
    /\ a <= payment[p].amount - payment[p].refunded
    /\ LET i == payment[p].invoice
           refunded == payment[p].refunded + a
       IN  /\ payment' = [payment EXCEPT
                 ![p].refunded = refunded,
                 ![p].status = IF refunded = payment[p].amount
                               THEN "REFUNDED" ELSE "PARTIALLY_REFUNDED"]
           /\ \E overdue \in Verdicts(i) :
                 invoice' = [invoice EXCEPT ![i] = ReversePayment(@, a, overdue)]
    /\ refunds' = [refunds EXCEPT ![p]["PROCESSED"] = @ + a]
    /\ UNCHANGED <<balance, phase>>

\* A refund that was only approved, or that failed, is noted and nothing more.
RefundNoted(p, a, s) ==
    /\ payment[p].status \in {"SUCCEEDED", "PARTIALLY_REFUNDED"}
    /\ a <= payment[p].amount - payment[p].refunded
    /\ s \in {"APPROVED", "FAILED"}
    /\ refunds' = [refunds EXCEPT ![p][s] = @ + a]
    /\ UNCHANGED <<invoice, payment, balance, phase>>

\* Only an invoice that is unpaid now, and past its due day now, is flagged.
MarkOverdue(i) ==
    /\ invoice[i].status \in OverdueCandidates
    /\ phase[i] = "after"
    /\ invoice' = [invoice EXCEPT ![i].status = "OVERDUE"]
    /\ UNCHANGED <<payment, refunds, balance, phase>>

DayPasses(i) ==
    /\ phase[i] # "after"
    /\ phase' = [phase EXCEPT ![i] = IF @ = "before" THEN "dueDay" ELSE "after"]
    /\ UNCHANGED <<invoice, payment, refunds, balance>>

Next ==
    \/ \E i \in Invoices, p \in Payments : MarkPaid(i, p)
    \/ \E p \in {q \in Payments : payment[q] # NoPayment} :
          \E a \in 1..payment[p].amount :
             RefundProcessed(p, a) \/ \E s \in RefundStatuses : RefundNoted(p, a, s)
    \/ \E i \in Invoices : MarkOverdue(i) \/ DayPasses(i)

Spec == Init /\ [][Next]_ledgerVars
=============================================================================
