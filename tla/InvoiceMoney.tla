---------------------------- MODULE InvoiceMoney ----------------------------
(***************************************************************************)
(* The arithmetic of one invoice row, shared by every module that moves    *)
(* money: apps/api/src/modules/billing/invoices.service.ts.                *)
(* A row is a record [paid, status]; amounts are integers in the smallest  *)
(* currency unit, which is what Decimal(12, 2) and roundMoney keep exact.  *)
(***************************************************************************)
EXTENDS Integers

\* The enum InvoiceStatus of the Prisma schema.
InvoiceStatuses ==
    {"DRAFT", "GENERATED", "PENDING", "PARTIALLY_PAID", "PAID", "OVERDUE",
     "CANCELLED", "REFUNDED"}

\* PAYABLE: the statuses from which an invoice can still be paid.
Payable == {"GENERATED", "PENDING", "PARTIALLY_PAID", "OVERDUE"}

\* The statuses markOverdue looks for.
OverdueCandidates == {"GENERATED", "PENDING", "PARTIALLY_PAID"}

InvoiceRow == [paid: Nat, status: InvoiceStatuses]

\* What markPaid and loadPayable demand before money may be taken.
IsPayable(row, total) == row.status \in Payable /\ total - row.paid > 0

\* applyPayment: the new absolute amountPaid and the status that goes with it.
ApplyPayment(row, total, amount) ==
    LET paid == row.paid + amount
    IN  [paid   |-> paid,
         status |-> IF total - paid <= 0 THEN "PAID"
                    ELSE IF paid > 0 THEN "PARTIALLY_PAID"
                    ELSE row.status]

\* Defect: no clamp, so overlapping refunds leave a negative amount paid.
ReverseUnclamped(row, amount, overdue) ==
    [paid   |-> row.paid - amount,
     status |-> IF row.paid # amount THEN "PARTIALLY_PAID"
                ELSE IF overdue THEN "OVERDUE" ELSE "PENDING"]

\* Defect: a partial refund leaves the status as it was.
ReverseKeepingStatus(row, amount, overdue) ==
    LET paid == IF row.paid - amount < 0 THEN 0 ELSE row.paid - amount
    IN  [paid   |-> paid,
         status |-> IF paid # 0 THEN row.status
                    ELSE IF overdue THEN "OVERDUE" ELSE "PENDING"]

\* Defect: any refund takes back the whole payment.
ReverseWhole(row, amount, overdue) ==
    [paid |-> 0, status |-> IF overdue THEN "OVERDUE" ELSE "PENDING"]

\* reversePayment: clamped at zero; a row with nothing paid is unpaid again.
ReversePayment(row, amount, overdue) ==
    LET paid == IF row.paid - amount < 0 THEN 0 ELSE row.paid - amount
    IN  [paid   |-> paid,
         status |-> IF paid # 0 THEN "PARTIALLY_PAID"
                    ELSE IF overdue THEN "OVERDUE"
                    ELSE "PENDING"]
=============================================================================
