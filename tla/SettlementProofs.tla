-------------------------- MODULE SettlementProofs --------------------------
(***************************************************************************)
(* Theorems about Settlement, for every set of processes, invoices and     *)
(* payments, every total and every bound.                                  *)
(***************************************************************************)
EXTENDS Settlement, FiniteSetTheorems, TLAPS

\* The program counter of a process tells which record it holds.
LEMMA ProcKinds ==
    ASSUME NEW q \in ProcState
    PROVE  /\ q.pc = "markPaid" => q \in MarkingPaid
           /\ q.pc = "applyPayment" => q \in ApplyingPaid
           /\ q.pc = "refund" => q \in Refunding
           /\ q.pc = "reversePayment" => q \in Reversing
           /\ q.pc = "markOverdue" => q \in MarkingOverdue
  BY DEF ProcState, Idle, MarkingPaid, ApplyingPaid, Refunding, Reversing,
         MarkingOverdue

\* What applyPayment writes is a row, with the money that was added.
LEMMA ApplyPaymentRow ==
    ASSUME NEW row \in InvoiceRow, NEW total \in Nat, NEW amount \in Nat \ {0}
    PROVE  /\ ApplyPayment(row, total, amount) \in InvoiceRow
           /\ ApplyPayment(row, total, amount).paid = row.paid + amount
           /\ ApplyPayment(row, total, amount).paid > 0
           /\ ApplyPayment(row, total, amount).status =
                 IF row.paid + amount >= total THEN "PAID" ELSE "PARTIALLY_PAID"
  BY DEF ApplyPayment, InvoiceRow, InvoiceStatuses

\* What reversePayment writes is a row that is unpaid again when nothing is left.
LEMMA ReversePaymentRow ==
    ASSUME NEW row \in InvoiceRow, NEW amount \in Nat, NEW overdue \in BOOLEAN
    PROVE  /\ ReversePayment(row, amount, overdue) \in InvoiceRow
           /\ \/ /\ ReversePayment(row, amount, overdue).paid > 0
                 /\ ReversePayment(row, amount, overdue).status = "PARTIALLY_PAID"
              \/ /\ ReversePayment(row, amount, overdue).paid = 0
                 /\ overdue
                 /\ ReversePayment(row, amount, overdue).status = "OVERDUE"
              \/ /\ ReversePayment(row, amount, overdue).paid = 0
                 /\ ~overdue
                 /\ ReversePayment(row, amount, overdue).status = "PENDING"
  BY DEF ReversePayment, InvoiceRow, InvoiceStatuses

\* A refund writes the two columns together and leaves the rest of the row.
LEMMA RefundedPaymentRow ==
    ASSUME NEW row \in PaymentRow, NEW sum \in Nat
    PROVE  /\ RefundedPayment(row, sum) \in PaymentRow
           /\ RefundedPayment(row, sum).amount = row.amount
           /\ RefundedPayment(row, sum).invoice = row.invoice
           /\ RefundedPayment(row, sum).provider = row.provider
           /\ RefundedPayment(row, sum).refunded = sum
           /\ RefundedPayment(row, sum).status =
                 IF sum >= row.amount THEN "REFUNDED" ELSE "PARTIALLY_REFUNDED"
  BY DEF RefundedPayment, PaymentRow, PaymentStatuses

-----------------------------------------------------------------------------
(* Type correctness *)

LEMMA InitTypeOK == Init => TypeOK
  <1> SUFFICES ASSUME Init PROVE TypeOK
    OBVIOUS
  <1> USE ConstantsAssumption
  <1>1. invoice \in [Invoices -> InvoiceRow]
    BY DEF Init, InvoiceRow, InvoiceStatuses
  <1>2. payment \in [Payments -> {NoPayment} \cup PaymentRow]
    BY DEF Init, PaymentRow, PaymentStatuses, Providers
  <1>3. refunds \in [Payments -> [RefundStatuses -> Nat]]
    BY DEF Init
  <1>4. proc \in [Procs -> ProcState]
    BY DEF Init, ProcState
  <1> QED
    BY <1>1, <1>2, <1>3, <1>4 DEF Init, TypeOK

\* A payment that a process refunds has been issued, and stays issued.
RefundsIssued ==
    \A w \in Procs : proc[w].pc \in {"refund", "reversePayment"}
                        => payment[proc[w].payment] \in PaymentRow

TypeInv == TypeOK /\ RefundsIssued

LEMMA TypeInvStep == TypeInv /\ [Next]_vars => TypeInv'
  <1> SUFFICES ASSUME TypeInv, [Next]_vars PROVE TypeInv'
    OBVIOUS
  <1> USE ConstantsAssumption DEF TypeInv
  <1>a. TypeOK /\ RefundsIssued
    OBVIOUS
  <1>b. \A w \in Procs : proc[w] \in ProcState
    BY DEF TypeOK
  <1>1. ASSUME NEW w \in Procs, NEW i \in Invoices, MarkPaidRead(w, i)
        PROVE  TypeInv'
    <2>1. [pc |-> "markPaid", invoice |-> i,
           amount |-> Total[i] - invoice[i].paid] \in MarkingPaid
      BY <1>1 DEF MarkPaidRead, IsPayable, TypeOK, InvoiceRow, MarkingPaid
    <2>2. proc' \in [Procs -> ProcState]
      BY <1>1, <2>1 DEF MarkPaidRead, TypeOK, ProcState
    <2> QED
      BY <1>1, <2>2 DEF MarkPaidRead, TypeOK, RefundsIssued
  <1>2. ASSUME NEW w \in Procs, MarkPaidApply(w)
        PROVE  TypeInv'
    <2>1. proc[w] \in MarkingPaid
      BY <1>2, <1>b, ProcKinds DEF MarkPaidApply
    <2>2. [pc |-> "applyPayment", invoice |-> proc[w].invoice,
           amount |-> proc[w].amount, read |-> invoice[proc[w].invoice]]
              \in ApplyingPaid
      BY <2>1 DEF MarkingPaid, ApplyingPaid, TypeOK
    <2>3. proc' \in [Procs -> ProcState]
      BY <1>2, <2>2 DEF MarkPaidApply, TypeOK, ProcState
    <2> QED
      BY <1>2, <2>3 DEF MarkPaidApply, TypeOK, RefundsIssued
  <1>3. ASSUME NEW w \in Procs, NEW p \in Payments, MarkPaidCommit(w, p)
        PROVE  TypeInv'
    <2>1. proc[w] \in ApplyingPaid
      BY <1>3, <1>b, ProcKinds DEF MarkPaidCommit
    <2> DEFINE i == proc[w].invoice
               a == proc[w].amount
    <2>2. i \in Invoices /\ a \in Nat \ {0} /\ proc[w].read \in InvoiceRow
      BY <2>1 DEF ApplyingPaid
    <2>3. invoice' \in [Invoices -> InvoiceRow]
      BY <1>3, <2>2, ApplyPaymentRow DEF MarkPaidCommit, TypeOK
    <2>4. [status |-> "SUCCEEDED", invoice |-> i, amount |-> a,
           provider |-> "offline", refunded |-> 0] \in PaymentRow
      BY <2>2 DEF PaymentRow, PaymentStatuses, Providers
    <2>5. payment' \in [Payments -> {NoPayment} \cup PaymentRow]
      BY <1>3, <2>4 DEF MarkPaidCommit, TypeOK
    <2>6. balance' \in [Customers -> Int]
      BY <1>3, <2>2 DEF MarkPaidCommit, TypeOK
    <2>7. proc' \in [Procs -> ProcState]
      BY <1>3 DEF MarkPaidCommit, TypeOK, ProcState
    <2>8. RefundsIssued'
      BY <1>3, <2>4 DEF MarkPaidCommit, TypeOK, RefundsIssued, Idle,
         NoPayment, PaymentRow, PaymentStatuses
    <2> QED
      BY <1>3, <2>3, <2>5, <2>6, <2>7, <2>8 DEF MarkPaidCommit, TypeOK
  <1>4. ASSUME NEW w \in Procs, NEW p \in Issued, NEW a \in 1..RefundCap,
               RefundRead(w, p, a)
        PROVE  TypeInv'
    <2>1. p \in Payments /\ payment[p] \in PaymentRow
      BY DEF Issued, TypeOK
    <2>2. PICK outcome \in ProviderOutcomes(payment[p].provider) :
             /\ proc' = [proc EXCEPT ![w] =
                            [pc |-> "refund", payment |-> p, amount |-> a,
                             refunded |-> payment[p].refunded, outcome |-> outcome]]
             /\ gatewayOut' = IF outcome = "PROCESSED"
                              THEN [gatewayOut EXCEPT ![p] = @ + a]
                              ELSE gatewayOut
      BY <1>4 DEF RefundRead
    <2>3. outcome \in RefundStatuses
      BY <2>1, <2>2 DEF ProviderOutcomes, RefundStatuses, PaymentRow, Providers
    <2>4. [pc |-> "refund", payment |-> p, amount |-> a,
           refunded |-> payment[p].refunded, outcome |-> outcome] \in Refunding
      BY <2>1, <2>3 DEF Refunding, PaymentRow
    <2>5. proc' \in [Procs -> ProcState]
      BY <2>2, <2>4 DEF TypeOK, ProcState
    <2>6. gatewayOut' \in [Payments -> Nat]
      BY <2>1, <2>2 DEF TypeOK
    <2>7. RefundsIssued'
      BY <1>4, <2>1, <2>2 DEF RefundRead, TypeOK, RefundsIssued
    <2> QED
      BY <1>4, <2>5, <2>6, <2>7 DEF RefundRead, TypeOK
  <1>5. ASSUME NEW w \in Procs, RefundRecord(w)
        PROVE  TypeInv'
    <2>1. proc[w] \in Refunding
      BY <1>5, <1>b, ProcKinds DEF RefundRecord
    <2>2. refunds' \in [Payments -> [RefundStatuses -> Nat]]
      BY <1>5, <2>1 DEF RefundRecord, Refunding, TypeOK
    <2>3. proc' \in [Procs -> ProcState]
      BY <1>5 DEF RefundRecord, TypeOK, ProcState
    <2> QED
      BY <1>5, <2>2, <2>3 DEF RefundRecord, TypeOK, RefundsIssued, Idle
  <1>6. ASSUME NEW w \in Procs, RefundReverse(w)
        PROVE  TypeInv'
    <2>1. proc[w] \in Refunding
      BY <1>6, <1>b, ProcKinds DEF RefundReverse
    <2>2. payment[proc[w].payment] \in PaymentRow
      BY <1>6 DEF RefundsIssued, RefundReverse
    <2>3. [pc |-> "reversePayment", payment |-> proc[w].payment,
           amount |-> proc[w].amount, refunded |-> proc[w].refunded,
           read |-> invoice[payment[proc[w].payment].invoice],
           overdue |-> PastDueInstant(payment[proc[w].payment].invoice)] \in Reversing
      BY <2>1, <2>2 DEF Refunding, Reversing, PaymentRow, TypeOK, PastDueInstant
    <2>4. proc' \in [Procs -> ProcState]
      BY <1>6, <2>3 DEF RefundReverse, TypeOK, ProcState
    <2>5. RefundsIssued'
      BY <1>6, <2>2 DEF RefundReverse, TypeOK, RefundsIssued
    <2> QED
      BY <1>6, <2>4, <2>5 DEF RefundReverse, TypeOK
  <1>7. ASSUME NEW w \in Procs, RefundCommit(w)
        PROVE  TypeInv'
    <2>1. proc[w] \in Reversing
      BY <1>7, <1>b, ProcKinds DEF RefundCommit
    <2> DEFINE p == proc[w].payment
               a == proc[w].amount
               i == payment[p].invoice
    <2>2. /\ p \in Payments /\ a \in Nat \ {0} /\ proc[w].refunded \in Nat
          /\ proc[w].read \in InvoiceRow /\ proc[w].overdue \in BOOLEAN
      BY <2>1 DEF Reversing
    <2>3. payment[p] \in PaymentRow /\ i \in Invoices
      BY <1>7 DEF RefundsIssued, RefundCommit, PaymentRow
    <2>4. RefundedPayment(payment[p], proc[w].refunded + a) \in PaymentRow
      <3>1. proc[w].refunded + a \in Nat
        BY <2>2
      <3> QED
        BY <2>3, <3>1, RefundedPaymentRow
    <2>5. payment' \in [Payments -> {NoPayment} \cup PaymentRow]
      BY <1>7, <2>2, <2>4 DEF RefundCommit, TypeOK
    <2>6. invoice' \in [Invoices -> InvoiceRow]
      BY <1>7, <2>2, <2>3, ReversePaymentRow DEF RefundCommit, TypeOK
    <2>7. refunds' \in [Payments -> [RefundStatuses -> Nat]]
      BY <1>7, <2>2 DEF RefundCommit, TypeOK, RefundStatuses
    <2>8. proc' \in [Procs -> ProcState]
      BY <1>7 DEF RefundCommit, TypeOK, ProcState
    <2>9. RefundsIssued'
      BY <1>7, <2>2, <2>4 DEF RefundCommit, TypeOK, RefundsIssued, Idle
    <2> QED
      BY <1>7, <2>5, <2>6, <2>7, <2>8, <2>9 DEF RefundCommit, TypeOK
  <1>8. ASSUME NEW w \in Procs, MarkOverdueRead(w)
        PROVE  TypeInv'
    <2>1. [pc |-> "markOverdue", todo |-> {i \in Invoices : IsOverdueCandidate(i)}]
             \in MarkingOverdue
      BY DEF MarkingOverdue
    <2>2. proc' \in [Procs -> ProcState]
      BY <1>8, <2>1 DEF MarkOverdueRead, TypeOK, ProcState
    <2> QED
      BY <1>8, <2>2 DEF MarkOverdueRead, TypeOK, RefundsIssued
  <1>9. ASSUME NEW w \in Procs, NEW i \in Invoices, MarkOverdueUpdate(w, i)
        PROVE  TypeInv'
    <2>1. proc[w] \in MarkingOverdue
      BY <1>9, <1>b, ProcKinds DEF MarkOverdueUpdate
    <2>2. invoice' \in [Invoices -> InvoiceRow]
      BY <1>9 DEF MarkOverdueUpdate, TypeOK, InvoiceRow, InvoiceStatuses
    <2>3. [pc |-> "markOverdue", todo |-> proc[w].todo \ {i}] \in MarkingOverdue
      BY <2>1 DEF MarkingOverdue
    <2>4. proc' \in [Procs -> ProcState]
      BY <1>9, <2>3 DEF MarkOverdueUpdate, TypeOK, ProcState
    <2> QED
      BY <1>9, <2>2, <2>4 DEF MarkOverdueUpdate, TypeOK, RefundsIssued, Idle
  <1>10. ASSUME NEW w \in Procs, Abandon(w)
         PROVE  TypeInv'
    <2>1. proc' \in [Procs -> ProcState]
      BY <1>10 DEF Abandon, TypeOK, ProcState
    <2> QED
      BY <1>10, <2>1 DEF Abandon, TypeOK, RefundsIssued, Idle
  <1>11. ASSUME NEW i \in Invoices, DayPasses(i)
         PROVE  TypeInv'
    BY <1>11 DEF DayPasses, TypeOK, RefundsIssued
  <1>12. CASE UNCHANGED vars
    BY <1>12 DEF vars, TypeOK, RefundsIssued
  <1> QED
    BY <1>1, <1>2, <1>3, <1>4, <1>5, <1>6, <1>7, <1>8, <1>9, <1>10, <1>11, <1>12
       DEF Next, MarkPaid, Refund, MarkOverdue

\* Every reachable state is well typed: each process holds the record its
\* program counter announces, whatever the requests and job runs in flight.
THEOREM TypeCorrect == Spec => []TypeInv
  <1>1. Init => TypeInv
    BY InitTypeOK DEF Init, TypeInv, RefundsIssued, Idle
  <1> QED
    BY <1>1, TypeInvStep, PTL DEF Spec

\* Type correctness alone, the invariant the runs check.
THEOREM TypeOKHolds == Spec => []TypeOK
  BY TypeCorrect, PTL DEF TypeInv

-----------------------------------------------------------------------------
(* The status of an invoice against its money and against the calendar *)

\* A run of markOverdue only holds invoices whose due day is over: the
\* calendar does not go back while the run works.
TodoIsPastDue ==
    \A w \in Procs : proc[w].pc = "markOverdue"
                        => \A i \in proc[w].todo : phase[i] = "after"

\* What reversePayment found past its due date still is when it writes.
VerdictStands ==
    \A w \in Procs : proc[w].pc = "reversePayment" /\ proc[w].overdue
                        => phase[payment[proc[w].payment].invoice] # "before"

InvoiceInv ==
    /\ StatusMatchesMoney /\ NotOverdueBeforeDue
    /\ TodoIsPastDue /\ VerdictStands

LEMMA InitInvoiceInv == Init => InvoiceInv
  <1> SUFFICES ASSUME Init PROVE InvoiceInv
    OBVIOUS
  <1>1. \A i \in Invoices :
           \/ invoice[i].paid = Total[i] /\ invoice[i].status = "PAID"
           \/ invoice[i].paid = 0 /\ invoice[i].status = "GENERATED"
    BY DEF Init
  <1>2. StatusMatchesMoney
    BY <1>1, ConstantsAssumption DEF StatusMatchesMoney
  <1>3. NotOverdueBeforeDue
    BY <1>1 DEF NotOverdueBeforeDue
  <1> QED
    BY <1>2, <1>3 DEF Init, InvoiceInv, TodoIsPastDue, VerdictStands, Idle

LEMMA InvoiceInvStep == TypeInv /\ InvoiceInv /\ [Next]_vars => InvoiceInv'
  <1> SUFFICES ASSUME TypeInv, InvoiceInv, [Next]_vars PROVE InvoiceInv'
    OBVIOUS
  <1> USE ConstantsAssumption
  <1>a. TypeOK /\ RefundsIssued /\ StatusMatchesMoney /\ NotOverdueBeforeDue
        /\ TodoIsPastDue /\ VerdictStands
    BY DEF TypeInv, InvoiceInv
  <1>b. \A w \in Procs : proc[w] \in ProcState
    BY <1>a DEF TypeOK
  <1>c. ASSUME UNCHANGED <<invoice, phase>>
        PROVE  StatusMatchesMoney' /\ NotOverdueBeforeDue'
    BY <1>a, <1>c DEF StatusMatchesMoney, NotOverdueBeforeDue
  <1>d. ASSUME UNCHANGED <<payment, phase>>,
               \A w \in Procs : proc'[w].pc = "reversePayment" => proc'[w] = proc[w]
        PROVE  VerdictStands'
    BY <1>a, <1>d DEF VerdictStands
  <1>1. ASSUME NEW w \in Procs, NEW i \in Invoices, MarkPaidRead(w, i)
        PROVE  InvoiceInv'
    BY <1>1, <1>a, <1>c, <1>d DEF MarkPaidRead, InvoiceInv, TypeOK, TodoIsPastDue
  <1>2. ASSUME NEW w \in Procs, MarkPaidApply(w)
        PROVE  InvoiceInv'
    BY <1>2, <1>a, <1>c, <1>d DEF MarkPaidApply, InvoiceInv, TypeOK, TodoIsPastDue
  <1>3. ASSUME NEW w \in Procs, NEW p \in Payments, MarkPaidCommit(w, p)
        PROVE  InvoiceInv'
    <2>1. proc[w] \in ApplyingPaid
      BY <1>3, <1>b, ProcKinds DEF MarkPaidCommit
    <2> DEFINE i == proc[w].invoice
               new == ApplyPayment(proc[w].read, Total[i], proc[w].amount)
    <2>2. /\ i \in Invoices /\ Total[i] \in Nat \ {0}
          /\ proc[w].amount \in Nat \ {0} /\ proc[w].read \in InvoiceRow
      BY <2>1 DEF ApplyingPaid
    <2>3. /\ new.paid \in Nat /\ new.paid > 0
          /\ new.status = IF new.paid >= Total[i] THEN "PAID" ELSE "PARTIALLY_PAID"
      <3>1. new \in InvoiceRow
        BY <2>2, ApplyPaymentRow
      <3>2. /\ new.paid = proc[w].read.paid + proc[w].amount /\ new.paid > 0
            /\ new.status = IF proc[w].read.paid + proc[w].amount >= Total[i]
                            THEN "PAID" ELSE "PARTIALLY_PAID"
        BY ZenonT(30), <2>2, ApplyPaymentRow
      <3> QED
        BY <3>1, <3>2 DEF InvoiceRow
    <2> HIDE DEF new
    <2>4. invoice' = [invoice EXCEPT ![i] = new] /\ UNCHANGED phase
      BY <1>3 DEF MarkPaidCommit, new
    <2>5. StatusMatchesMoney' /\ NotOverdueBeforeDue'
      BY <1>a, <2>2, <2>3, <2>4 DEF TypeOK, StatusMatchesMoney, NotOverdueBeforeDue
    <2>6. TodoIsPastDue'
      BY <1>3, <1>a, <2>4 DEF MarkPaidCommit, TypeOK, TodoIsPastDue, Idle
    <2>7. VerdictStands'
      <3>1. /\ proc' = [proc EXCEPT ![w] = Idle] /\ payment[p] = NoPayment
            /\ \A q \in Payments \ {p} : payment'[q] = payment[q]
        BY <1>3, <1>a DEF MarkPaidCommit, TypeOK
      <3>2. \A v \in Procs : proc[v].pc = "reversePayment" =>
               /\ proc[v].payment \in Payments
               /\ payment[proc[v].payment] # NoPayment
        BY <1>a, <1>b, ProcKinds
           DEF RefundsIssued, Reversing, NoPayment, PaymentRow, PaymentStatuses
      <3> QED
        BY <1>a, <2>4, <3>1, <3>2 DEF VerdictStands, TypeOK, Idle
    <2> QED
      BY <2>5, <2>6, <2>7 DEF InvoiceInv
  <1>4. ASSUME NEW w \in Procs, NEW p \in Issued, NEW a \in 1..RefundCap,
               RefundRead(w, p, a)
        PROVE  InvoiceInv'
    BY <1>4, <1>a, <1>c, <1>d DEF RefundRead, InvoiceInv, TypeOK, TodoIsPastDue
  <1>5. ASSUME NEW w \in Procs, RefundRecord(w)
        PROVE  InvoiceInv'
    BY <1>5, <1>a, <1>c, <1>d
       DEF RefundRecord, InvoiceInv, TypeOK, TodoIsPastDue, Idle
  <1>6. ASSUME NEW w \in Procs, RefundReverse(w)
        PROVE  InvoiceInv'
    <2>1. TodoIsPastDue'
      BY <1>6, <1>a DEF RefundReverse, TypeOK, TodoIsPastDue
    <2>2. VerdictStands'
      BY <1>6, <1>a DEF RefundReverse, TypeOK, VerdictStands, PastDueInstant
    <2> QED
      BY <1>6, <1>c, <2>1, <2>2 DEF RefundReverse, InvoiceInv
  <1>7. ASSUME NEW w \in Procs, RefundCommit(w)
        PROVE  InvoiceInv'
    <2>1. proc[w] \in Reversing
      BY <1>7, <1>b, ProcKinds DEF RefundCommit
    <2> DEFINE i == payment[proc[w].payment].invoice
               new == ReversePayment(proc[w].read, proc[w].amount, proc[w].overdue)
    <2>2. /\ i \in Invoices /\ proc[w].overdue \in BOOLEAN
          /\ proc[w].amount \in Nat /\ proc[w].read \in InvoiceRow
          /\ proc[w].overdue => phase[i] # "before"
      BY <1>7, <1>a, <2>1
         DEF Reversing, RefundsIssued, RefundCommit, PaymentRow, VerdictStands
    <2>3. \/ new.paid > 0 /\ new.status = "PARTIALLY_PAID"
          \/ new.paid = 0 /\ phase[i] # "before" /\ new.status = "OVERDUE"
          \/ new.paid = 0 /\ new.status = "PENDING"
      BY <2>2, ReversePaymentRow
    <2> HIDE DEF new
    <2>4. invoice' = [invoice EXCEPT ![i] = new] /\ UNCHANGED phase
      BY <1>7 DEF RefundCommit, new
    <2>5. StatusMatchesMoney' /\ NotOverdueBeforeDue'
      BY <1>a, <2>2, <2>3, <2>4
         DEF TypeOK, StatusMatchesMoney, NotOverdueBeforeDue
    <2>6. TodoIsPastDue'
      BY <1>7, <1>a, <2>4 DEF RefundCommit, TypeOK, TodoIsPastDue, Idle
    <2>7. VerdictStands'
      <3>1. \A q \in Payments : payment'[q].invoice = payment[q].invoice
        BY <1>7, <1>a DEF RefundCommit, TypeOK, RefundedPayment, RefundsIssued,
           PaymentRow
      <3>2. \A v \in Procs : proc[v].pc = "reversePayment"
                                => proc[v].payment \in Payments
        BY <1>b, ProcKinds DEF Reversing
      <3> QED
        BY <1>7, <1>a, <2>4, <3>1, <3>2 DEF RefundCommit, VerdictStands, TypeOK, Idle
    <2> QED
      BY <2>5, <2>6, <2>7 DEF InvoiceInv
  <1>8. ASSUME NEW w \in Procs, MarkOverdueRead(w)
        PROVE  InvoiceInv'
    BY <1>8, <1>a, <1>c, <1>d
       DEF MarkOverdueRead, InvoiceInv, TypeOK, TodoIsPastDue, IsOverdueCandidate,
           PastDueDay
  <1>9. ASSUME NEW w \in Procs, NEW i \in Invoices, MarkOverdueUpdate(w, i)
        PROVE  InvoiceInv'
    <2>1. phase[i] = "after"
      BY <1>9, <1>a DEF MarkOverdueUpdate, TodoIsPastDue
    <2>2. StatusMatchesMoney' /\ NotOverdueBeforeDue'
      BY <1>9, <1>a, <2>1
         DEF MarkOverdueUpdate, TypeOK, InvoiceRow, StatusMatchesMoney,
             NotOverdueBeforeDue
    <2>3. TodoIsPastDue'
      BY <1>9, <1>a DEF MarkOverdueUpdate, TypeOK, TodoIsPastDue, Idle
    <2> QED
      BY <1>9, <1>d, <2>2, <2>3 DEF MarkOverdueUpdate, InvoiceInv, TypeOK, Idle
  <1>10. ASSUME NEW w \in Procs, Abandon(w)
         PROVE  InvoiceInv'
    BY <1>10, <1>a, <1>c, <1>d DEF Abandon, InvoiceInv, TypeOK, TodoIsPastDue, Idle
  <1>11. ASSUME NEW i \in Invoices, DayPasses(i)
         PROVE  InvoiceInv'
    <2>1. \A j \in Invoices : phase[j] # "before" => phase'[j] # "before"
      BY <1>11, <1>a DEF DayPasses, TypeOK
    <2>2. \A w \in Procs : proc[w].pc = "markOverdue" => proc[w].todo \subseteq Invoices
      BY <1>b, ProcKinds DEF MarkingOverdue
    <2>3. StatusMatchesMoney' /\ NotOverdueBeforeDue'
      BY <1>11, <1>a, <2>1 DEF DayPasses, StatusMatchesMoney, NotOverdueBeforeDue
    <2>4. TodoIsPastDue'
      BY <1>11, <1>a, <2>2 DEF DayPasses, TypeOK, TodoIsPastDue
    <2>5. VerdictStands'
      <3>1. \A w \in Procs : proc[w].pc = "reversePayment"
                => payment[proc[w].payment].invoice \in Invoices
        BY <1>a DEF RefundsIssued, PaymentRow
      <3> QED
        BY <1>11, <1>a, <2>1, <3>1 DEF DayPasses, VerdictStands
    <2> QED
      BY <2>3, <2>4, <2>5 DEF InvoiceInv
  <1>12. CASE UNCHANGED vars
    BY <1>12, <1>a, <1>c DEF vars, InvoiceInv, TodoIsPastDue, VerdictStands
  <1> QED
    BY <1>1, <1>2, <1>3, <1>4, <1>5, <1>6, <1>7, <1>8, <1>9, <1>10, <1>11, <1>12
       DEF Next, MarkPaid, Refund, MarkOverdue

\* Whatever requests and job runs overlap or die, the status of an invoice
\* agrees with the money on its row: applyPayment and reversePayment derive it
\* from the amount they write, however stale the row they read.
THEOREM StatusMatchesMoneyHolds == Spec => []StatusMatchesMoney
  <1>1. InvoiceInv => StatusMatchesMoney
    BY DEF InvoiceInv
  <1> QED
    BY <1>1, InitInvoiceInv, InvoiceInvStep, TypeCorrect, PTL DEF Spec

\* No invoice is overdue before its due day, though markOverdue updates rows
\* it read earlier: what it read of the calendar cannot go stale.
THEOREM NotOverdueBeforeDueHolds == Spec => []NotOverdueBeforeDue
  <1>1. InvoiceInv => NotOverdueBeforeDue
    BY DEF InvoiceInv
  <1> QED
    BY <1>1, InitInvoiceInv, InvoiceInvStep, TypeCorrect, PTL DEF Spec

-----------------------------------------------------------------------------
(* What a payment says it has refunded *)

\* A refund under way fits the payment it is about: the amount of a payment
\* never changes, so the sum checked at the start is still good at the commit,
\* however often other refunds have overwritten refundedAmount in between.
RefundsFit ==
    \A w \in Procs :
        proc[w].pc \in {"refund", "reversePayment"}
            => proc[w].refunded + proc[w].amount <= payment[proc[w].payment].amount

RefundInv == RefundColumnMatchesStatus /\ RefundsFit

LEMMA InitRefundInv == Init => RefundInv
  <1> SUFFICES ASSUME Init PROVE RefundInv
    OBVIOUS
  <1>1. ASSUME NEW p \in Issued
        PROVE  /\ payment[p].status = "SUCCEEDED" /\ payment[p].refunded = 0
               /\ payment[p].amount \in Nat \ {0}
    BY ConstantsAssumption DEF Init, Issued
  <1>2. RefundColumnMatchesStatus
    BY <1>1 DEF RefundColumnMatchesStatus
  <1> QED
    BY <1>2 DEF Init, RefundInv, RefundsFit, Idle

LEMMA RefundInvStep == TypeInv /\ RefundInv /\ [Next]_vars => RefundInv'
  <1> SUFFICES ASSUME TypeInv, RefundInv, [Next]_vars PROVE RefundInv'
    OBVIOUS
  <1> USE ConstantsAssumption
  <1>a. TypeOK /\ RefundsIssued /\ RefundColumnMatchesStatus /\ RefundsFit
    BY DEF TypeInv, RefundInv
  <1>b. \A w \in Procs : proc[w] \in ProcState
    BY <1>a DEF TypeOK
  <1>c. ASSUME UNCHANGED payment
        PROVE  RefundColumnMatchesStatus'
    BY <1>a, <1>c DEF RefundColumnMatchesStatus, Issued
  <1>d. ASSUME UNCHANGED payment,
               \A w \in Procs : proc'[w] = proc[w]
                                \/ proc'[w].pc \notin {"refund", "reversePayment"}
        PROVE  RefundInv'
    BY <1>a, <1>c, <1>d DEF RefundInv, RefundsFit
  <1>1. ASSUME NEW w \in Procs, NEW i \in Invoices, MarkPaidRead(w, i)
        PROVE  RefundInv'
    BY <1>1, <1>a, <1>d DEF MarkPaidRead, TypeOK
  <1>2. ASSUME NEW w \in Procs, MarkPaidApply(w)
        PROVE  RefundInv'
    BY <1>2, <1>a, <1>d DEF MarkPaidApply, TypeOK
  <1>3. ASSUME NEW w \in Procs, NEW p \in Payments, MarkPaidCommit(w, p)
        PROVE  RefundInv'
    <2>1. proc[w] \in ApplyingPaid
      BY <1>3, <1>b, ProcKinds DEF MarkPaidCommit
    <2>2. proc[w].amount \in Nat \ {0}
      BY <2>1 DEF ApplyingPaid
    <2> DEFINE row == [status |-> "SUCCEEDED", invoice |-> proc[w].invoice,
                       amount |-> proc[w].amount, provider |-> "offline",
                       refunded |-> 0]
    <2>3. /\ row.status = "SUCCEEDED" /\ row.refunded = 0
          /\ row.amount = proc[w].amount
      OBVIOUS
    <2>4. payment' = [payment EXCEPT ![p] = row] /\ payment[p] = NoPayment
      BY <1>3 DEF MarkPaidCommit
    <2> HIDE DEF row
    <2>5. RefundColumnMatchesStatus'
      BY <1>a, <2>2, <2>3, <2>4 DEF TypeOK, RefundColumnMatchesStatus, Issued
    <2>6. NoPayment \notin PaymentRow
      BY DEF NoPayment, PaymentRow, PaymentStatuses
    <2>7. RefundsFit'
      BY <1>3, <1>a, <2>4, <2>6
         DEF MarkPaidCommit, TypeOK, RefundsFit, RefundsIssued, Idle
    <2> QED
      BY <2>5, <2>7 DEF RefundInv
  <1>4. ASSUME NEW w \in Procs, NEW p \in Issued, NEW a \in 1..RefundCap,
               RefundRead(w, p, a)
        PROVE  RefundInv'
    <2>1. payment[p] \in PaymentRow
      BY <1>a DEF Issued, TypeOK
    <2>2. UNCHANGED payment /\ a <= payment[p].amount - payment[p].refunded
      BY <1>4 DEF RefundRead
    <2>3. payment[p].refunded + a <= payment[p].amount
      BY <2>1, <2>2 DEF PaymentRow
    <2>4. PICK outcome \in ProviderOutcomes(payment[p].provider) :
             proc' = [proc EXCEPT ![w] =
                         [pc |-> "refund", payment |-> p, amount |-> a,
                          refunded |-> payment[p].refunded, outcome |-> outcome]]
      BY <1>4 DEF RefundRead
    <2>5. RefundsFit'
      BY <1>a, <2>2, <2>3, <2>4 DEF TypeOK, RefundsFit
    <2> QED
      BY <1>c, <2>2, <2>5 DEF RefundInv
  <1>5. ASSUME NEW w \in Procs, RefundRecord(w)
        PROVE  RefundInv'
    BY <1>5, <1>a, <1>d DEF RefundRecord, TypeOK, Idle
  <1>6. ASSUME NEW w \in Procs, RefundReverse(w)
        PROVE  RefundInv'
    <2>1. RefundsFit'
      BY <1>6, <1>a DEF RefundReverse, TypeOK, RefundsFit
    <2> QED
      BY <1>6, <1>c, <2>1 DEF RefundReverse, RefundInv
  <1>7. ASSUME NEW w \in Procs, RefundCommit(w)
        PROVE  RefundInv'
    <2>1. proc[w] \in Reversing
      BY <1>7, <1>b, ProcKinds DEF RefundCommit
    <2> DEFINE p == proc[w].payment
               sum == proc[w].refunded + proc[w].amount
               row == RefundedPayment(payment[p], sum)
    <2>2. /\ p \in Payments /\ payment[p] \in PaymentRow
          /\ sum \in Nat \ {0} /\ payment[p].amount \in Nat
      BY <1>7, <1>a, <2>1 DEF RefundCommit, RefundsIssued, Reversing, PaymentRow
    <2>3. sum <= payment[p].amount
      BY <1>7, <1>a DEF RefundCommit, RefundsFit
    <2> HIDE DEF sum
    <2>4. /\ row.amount = payment[p].amount /\ row.refunded = sum
          /\ row.status = IF sum >= payment[p].amount
                          THEN "REFUNDED" ELSE "PARTIALLY_REFUNDED"
      BY <2>2, RefundedPaymentRow
    <2>5. payment' = [payment EXCEPT ![p] = row]
      BY <1>7 DEF RefundCommit, sum
    <2> HIDE DEF row
    <2>6. Issued' \subseteq Issued
      BY <2>2, <2>5, <1>a DEF Issued, TypeOK, PaymentRow, PaymentStatuses, NoPayment
    <2>7. RefundColumnMatchesStatus'
      <3>1. /\ row.refunded <= row.amount
            /\ row.status = "SUCCEEDED" <=> row.refunded = 0
            /\ row.status = "REFUNDED" <=> row.refunded = row.amount
        BY <2>2, <2>3, <2>4
      <3>2. payment'[p] = row /\ \A q \in Issued : q # p => payment'[q] = payment[q]
        BY <1>a, <2>2, <2>5 DEF TypeOK, Issued
      <3> QED
        BY <1>a, <2>6, <3>1, <3>2 DEF RefundColumnMatchesStatus
    <2>8. RefundsFit'
      BY <1>7, <1>a, <2>2, <2>4, <2>5 DEF RefundCommit, TypeOK, RefundsFit, Idle
    <2> QED
      BY <2>7, <2>8 DEF RefundInv
  <1>8. ASSUME NEW w \in Procs, MarkOverdueRead(w)
        PROVE  RefundInv'
    BY <1>8, <1>a, <1>d DEF MarkOverdueRead, TypeOK
  <1>9. ASSUME NEW w \in Procs, NEW i \in Invoices, MarkOverdueUpdate(w, i)
        PROVE  RefundInv'
    BY <1>9, <1>a, <1>d DEF MarkOverdueUpdate, TypeOK, Idle
  <1>10. ASSUME NEW w \in Procs, Abandon(w)
         PROVE  RefundInv'
    BY <1>10, <1>a, <1>d DEF Abandon, TypeOK, Idle
  <1>11. ASSUME NEW i \in Invoices, DayPasses(i)
         PROVE  RefundInv'
    BY <1>11, <1>d DEF DayPasses
  <1>12. CASE UNCHANGED vars
    BY <1>12, <1>d DEF vars
  <1> QED
    BY <1>1, <1>2, <1>3, <1>4, <1>5, <1>6, <1>7, <1>8, <1>9, <1>10, <1>11, <1>12
       DEF Next, MarkPaid, Refund, MarkOverdue

\* refundedAmount never exceeds the payment and the payment's status names it,
\* though overlapping refunds of one payment write absolute sums they computed
\* from the row each read at its start.
THEOREM RefundColumnMatchesStatusHolds == Spec => []RefundColumnMatchesStatus
  <1>1. RefundInv => RefundColumnMatchesStatus
    BY DEF RefundInv
  <1> QED
    BY <1>1, InitRefundInv, RefundInvStep, TypeCorrect, PTL DEF Spec

-----------------------------------------------------------------------------
(* Requests that never overlap implement InvoiceLedger: when at most one process is *)
(* in flight, every commit is one ledger step and everything else it does leaves    *)
(* the ledger as it is.                                                             *)

\* At most one request or job run at a time.
NoOverlap == \A v, w \in Procs : v = w

\* What a process read is still what the rows say.  This is the fact that
\* overlapping requests break.
PaidFresh(q) ==
    /\ IsPayable(invoice[q.invoice], Total[q.invoice])
    /\ q.amount = Total[q.invoice] - invoice[q.invoice].paid

RefundFresh(q) ==
    /\ payment[q.payment].status \in {"SUCCEEDED", "PARTIALLY_REFUNDED"}
    /\ q.refunded = payment[q.payment].refunded
    /\ q.amount <= payment[q.payment].amount - payment[q.payment].refunded

Fresh(q) ==
    /\ q.pc = "markPaid" => PaidFresh(q)
    /\ q.pc = "applyPayment" => PaidFresh(q) /\ q.read = invoice[q.invoice]
    /\ q.pc = "refund" =>
          /\ RefundFresh(q)
          /\ q.outcome = "PROCESSED" => payment[q.payment].provider = "online"
    /\ q.pc = "reversePayment" =>
          /\ RefundFresh(q)
          /\ payment[q.payment].provider = "online"
          /\ q.read = invoice[payment[q.payment].invoice]
          /\ q.overdue => PastDueInstant(payment[q.payment].invoice)
    /\ q.pc = "markOverdue" => \A i \in q.todo : IsOverdueCandidate(i)

ReadsAreFresh == \A w \in Procs : Fresh(proc[w])

\* A step of the one process there is leaves a fresh record or none.
LEMMA OwnStep ==
    ASSUME NoOverlap, TypeOK, NEW w \in Procs, NEW next,
           proc' = [proc EXCEPT ![w] = next]
    PROVE  \A v \in Procs : proc'[v] = next
  BY DEF NoOverlap, TypeOK

LEMMA FreshStep ==
    ASSUME NoOverlap, TypeInv, ReadsAreFresh, [Next]_vars
    PROVE  ReadsAreFresh'
  <1> USE ConstantsAssumption DEF ReadsAreFresh
  <1>a. TypeOK /\ RefundsIssued
    BY DEF TypeInv
  <1>b. \A w \in Procs : proc[w] \in ProcState
    BY <1>a DEF TypeOK
  <1>c. ASSUME \A w \in Procs : proc'[w] = Idle
        PROVE  ReadsAreFresh'
    BY <1>c DEF Fresh, Idle
  <1>1. ASSUME NEW w \in Procs, NEW i \in Invoices, MarkPaidRead(w, i)
        PROVE  ReadsAreFresh'
    <2> DEFINE next == [pc |-> "markPaid", invoice |-> i,
                        amount |-> Total[i] - invoice[i].paid]
    <2>1. \A v \in Procs : proc'[v] = next
      BY <1>1, <1>a, OwnStep DEF MarkPaidRead
    <2>2. invoice' = invoice /\ IsPayable(invoice[i], Total[i])
      BY <1>1 DEF MarkPaidRead
    <2> QED
      BY <2>1, <2>2 DEF Fresh, PaidFresh
  <1>2. ASSUME NEW w \in Procs, MarkPaidApply(w)
        PROVE  ReadsAreFresh'
    <2> DEFINE next == [pc |-> "applyPayment", invoice |-> proc[w].invoice,
                        amount |-> proc[w].amount,
                        read |-> invoice[proc[w].invoice]]
    <2>1. \A v \in Procs : proc'[v] = next
      BY ZenonT(30), <1>2, <1>a, OwnStep DEF MarkPaidApply
    <2>2. invoice' = invoice /\ PaidFresh(proc[w])
      BY <1>2 DEF MarkPaidApply, Fresh
    <2> QED
      BY SMTT(30), <2>1, <2>2 DEF Fresh, PaidFresh
  <1>3. ASSUME NEW w \in Procs, NEW p \in Payments, MarkPaidCommit(w, p)
        PROVE  ReadsAreFresh'
    BY <1>3, <1>a, <1>c, OwnStep DEF MarkPaidCommit
  <1>4. ASSUME NEW w \in Procs, NEW p \in Issued, NEW a \in 1..RefundCap,
               RefundRead(w, p, a)
        PROVE  ReadsAreFresh'
    <2>1. PICK outcome \in ProviderOutcomes(payment[p].provider) :
             proc' = [proc EXCEPT ![w] =
                         [pc |-> "refund", payment |-> p, amount |-> a,
                          refunded |-> payment[p].refunded, outcome |-> outcome]]
      BY <1>4 DEF RefundRead
    <2>2. outcome = "PROCESSED" => payment[p].provider = "online"
      BY <2>1 DEF ProviderOutcomes
    <2> DEFINE next == [pc |-> "refund", payment |-> p, amount |-> a,
                        refunded |-> payment[p].refunded, outcome |-> outcome]
    <2>3. \A v \in Procs : proc'[v] = next
      BY <2>1, <1>a, OwnStep
    <2>4. /\ payment' = payment
          /\ payment[p].status \in {"SUCCEEDED", "PARTIALLY_REFUNDED"}
          /\ a <= payment[p].amount - payment[p].refunded
      BY <1>4 DEF RefundRead
    <2> QED
      BY <2>2, <2>3, <2>4 DEF Fresh, RefundFresh
  <1>5. ASSUME NEW w \in Procs, RefundRecord(w)
        PROVE  ReadsAreFresh'
    BY <1>5, <1>a, <1>c, OwnStep DEF RefundRecord
  <1>6. ASSUME NEW w \in Procs, RefundReverse(w)
        PROVE  ReadsAreFresh'
    <2> DEFINE verdict == PastDueInstant(payment[proc[w].payment].invoice)
               next == [pc |-> "reversePayment", payment |-> proc[w].payment,
                        amount |-> proc[w].amount, refunded |-> proc[w].refunded,
                        read |-> invoice[payment[proc[w].payment].invoice],
                        overdue |-> verdict]
    <2>1. \A v \in Procs : proc'[v] = next
      BY <1>6, <1>a, OwnStep DEF RefundReverse
    <2>2. /\ payment' = payment /\ invoice' = invoice /\ phase' = phase
          /\ RefundFresh(proc[w])
          /\ payment[proc[w].payment].provider = "online"
      BY <1>6 DEF RefundReverse, Fresh
    <2>3. verdict => (PastDueInstant(payment[proc[w].payment].invoice))'
      <3>1. \A v \in Procs : proc'[v].payment = proc[w].payment
        BY <2>1
      <3> QED
        BY <2>2, <3>1 DEF PastDueInstant
    <2> HIDE DEF verdict
    <2> QED
      BY SMTT(30), <2>1, <2>2, <2>3 DEF Fresh, RefundFresh, PastDueInstant
  <1>7. ASSUME NEW w \in Procs, RefundCommit(w)
        PROVE  ReadsAreFresh'
    BY <1>7, <1>a, <1>c, OwnStep DEF RefundCommit
  <1>8. ASSUME NEW w \in Procs, MarkOverdueRead(w)
        PROVE  ReadsAreFresh'
    <2> DEFINE late == {i \in Invoices : IsOverdueCandidate(i)}
               next == [pc |-> "markOverdue", todo |-> late]
    <2>1. \A v \in Procs : proc'[v] = next
      BY <1>8, <1>a, OwnStep DEF MarkOverdueRead
    <2>2. \A j \in late : IsOverdueCandidate(j)
      OBVIOUS
    <2> HIDE DEF late
    <2>3. \A v \in Procs : /\ proc'[v].pc = "markOverdue"
                           /\ \A j \in proc'[v].todo : IsOverdueCandidate(j)
      BY <2>1, <2>2
    <2>4. invoice' = invoice /\ phase' = phase
      BY <1>8 DEF MarkOverdueRead
    <2> QED
      BY <2>3, <2>4 DEF Fresh, IsOverdueCandidate, PastDueDay
  <1>9. ASSUME NEW w \in Procs, NEW i \in Invoices, MarkOverdueUpdate(w, i)
        PROVE  ReadsAreFresh'
    <2>1. CASE proc[w].todo = {i}
      BY <1>9, <1>a, <1>c, <2>1, OwnStep DEF MarkOverdueUpdate
    <2>2. CASE proc[w].todo # {i}
      <3> DEFINE next == [pc |-> "markOverdue", todo |-> proc[w].todo \ {i}]
      <3>1. \A v \in Procs : proc'[v] = next
        BY <1>9, <1>a, <2>2, OwnStep DEF MarkOverdueUpdate
      <3>2. proc[w].todo \subseteq Invoices
        BY <1>9, <1>b, ProcKinds DEF MarkOverdueUpdate, MarkingOverdue
      <3>3. \A j \in proc[w].todo : IsOverdueCandidate(j)
        BY <1>9 DEF MarkOverdueUpdate, Fresh
      <3>4. phase' = phase /\ \A j \in Invoices \ {i} : invoice'[j] = invoice[j]
        BY <1>9, <1>a DEF MarkOverdueUpdate, TypeOK
      <3> QED
        BY <3>1, <3>2, <3>3, <3>4 DEF Fresh, IsOverdueCandidate, PastDueDay
    <2> QED
      BY <2>1, <2>2
  <1>10. ASSUME NEW w \in Procs, Abandon(w)
         PROVE  ReadsAreFresh'
    BY <1>10, <1>a, <1>c, OwnStep DEF Abandon
  <1>11. ASSUME NEW i \in Invoices, DayPasses(i)
         PROVE  ReadsAreFresh'
    <2>1. /\ invoice' = invoice /\ payment' = payment /\ proc' = proc
          /\ \A j \in Invoices : /\ phase[j] = "after" => phase'[j] = "after"
                                 /\ phase[j] # "before" => phase'[j] # "before"
      BY <1>11, <1>a DEF DayPasses, TypeOK
    <2>2. \A w \in Procs : proc[w].pc = "markOverdue"
                              => proc[w].todo \subseteq Invoices
      BY <1>b, ProcKinds DEF MarkingOverdue
    <2>3. \A w \in Procs : proc[w].pc = "reversePayment"
                              => payment[proc[w].payment].invoice \in Invoices
      BY <1>a DEF RefundsIssued, PaymentRow
    <2> QED
      BY <2>1, <2>2, <2>3
         DEF Fresh, PaidFresh, RefundFresh, IsOverdueCandidate, PastDueDay,
             PastDueInstant
  <1>12. CASE UNCHANGED vars
    BY <1>12 DEF vars, Fresh, PaidFresh, RefundFresh, IsOverdueCandidate, PastDueDay,
       PastDueInstant
  <1> QED
    BY <1>1, <1>2, <1>3, <1>4, <1>5, <1>6, <1>7, <1>8, <1>9, <1>10, <1>11, <1>12
       DEF Next, MarkPaid, Refund, MarkOverdue

LEMMA InitIsLedgerInit == Init => Ledger!Init /\ ReadsAreFresh
  BY DEF Init, LegacyPaid, NoPayment, RefundStatuses, Ledger!Init,
     Ledger!LegacyPaid, Ledger!NoPayment, Ledger!RefundStatuses,
     ReadsAreFresh, Fresh, Idle

-----------------------------------------------------------------------------
(* Every step is a ledger step or leaves the ledger alone *)

LEMMA PaidImplements ==
    ASSUME TypeInv, ReadsAreFresh, NEW w \in Procs, NEW p \in Payments,
           MarkPaidCommit(w, p)
    PROVE  \E i \in Invoices : Ledger!MarkPaid(i, p)
  <1> USE ConstantsAssumption
  <1> DEFINE i == proc[w].invoice
             due == Total[i] - invoice[i].paid
  <1>1. proc[w] \in ApplyingPaid
    BY ProcKinds DEF TypeInv, TypeOK, MarkPaidCommit
  <1>2. i \in Invoices /\ invoice[i] \in InvoiceRow /\ Total[i] \in Nat
    BY <1>1 DEF ApplyingPaid, TypeInv, TypeOK
  <1>3. /\ IsPayable(invoice[i], Total[i]) /\ proc[w].amount = due
        /\ proc[w].read = invoice[i]
    BY DEF ReadsAreFresh, Fresh, PaidFresh, MarkPaidCommit
  <1>4. ApplyPayment(invoice[i], Total[i], due) = [paid |-> Total[i], status |-> "PAID"]
    BY <1>2 DEF ApplyPayment, InvoiceRow
  <1>5. Ledger!MarkPaid(i, p)
    BY <1>3, <1>4 DEF MarkPaidCommit, Ledger!MarkPaid, Ledger!IsPayable, IsPayable,
       Ledger!Payable, Payable, Ledger!NoPayment, NoPayment
  <1> QED
    BY <1>2, <1>5

LEMMA NotedImplements ==
    ASSUME TypeInv, ReadsAreFresh, NEW w \in Procs, RefundRecord(w)
    PROVE  Ledger!Next
  <1> DEFINE p == proc[w].payment
             a == proc[w].amount
             s == proc[w].outcome
  <1>1. proc[w] \in Refunding
    BY ProcKinds DEF TypeInv, TypeOK, RefundRecord
  <1>2. payment[p] \in PaymentRow
    BY DEF TypeInv, RefundsIssued, RefundRecord
  <1>3. RefundFresh(proc[w])
    BY DEF ReadsAreFresh, Fresh, RefundRecord
  <1>4. /\ p \in Payments /\ a \in 1..payment[p].amount
        /\ s \in {"APPROVED", "FAILED"} /\ s \in Ledger!RefundStatuses
    BY <1>1, <1>2, <1>3
       DEF Refunding, PaymentRow, RefundFresh, RefundRecord, RefundStatuses,
           Ledger!RefundStatuses
  <1>5. payment[p] # Ledger!NoPayment
    BY <1>2 DEF PaymentRow, PaymentStatuses, Ledger!NoPayment
  <1>6. Ledger!RefundNoted(p, a, s)
    BY <1>3, <1>4 DEF RefundFresh, RefundRecord, Ledger!RefundNoted
  <1> QED
    BY <1>4, <1>5, <1>6 DEF Ledger!Next

LEMMA ProcessedImplements ==
    ASSUME TypeInv, ReadsAreFresh, NEW w \in Procs, RefundCommit(w)
    PROVE  Ledger!Next
  <1> DEFINE p == proc[w].payment
             a == proc[w].amount
             i == payment[p].invoice
             sum == payment[p].refunded + a
  <1>1. proc[w] \in Reversing
    BY ProcKinds DEF TypeInv, TypeOK, RefundCommit
  <1>2. payment[p] \in PaymentRow
    BY DEF TypeInv, RefundsIssued, RefundCommit
  <1>3. /\ RefundFresh(proc[w]) /\ payment[p].provider = "online"
        /\ proc[w].read = invoice[i]
        /\ proc[w].overdue => PastDueInstant(i)
    BY DEF ReadsAreFresh, Fresh, RefundCommit
  <1>4. /\ p \in Payments /\ a \in 1..payment[p].amount
        /\ proc[w].refunded = payment[p].refunded
        /\ sum \in Nat /\ sum <= payment[p].amount
    BY <1>1, <1>2, <1>3 DEF Reversing, PaymentRow, RefundFresh
  <1>5. payment[p] # Ledger!NoPayment
    BY <1>2 DEF PaymentRow, PaymentStatuses, Ledger!NoPayment
  <1> HIDE DEF sum
  <1>6. RefundedPayment(payment[p], sum) =
           [payment[p] EXCEPT !.refunded = sum,
                              !.status = IF sum = payment[p].amount
                                         THEN "REFUNDED" ELSE "PARTIALLY_REFUNDED"]
    <2>1. (sum >= payment[p].amount) = (sum = payment[p].amount)
      BY <1>2, <1>4 DEF PaymentRow
    <2> QED
      BY <2>1 DEF RefundedPayment
  <1>7. payment' = [payment EXCEPT
                       ![p].refunded = sum,
                       ![p].status = IF sum = payment[p].amount
                                     THEN "REFUNDED" ELSE "PARTIALLY_REFUNDED"]
    BY <1>4, <1>6 DEF RefundCommit, TypeInv, TypeOK, sum
  <1>8. /\ proc[w].overdue \in Ledger!Verdicts(i)
        /\ invoice' = [invoice EXCEPT ![i] =
                          Ledger!ReversePayment(@, a, proc[w].overdue)]
    <2>1. proc[w].overdue \in Ledger!Verdicts(i)
      <3>1. proc[w].overdue \in BOOLEAN
        BY <1>1 DEF Reversing
      <3>2. proc[w].overdue => phase[i] # "before"
        BY <1>3 DEF PastDueInstant
      <3> QED
        BY Zenon, <3>1, <3>2 DEF Ledger!Verdicts
    <2>2. ReversePayment(invoice[i], a, proc[w].overdue)
             = Ledger!ReversePayment(invoice[i], a, proc[w].overdue)
      BY DEF ReversePayment, Ledger!ReversePayment
    <2>3. invoice' = [invoice EXCEPT ![i] =
                         ReversePayment(invoice[i], a, proc[w].overdue)]
      BY <1>3 DEF RefundCommit
    <2> QED
      BY Zenon, <2>1, <2>2, <2>3
  <1>9. Ledger!RefundProcessed(p, a)
    BY <1>3, <1>7, <1>8 DEF RefundFresh, RefundCommit, Ledger!RefundProcessed, sum
  <1> QED
    BY <1>4, <1>5, <1>9 DEF Ledger!Next

LEMMA OverdueImplements ==
    ASSUME ReadsAreFresh, NEW w \in Procs, NEW i \in Invoices, MarkOverdueUpdate(w, i)
    PROVE  Ledger!MarkOverdue(i)
  BY DEF ReadsAreFresh, Fresh, MarkOverdueUpdate, IsOverdueCandidate, PastDueDay,
     OverdueCandidates, Ledger!MarkOverdue, Ledger!OverdueCandidates

LEMMA LedgerStep ==
    ASSUME TypeInv, ReadsAreFresh, [Next]_vars
    PROVE  [Ledger!Next]_(Ledger!ledgerVars)
  <1> USE DEF Ledger!ledgerVars
  <1>1. ASSUME NEW w \in Procs, MarkPaid(w)
        PROVE  [Ledger!Next]_(Ledger!ledgerVars)
    BY <1>1, PaidImplements DEF MarkPaid, MarkPaidRead, MarkPaidApply, Ledger!Next
  <1>2. ASSUME NEW w \in Procs, Refund(w)
        PROVE  [Ledger!Next]_(Ledger!ledgerVars)
    BY <1>2, NotedImplements, ProcessedImplements
       DEF Refund, RefundRead, RefundReverse
  <1>3. ASSUME NEW w \in Procs, MarkOverdue(w)
        PROVE  [Ledger!Next]_(Ledger!ledgerVars)
    BY <1>3, OverdueImplements DEF MarkOverdue, MarkOverdueRead, Ledger!Next
  <1>4. ASSUME NEW w \in Procs, Abandon(w)
        PROVE  [Ledger!Next]_(Ledger!ledgerVars)
    BY <1>4 DEF Abandon
  <1>5. ASSUME NEW i \in Invoices, DayPasses(i)
        PROVE  [Ledger!Next]_(Ledger!ledgerVars)
    BY <1>5 DEF DayPasses, Ledger!Next, Ledger!DayPasses
  <1>6. CASE UNCHANGED vars
    BY <1>6 DEF vars
  <1> QED
    BY <1>1, <1>2, <1>3, <1>4, <1>5, <1>6 DEF Next

\* As long as requests and job runs do not overlap, settlement is the atomic
\* ledger it promises to be, for every number of invoices and payments, with
\* processes dying and the calendar moving at any point.  One thing is allowed
\* for: a refund under way at midnight may leave PENDING an invoice that has
\* just become due (Verdicts of InvoiceLedger), never OVERDUE one that has not.
THEOREM SerialRefinement ==
    ASSUME NoOverlap
    PROVE  Spec => ImplementsLedger
  <1>1. Init => Ledger!Init /\ ReadsAreFresh
    BY InitIsLedgerInit
  <1>2. TypeInv /\ ReadsAreFresh /\ [Next]_vars => ReadsAreFresh'
    BY FreshStep
  <1>3. TypeInv /\ ReadsAreFresh /\ [Next]_vars => [Ledger!Next]_(Ledger!ledgerVars)
    BY LedgerStep
  <1> QED
    BY <1>1, <1>2, <1>3, TypeCorrect, PTL DEF Spec, ImplementsLedger, Ledger!Spec

-----------------------------------------------------------------------------
(* Sums over sets of rows.  The sum of f over S is the number of units its         *)
(* elements stand for, f[x] for each x: sums of counts obey the laws of cardinality. *)

Units(f, S) == {u \in S \X Nat : u[2] \in 1..f[u[1]]}
SumOver(f, S) == Cardinality(Units(f, S))

UnitsOf(x, n) == {u \in {x} \X Nat : u[2] \in 1..n}

LEMMA UnitsOfOne ==
    ASSUME NEW x, NEW n \in Nat
    PROVE  IsFiniteSet(UnitsOf(x, n)) /\ Cardinality(UnitsOf(x, n)) = n
  <1>1. UnitsOf(x, n) = {x} \X (1..n)
    BY DEF UnitsOf
  <1>2. IsFiniteSet({x}) /\ Cardinality({x}) = 1
    BY FS_Singleton
  <1>3. IsFiniteSet(1..n) /\ Cardinality(1..n) = n
    BY FS_Interval
  <1>4. IsFiniteSet({x} \X (1..n))
    BY <1>2, <1>3, FS_Product
  <1>5. Cardinality({x} \X (1..n)) = Cardinality({x}) * Cardinality(1..n)
    BY <1>2, <1>3, FS_Product
  <1> QED
    BY <1>1, <1>2, <1>3, <1>4, <1>5

\* Finitely many rows of finite amounts make finitely many units.
LEMMA UnitsFinite ==
    ASSUME NEW S, IsFiniteSet(S), NEW f, \A x \in S : f[x] \in Nat
    PROVE  IsFiniteSet(Units(f, S))
  <1> DEFINE g == [x \in S |-> UnitsOf(x, f[x])]
             T == {UnitsOf(x, f[x]) : x \in S}
  <1>1. g \in Surjection(S, T)
    BY DEF Surjection
  <1>2. IsFiniteSet(T)
    BY <1>1, FS_Surjection
  <1>3. \A t \in T : IsFiniteSet(t)
    BY UnitsOfOne
  <1>4. IsFiniteSet(UNION T)
    <2> HIDE DEF T
    <2> QED BY <1>2, <1>3, FS_UNION
  <1>5. Units(f, S) = UNION T
    BY DEF Units, UnitsOf
  <1> QED
    BY <1>4, <1>5

LEMMA SumType ==
    ASSUME NEW S, IsFiniteSet(S), NEW f, \A x \in S : f[x] \in Nat
    PROVE  SumOver(f, S) \in Nat
  BY UnitsFinite, FS_CardinalityType DEF SumOver

LEMMA SumEmpty == ASSUME NEW f PROVE SumOver(f, {}) = 0
  <1>1. Units(f, {}) = {}
    BY DEF Units
  <1> QED
    BY <1>1, FS_EmptySet DEF SumOver

\* Any element can be taken out first.
LEMMA SumSplit ==
    ASSUME NEW S, IsFiniteSet(S), NEW f, \A y \in S : f[y] \in Nat, NEW x \in S
    PROVE  SumOver(f, S) = f[x] + SumOver(f, S \ {x})
  <1>1. Units(f, S) = UnitsOf(x, f[x]) \cup Units(f, S \ {x})
    BY DEF Units, UnitsOf
  <1>2. UnitsOf(x, f[x]) \cap Units(f, S \ {x}) = {}
    BY DEF Units, UnitsOf
  <1>3. IsFiniteSet(Units(f, S \ {x}))
    BY FS_RemoveElement, UnitsFinite
  <1>4. IsFiniteSet(UnitsOf(x, f[x])) /\ Cardinality(UnitsOf(x, f[x])) = f[x]
    BY UnitsOfOne
  <1>5. Cardinality(Units(f, S \ {x})) \in Nat /\ Cardinality({}) = 0
    BY <1>3, FS_CardinalityType, FS_EmptySet
  <1>6. Cardinality(Units(f, S)) = f[x] + Cardinality(Units(f, S \ {x})) - 0
    BY ZenonT(30), <1>1, <1>2, <1>3, <1>4, <1>5, FS_Union
  <1> QED
    BY <1>5, <1>6 DEF SumOver

LEMMA SumSame ==
    ASSUME NEW S, NEW f, NEW g, \A x \in S : f[x] = g[x]
    PROVE  SumOver(f, S) = SumOver(g, S)
  <1>1. Units(f, S) = Units(g, S)
    BY DEF Units
  <1> QED
    BY <1>1 DEF SumOver

\* Larger sets and larger amounts have larger sums.
LEMMA SumMonotonic ==
    ASSUME NEW S, IsFiniteSet(S), NEW f, \A x \in S : f[x] \in Nat,
           NEW T \in SUBSET S, NEW g, \A x \in T : g[x] \in Nat /\ g[x] <= f[x]
    PROVE  SumOver(g, T) <= SumOver(f, S)
  <1>1. Units(g, T) \subseteq Units(f, S)
    BY DEF Units
  <1> QED
    BY <1>1, UnitsFinite, FS_Subset DEF SumOver

\* The equation of a fold that adds: take the chosen element, then the others.
IsFold(it, f, S) ==
    it = [s \in SUBSET S |->
             IF s = {} THEN 0
             ELSE f[CHOOSE x \in s : TRUE] + it[s \ {CHOOSE x \in s : TRUE}]]

\* It has a solution,
LEMMA SumIsFold ==
    ASSUME NEW S, IsFiniteSet(S), NEW f, \A x \in S : f[x] \in Nat
    PROVE  IsFold([s \in SUBSET S |-> SumOver(f, s)], f, S)
  <1> DEFINE it == [s \in SUBSET S |-> SumOver(f, s)]
  <1>1. ASSUME NEW s \in SUBSET S, s # {}
        PROVE  it[s] = f[CHOOSE x \in s : TRUE] + it[s \ {CHOOSE x \in s : TRUE}]
    <2> DEFINE x == CHOOSE y \in s : TRUE
    <2>1. x \in s
      BY <1>1
    <2> HIDE DEF x
    <2>2. IsFiniteSet(s)
      BY FS_Subset
    <2>3. SumOver(f, s) = f[x] + SumOver(f, s \ {x})
      BY <2>1, <2>2, SumSplit
    <2>4. s \ {x} \in SUBSET S
      OBVIOUS
    <2>5. it[s] = f[x] + it[s \ {x}]
      BY <2>3, <2>4
    <2> QED
      BY <2>5 DEF x
  <1>2. it[{}] = 0
    BY SumEmpty
  <1> HIDE DEF it
  <1>3. it = [s \in SUBSET S |-> it[s]]
    BY DEF it
  <1> QED
    BY <1>1, <1>2, <1>3 DEF IsFold, it

\* and every solution is the sum: a smallest set where one differs is not empty,
\* and without its chosen element it is smaller.
LEMMA FoldIsSum ==
    ASSUME NEW S, IsFiniteSet(S), NEW f, \A x \in S : f[x] \in Nat,
           NEW it, IsFold(it, f, S)
    PROVE  it[S] = SumOver(f, S)
  <1> DEFINE Bad == {s \in SUBSET S : it[s] # SumOver(f, s)}
  <1>1. SUFFICES ASSUME Bad # {} PROVE FALSE
    OBVIOUS
  <1>2. IsWellFoundedOn(StrictSubsetOrdering(S), SUBSET S)
    BY FS_StrictSubsetOrderingWellFounded, FS_FiniteSubsetsOfFinite
  <1>3. PICK s \in Bad : \A t \in Bad : <<t, s>> \notin StrictSubsetOrdering(S)
    <2> HIDE DEF Bad
    <2>1. Bad \subseteq SUBSET S
      BY DEF Bad
    <2> QED
      BY <1>1, <1>2, <2>1, WFMin
  <1>4. s # {}
    BY SumEmpty DEF IsFold
  <1> DEFINE x == CHOOSE y \in s : TRUE
  <1>5. x \in s
    BY <1>4
  <1>6. it[s] = f[x] + it[s \ {x}]
    BY <1>4 DEF IsFold
  <1> HIDE DEF x
  <1>7. it[s \ {x}] = SumOver(f, s \ {x})
    <2>1. s \ {x} \in SUBSET S /\ s \in SUBSET S
      BY <1>3
    <2>2. s \ {x} # s
      BY <1>5
    <2>3. <<s \ {x}, s>> \in StrictSubsetOrdering(S)
      BY <2>1, <2>2 DEF StrictSubsetOrdering
    <2> QED
      BY <1>3, <2>1, <2>3
  <1>8. SumOver(f, s) = f[x] + SumOver(f, s \ {x})
    BY <1>5, FS_Subset, SumSplit
  <1> QED
    BY <1>6, <1>7, <1>8

\* What PaidIn and Processed fold are such sums.
LEMMA AmountsFolded ==
    ASSUME NEW row, NEW S, IsFiniteSet(S), \A p \in S : row[p].amount \in Nat
    PROVE  MapThenSumSet(LAMBDA p : row[p].amount, S)
              = SumOver([p \in S |-> row[p].amount], S)
  <1> DEFINE f == [p \in S |-> row[p].amount]
             Eq(it) == it = [s \in SUBSET S |->
                 IF s = {} THEN 0
                 ELSE row[CHOOSE x \in s : TRUE].amount
                      + it[s \ {CHOOSE x \in s : TRUE}]]
             it == CHOOSE g : Eq(g)
  <1>1. MapThenSumSet(LAMBDA p : row[p].amount, S) = it[S]
    BY DEF MapThenSumSet, MapThenFoldSet
  <1>2. ASSUME NEW g PROVE Eq(g) <=> IsFold(g, f, S)
    <2>1. \A s \in SUBSET S : s # {} => f[CHOOSE x \in s : TRUE]
                                           = row[CHOOSE x \in s : TRUE].amount
      OBVIOUS
    <2> HIDE DEF f
    <2> QED
      BY <2>1 DEF IsFold
  <1>3. \A p \in S : f[p] \in Nat
    OBVIOUS
  <1> HIDE DEF f
  <1>4. IsFold(it, f, S)
    BY <1>2, <1>3, SumIsFold
  <1> HIDE DEF it
  <1>5. it[S] = SumOver(f, S)
    BY <1>3, <1>4, FoldIsSum
  <1> QED
    BY <1>1, <1>5 DEF f

LEMMA ProcessedFolded ==
    ASSUME NEW row, NEW S, IsFiniteSet(S), \A p \in S : row[p]["PROCESSED"] \in Nat
    PROVE  MapThenSumSet(LAMBDA p : row[p]["PROCESSED"], S)
              = SumOver([p \in S |-> row[p]["PROCESSED"]], S)
  <1> DEFINE f == [p \in S |-> row[p]["PROCESSED"]]
             Eq(it) == it = [s \in SUBSET S |->
                 IF s = {} THEN 0
                 ELSE row[CHOOSE x \in s : TRUE]["PROCESSED"]
                      + it[s \ {CHOOSE x \in s : TRUE}]]
             it == CHOOSE g : Eq(g)
  <1>1. MapThenSumSet(LAMBDA p : row[p]["PROCESSED"], S) = it[S]
    BY DEF MapThenSumSet, MapThenFoldSet
  <1>2. ASSUME NEW g PROVE Eq(g) <=> IsFold(g, f, S)
    <2>1. \A s \in SUBSET S : s # {} => f[CHOOSE x \in s : TRUE]
                                           = row[CHOOSE x \in s : TRUE]["PROCESSED"]
      OBVIOUS
    <2> HIDE DEF f
    <2> QED
      BY <2>1 DEF IsFold
  <1>3. \A p \in S : f[p] \in Nat
    OBVIOUS
  <1> HIDE DEF f
  <1>4. IsFold(it, f, S)
    BY <1>2, <1>3, SumIsFold
  <1> HIDE DEF it
  <1>5. it[S] = SumOver(f, S)
    BY <1>3, <1>4, FoldIsSum
  <1> QED
    BY <1>1, <1>5 DEF f

-----------------------------------------------------------------------------
(* The credit of an invoice against its payment rows *)

\* The sums of an invoice, of the rows given.
Rows(pay, i) == {p \in Payments : pay[p] # NoPayment /\ pay[p].invoice = i}
Paid(pay, i) == SumOver([p \in Rows(pay, i) |-> pay[p].amount], Rows(pay, i))
Back(pay, ref, i) ==
    SumOver([p \in Rows(pay, i) |-> ref[p]["PROCESSED"]], Rows(pay, i))

Finite(pay) == IsFiniteSet({p \in Payments : pay[p] # NoPayment})
PaymentType == [Payments -> {NoPayment} \cup PaymentRow]
RefundType == [Payments -> [RefundStatuses -> Nat]]

LEMMA RowsFinite ==
    ASSUME NEW pay \in PaymentType, Finite(pay), NEW i
    PROVE  /\ IsFiniteSet(Rows(pay, i))
           /\ \A p \in Rows(pay, i) : p \in Payments /\ pay[p] \in PaymentRow
                                      /\ pay[p].amount \in Nat
  <1>1. Rows(pay, i) \subseteq {p \in Payments : pay[p] # NoPayment}
    BY DEF Rows
  <1>2. IsFiniteSet(Rows(pay, i))
    BY <1>1, FS_Subset DEF Finite
  <1>3. \A p \in Rows(pay, i) : p \in Payments /\ pay[p] \in PaymentRow
    BY DEF Rows, PaymentType
  <1> QED
    BY <1>2, <1>3 DEF PaymentRow

LEMMA PaidType ==
    ASSUME NEW pay \in PaymentType, Finite(pay), NEW i
    PROVE  Paid(pay, i) \in Nat
  BY RowsFinite, SumType DEF Paid

LEMMA BackType ==
    ASSUME NEW pay \in PaymentType, Finite(pay), NEW ref \in RefundType, NEW i
    PROVE  Back(pay, ref, i) \in Nat
  <1>1. \A p \in Rows(pay, i) : ref[p]["PROCESSED"] \in Nat
    BY RowsFinite DEF RefundType, RefundStatuses
  <1> QED
    BY <1>1, RowsFinite, SumType DEF Back

LEMMA PaidInIs ==
    ASSUME payment \in PaymentType, Finite(payment), NEW i
    PROVE  PaidIn(i) = Paid(payment, i)
  <1>1. PaymentsOf(i) = Rows(payment, i)
    BY DEF PaymentsOf, Issued, Rows
  <1>2. PaidIn(i) = MapThenSumSet(LAMBDA p : payment[p].amount, Rows(payment, i))
    BY <1>1 DEF PaidIn
  <1> QED
    BY <1>2, RowsFinite, AmountsFolded DEF Paid

LEMMA ProcessedIs ==
    ASSUME payment \in PaymentType, Finite(payment), refunds \in RefundType, NEW i
    PROVE  Processed(i) = Back(payment, refunds, i)
  <1>1. PaymentsOf(i) = Rows(payment, i)
    BY DEF PaymentsOf, Issued, Rows
  <1>2. Processed(i) = MapThenSumSet(LAMBDA p : refunds[p]["PROCESSED"],
                                     Rows(payment, i))
    BY <1>1 DEF Processed
  <1>3. \A p \in Rows(payment, i) : refunds[p]["PROCESSED"] \in Nat
    BY RowsFinite DEF RefundType, RefundStatuses
  <1> QED
    BY <1>2, <1>3, RowsFinite, ProcessedFolded DEF Back

\* A new payment row adds its amount to its own invoice and to no other.
LEMMA PaidGrows ==
    ASSUME NEW pay \in PaymentType, Finite(pay), NEW p \in Payments,
           pay[p] = NoPayment, NEW row \in PaymentRow,
           NEW new \in PaymentType, new[p] = row,
           \A q \in Payments \ {p} : new[q] = pay[q], NEW i
    PROVE  /\ Finite(new)
           /\ i = row.invoice => Paid(new, i) = Paid(pay, i) + row.amount
           /\ i # row.invoice => Paid(new, i) = Paid(pay, i)
  <1>0. NoPayment \notin PaymentRow /\ row.amount \in Nat
    BY DEF NoPayment, PaymentRow, PaymentStatuses
  <1>2. {q \in Payments : new[q] # NoPayment}
            = {q \in Payments : pay[q] # NoPayment} \cup {p}
    BY <1>0 DEF PaymentType
  <1>3. Finite(new)
    BY SMTT(30), <1>2, FS_AddElement DEF Finite
  <1> DEFINE f == [q \in Rows(new, i) |-> new[q].amount]
             g == [q \in Rows(pay, i) |-> pay[q].amount]
  <1>4. Paid(pay, i) \in Nat
    BY PaidType
  <1>5. CASE i = row.invoice
    <2>1. Rows(new, i) = Rows(pay, i) \cup {p} /\ p \notin Rows(pay, i)
      BY <1>0, <1>5 DEF Rows, PaymentType
    <2>2. p \in Rows(new, i) /\ Rows(new, i) \ {p} = Rows(pay, i)
      BY <2>1
    <2>3. \A q \in Rows(pay, i) : q # p /\ f[q] = g[q]
      BY <2>1, <2>2 DEF Rows, PaymentType
    <2>4. f[p] = row.amount
      BY <2>2 DEF PaymentType
    <2>5. IsFiniteSet(Rows(new, i)) /\ \A q \in Rows(new, i) : f[q] \in Nat
      BY <1>3, RowsFinite
    <2> HIDE DEF f, g
    <2>6. SumOver(f, Rows(new, i)) = f[p] + SumOver(f, Rows(new, i) \ {p})
      BY <2>2, <2>5, SumSplit
    <2>7. SumOver(f, Rows(pay, i)) = SumOver(g, Rows(pay, i))
      BY <2>3, SumSame
    <2>8. Paid(new, i) = SumOver(f, Rows(new, i)) /\ Paid(pay, i) = SumOver(g, Rows(pay, i))
      BY DEF Paid, f, g
    <2>9. SumOver(f, Rows(new, i)) = row.amount + SumOver(g, Rows(pay, i))
      BY <2>2, <2>4, <2>6, <2>7
    <2>10. Paid(new, i) = row.amount + Paid(pay, i)
      BY <2>8, <2>9
    <2> QED
      BY <1>0, <1>3, <1>4, <1>5, <2>10
  <1>6. CASE i # row.invoice
    <2>1. Rows(new, i) = Rows(pay, i)
      BY <1>0, <1>6 DEF Rows, PaymentType
    <2>2. \A q \in Rows(pay, i) : f[q] = g[q]
      BY <1>0, <2>1 DEF Rows, PaymentType
    <2>3. Paid(new, i) = Paid(pay, i)
      BY <2>1, <2>2, SumSame DEF Paid
    <2> QED
      BY <1>3, <1>4, <1>6, <2>3
  <1> QED
    BY <1>5, <1>6

\* A refund changes no amount: what was paid in stays.
LEMMA PaidStays ==
    ASSUME NEW pay \in PaymentType, Finite(pay), NEW p \in Payments,
           pay[p] \in PaymentRow, NEW row \in PaymentRow,
           row.invoice = pay[p].invoice, row.amount = pay[p].amount,
           NEW new \in PaymentType, new[p] = row,
           \A q \in Payments \ {p} : new[q] = pay[q], NEW i
    PROVE  /\ Finite(new)
           /\ Rows(new, i) = Rows(pay, i)
           /\ Paid(new, i) = Paid(pay, i)
  <1>0. NoPayment \notin PaymentRow
    BY DEF NoPayment, PaymentRow, PaymentStatuses
  <1>2. {q \in Payments : new[q] # NoPayment} = {q \in Payments : pay[q] # NoPayment}
    BY <1>0 DEF PaymentType
  <1>3. Rows(new, i) = Rows(pay, i)
    BY <1>0 DEF Rows, PaymentType
  <1>4. \A q \in Rows(pay, i) : new[q].amount = pay[q].amount
    BY DEF Rows, PaymentType
  <1>5. Paid(new, i) = Paid(pay, i)
    BY <1>3, <1>4, SumSame DEF Paid
  <1> QED
    BY <1>2, <1>3, <1>5 DEF Finite

\* What a process read of an invoice was covered by payment rows when it read it,
\* and payment rows are never taken back.
ReadsAreCovered ==
    \A w \in Procs :
        /\ proc[w].pc = "applyPayment"
              => proc[w].read.paid <= Paid(payment, proc[w].invoice)
        /\ proc[w].pc = "reversePayment"
              => proc[w].read.paid
                    <= Paid(payment, payment[proc[w].payment].invoice)

Covered == \A i \in Invoices : invoice[i].paid <= Paid(payment, i)

CreditInv == Finite(payment) /\ Covered /\ ReadsAreCovered

LEMMA InitCreditInv == Init => CreditInv
  <1> SUFFICES ASSUME Init PROVE CreditInv
    OBVIOUS
  <1> USE ConstantsAssumption
  <1>1. payment \in PaymentType
    BY InitTypeOK DEF TypeOK, PaymentType
  <1>2. {p \in Payments : payment[p] # NoPayment} \subseteq Legacy
    BY DEF Init
  <1>3. Finite(payment)
    BY <1>2, FS_Subset DEF Finite
  <1>4. ASSUME NEW i \in Invoices
        PROVE  invoice[i].paid <= Paid(payment, i)
    <2>1. CASE i \notin LegacyPaid
      <3>1. invoice[i].paid = 0
        BY <2>1 DEF Init
      <3> QED
        BY <1>1, <1>3, <3>1, PaidType
    <2>2. CASE i \in LegacyPaid
      <3>1. PICK p \in Legacy : i = LegacyInvoice[p]
        BY <2>2 DEF LegacyPaid
      <3> DEFINE f == [q \in Rows(payment, i) |-> payment[q].amount]
      <3>2. p \in Rows(payment, i) /\ payment[p].amount = Total[i]
        BY <3>1 DEF Init, Rows, NoPayment
      <3>3. \A q \in Rows(payment, i) : f[q] \in Nat
        BY <1>1, <1>3, RowsFinite
      <3>4. IsFiniteSet(Rows(payment, i))
        BY <1>1, <1>3, RowsFinite
      <3>5. f[p] = Total[i] /\ Total[i] \in Nat
        BY <3>2
      <3> HIDE DEF f
      <3>6. SumOver(f, Rows(payment, i)) = f[p] + SumOver(f, Rows(payment, i) \ {p})
        BY <3>2, <3>3, <3>4, SumSplit
      <3>7. SumOver(f, Rows(payment, i) \ {p}) \in Nat
        <4>1. IsFiniteSet(Rows(payment, i) \ {p})
          BY <3>4, FS_RemoveElement
        <4> QED
          BY <3>3, <4>1, SumType
      <3>8. Paid(payment, i) = SumOver(f, Rows(payment, i))
        BY DEF Paid, f
      <3>9. invoice[i].paid = Total[i]
        BY <2>2 DEF Init
      <3> QED
        BY <3>5, <3>6, <3>7, <3>8, <3>9
    <2> QED
      BY <2>1, <2>2
  <1> QED
    BY <1>3, <1>4 DEF Init, CreditInv, Covered, ReadsAreCovered, Idle

LEMMA CreditInvStep == TypeInv /\ CreditInv /\ [Next]_vars => CreditInv'
  <1> SUFFICES ASSUME TypeInv, CreditInv, [Next]_vars PROVE CreditInv'
    OBVIOUS
  <1> USE ConstantsAssumption
  <1>a. TypeOK /\ RefundsIssued /\ Finite(payment) /\ Covered /\ ReadsAreCovered
        /\ payment \in PaymentType
    BY DEF TypeInv, CreditInv, TypeOK, PaymentType
  <1>b. \A w \in Procs : proc[w] \in ProcState
    BY <1>a DEF TypeOK
  <1>c. ASSUME UNCHANGED payment,
               \A i \in Invoices : invoice'[i].paid = invoice[i].paid,
               \A w \in Procs : \/ proc'[w] = proc[w]
                                \/ proc'[w].pc \notin {"applyPayment", "reversePayment"}
        PROVE  CreditInv'
    BY <1>a, <1>c DEF CreditInv, Covered, ReadsAreCovered
  <1>1. ASSUME NEW w \in Procs, NEW i \in Invoices, MarkPaidRead(w, i)
        PROVE  CreditInv'
    BY <1>1, <1>a, <1>c DEF MarkPaidRead, TypeOK
  <1>2. ASSUME NEW w \in Procs, MarkPaidApply(w)
        PROVE  CreditInv'
    <2>1. proc[w] \in MarkingPaid
      BY <1>2, <1>b, ProcKinds DEF MarkPaidApply
    <2>2. invoice[proc[w].invoice].paid <= Paid(payment, proc[w].invoice)
      BY <1>a, <2>1 DEF Covered, MarkingPaid
    <2>3. ReadsAreCovered'
      BY <1>2, <1>a, <2>2 DEF MarkPaidApply, ReadsAreCovered, TypeOK
    <2> QED
      BY <1>2, <1>a, <2>3 DEF MarkPaidApply, CreditInv, Covered
  <1>3. ASSUME NEW w \in Procs, NEW p \in Payments, MarkPaidCommit(w, p)
        PROVE  CreditInv'
    <2>1. proc[w] \in ApplyingPaid
      BY <1>3, <1>b, ProcKinds DEF MarkPaidCommit
    <2> DEFINE i == proc[w].invoice
               a == proc[w].amount
               row == [status |-> "SUCCEEDED", invoice |-> i, amount |-> a,
                       provider |-> "offline", refunded |-> 0]
               new == ApplyPayment(proc[w].read, Total[i], a)
    <2>2. /\ i \in Invoices /\ a \in Nat \ {0} /\ proc[w].read \in InvoiceRow
          /\ proc[w].read.paid \in Nat /\ Total[i] \in Nat
      BY <2>1 DEF ApplyingPaid, InvoiceRow
    <2>3. row \in PaymentRow /\ row.invoice = i /\ row.amount = a
      BY <2>2 DEF PaymentRow, PaymentStatuses, Providers
    <2>4. new.paid = proc[w].read.paid + a
      BY <2>2, ApplyPaymentRow
    <2>5. /\ payment' = [payment EXCEPT ![p] = row] /\ payment[p] = NoPayment
          /\ invoice' = [invoice EXCEPT ![i] = new]
          /\ proc' = [proc EXCEPT ![w] = Idle]
      BY <1>3 DEF MarkPaidCommit
    <2> HIDE DEF row, new
    <2>6. /\ payment' \in PaymentType /\ payment'[p] = row
          /\ \A q \in Payments \ {p} : payment'[q] = payment[q]
      BY <1>a, <2>3, <2>5 DEF PaymentType
    <2>7. \A j : /\ Finite(payment')
                 /\ Paid(payment, j) \in Nat
                 /\ Paid(payment', j) = Paid(payment, j) + (IF j = i THEN a ELSE 0)
      <3>1. ASSUME NEW j
            PROVE  /\ Finite(payment')
                   /\ j = row.invoice => Paid(payment', j) = Paid(payment, j) + row.amount
                   /\ j # row.invoice => Paid(payment', j) = Paid(payment, j)
        <4>1. /\ payment \in PaymentType /\ Finite(payment) /\ row \in PaymentRow
              /\ payment[p] = NoPayment /\ p \in Payments
          BY <1>a, <2>3, <2>5
        <4> QED
          BY <4>1, <2>6, PaidGrows
      <3> QED
        BY <1>a, <2>3, <3>1, PaidType
    <2>8. proc[w].read.paid <= Paid(payment, i)
      BY <1>3, <1>a DEF MarkPaidCommit, ReadsAreCovered
    <2>9. Covered'
      <3>1. \A j \in Invoices : invoice[j].paid \in Nat
        BY <1>a DEF TypeOK, InvoiceRow
      <3>2. \A j \in Invoices : invoice'[j].paid = IF j = i THEN new.paid ELSE invoice[j].paid
        BY <1>a, <2>2, <2>5 DEF TypeOK
      <3>3. new.paid <= Paid(payment', i)
        BY <2>2, <2>4, <2>7, <2>8
      <3>4. \A j \in Invoices : invoice[j].paid <= Paid(payment', j)
        BY <1>a, <2>2, <2>7, <3>1 DEF Covered
      <3> QED
        BY <3>2, <3>3, <3>4 DEF Covered
    <2>10. ReadsAreCovered'
      <3>1. ASSUME NEW v \in Procs, proc'[v].pc \in {"applyPayment", "reversePayment"}
            PROVE  v # w /\ proc'[v] = proc[v] /\ proc[v].read.paid \in Nat
        <4>1. v # w /\ proc'[v] = proc[v]
          BY <1>a, <2>5, <3>1 DEF TypeOK, Idle
        <4>2. proc[v] \in ApplyingPaid \cup Reversing
          BY <1>b, <3>1, <4>1, ProcKinds
        <4> QED
          BY <4>1, <4>2 DEF ApplyingPaid, Reversing, InvoiceRow
      <3>2. ASSUME NEW v \in Procs, proc'[v].pc = "applyPayment"
            PROVE  proc'[v].read.paid <= Paid(payment', proc'[v].invoice)
        <4>1. proc[v].read.paid <= Paid(payment, proc[v].invoice)
          BY <1>a, <3>1, <3>2 DEF ReadsAreCovered
        <4> QED
          BY <2>2, <2>7, <3>1, <3>2, <4>1
      <3>3. ASSUME NEW v \in Procs, proc'[v].pc = "reversePayment"
            PROVE  proc'[v].read.paid
                      <= Paid(payment', payment'[proc'[v].payment].invoice)
        <4>1. proc[v].read.paid <= Paid(payment, payment[proc[v].payment].invoice)
          BY <1>a, <3>1, <3>3 DEF ReadsAreCovered
        <4>2. payment[proc[v].payment] # NoPayment
          BY <1>a, <3>1, <3>3
             DEF RefundsIssued, PaymentRow, PaymentStatuses, NoPayment
        <4>3. payment'[proc[v].payment] = payment[proc[v].payment]
          BY <1>a, <2>5, <4>2 DEF PaymentType
        <4> QED
          BY <2>2, <2>7, <3>1, <3>3, <4>1, <4>3
      <3> QED
        BY <3>2, <3>3 DEF ReadsAreCovered
    <2> QED
      BY <2>7, <2>9, <2>10 DEF CreditInv
  <1>4. ASSUME NEW w \in Procs, NEW p \in Issued, NEW a \in 1..RefundCap,
               RefundRead(w, p, a)
        PROVE  CreditInv'
    BY <1>4, <1>a, <1>c DEF RefundRead, TypeOK
  <1>5. ASSUME NEW w \in Procs, RefundRecord(w)
        PROVE  CreditInv'
    BY <1>5, <1>a, <1>c DEF RefundRecord, TypeOK, Idle
  <1>6. ASSUME NEW w \in Procs, RefundReverse(w)
        PROVE  CreditInv'
    <2>1. payment[proc[w].payment].invoice \in Invoices
      BY <1>6, <1>a DEF RefundsIssued, RefundReverse, PaymentRow
    <2>2. invoice[payment[proc[w].payment].invoice].paid
             <= Paid(payment, payment[proc[w].payment].invoice)
      BY <1>a, <2>1 DEF Covered
    <2>3. ReadsAreCovered'
      BY <1>6, <1>a, <2>2 DEF RefundReverse, ReadsAreCovered, TypeOK
    <2> QED
      BY <1>6, <1>a, <2>3 DEF RefundReverse, CreditInv, Covered
  <1>7. ASSUME NEW w \in Procs, RefundCommit(w)
        PROVE  CreditInv'
    <2>1. proc[w] \in Reversing
      BY <1>7, <1>b, ProcKinds DEF RefundCommit
    <2> DEFINE p == proc[w].payment
               a == proc[w].amount
               i == payment[p].invoice
               row == RefundedPayment(payment[p], proc[w].refunded + a)
               new == ReversePayment(proc[w].read, a, proc[w].overdue)
    <2>2. /\ p \in Payments /\ a \in Nat \ {0} /\ proc[w].read \in InvoiceRow
          /\ proc[w].read.paid \in Nat /\ proc[w].refunded + a \in Nat
      BY <2>1 DEF Reversing, InvoiceRow
    <2>3. payment[p] \in PaymentRow /\ i \in Invoices
      BY <1>7, <1>a DEF RefundsIssued, RefundCommit, PaymentRow
    <2>4. row \in PaymentRow /\ row.invoice = i /\ row.amount = payment[p].amount
      BY <2>2, <2>3, RefundedPaymentRow
    <2>5. new.paid \in Nat /\ new.paid <= proc[w].read.paid
      BY <2>2 DEF ReversePayment
    <2>6. /\ payment' = [payment EXCEPT ![p] = row]
          /\ invoice' = [invoice EXCEPT ![i] = new]
          /\ proc' = [proc EXCEPT ![w] = Idle]
      BY <1>7 DEF RefundCommit
    <2>7. proc[w].read.paid <= Paid(payment, i)
      BY <1>7, <1>a DEF RefundCommit, ReadsAreCovered
    <2> HIDE DEF row, new
    <2>8. Finite(payment') /\ \A j : Paid(payment', j) = Paid(payment, j)
      <3>0. /\ payment' \in PaymentType /\ payment'[p] = row
            /\ \A q \in Payments \ {p} : payment'[q] = payment[q]
        BY <1>a, <2>2, <2>4, <2>6 DEF PaymentType
      <3>1. ASSUME NEW j
            PROVE  Finite(payment') /\ Paid(payment', j) = Paid(payment, j)
        BY <1>a, <2>2, <2>3, <2>4, <3>0, PaidStays
      <3> QED
        BY <3>1
    <2>9. Paid(payment, i) \in Nat
      BY <1>a, PaidType
    <2>10. new.paid <= Paid(payment, i)
      BY <2>2, <2>5, <2>7, <2>9
    <2>11. Covered'
      BY <1>a, <2>3, <2>6, <2>8, <2>10 DEF Covered, TypeOK
    <2>12. \A q \in Payments : payment'[q].invoice = payment[q].invoice
      BY <1>a, <2>2, <2>4, <2>6 DEF PaymentType
    <2>13. \A v \in Procs : proc'[v].pc = "reversePayment" => proc[v].payment \in Payments
      <3>1. ASSUME NEW v \in Procs, proc'[v].pc = "reversePayment"
            PROVE  proc[v].payment \in Payments
        <4>1. proc[v] \in Reversing
          BY <1>a, <1>b, <2>6, <3>1, ProcKinds DEF TypeOK, Idle
        <4> QED
          BY <4>1 DEF Reversing
      <3> QED
        BY <3>1
    <2>14. ReadsAreCovered'
      <3>1. \A v \in Procs : proc'[v].pc \in {"applyPayment", "reversePayment"}
                                => proc'[v] = proc[v]
        BY <1>a, <2>6 DEF TypeOK, Idle
      <3> QED
        BY <1>a, <2>8, <2>12, <2>13, <3>1 DEF ReadsAreCovered
    <2> QED
      BY <2>8, <2>11, <2>14 DEF CreditInv
  <1>8. ASSUME NEW w \in Procs, MarkOverdueRead(w)
        PROVE  CreditInv'
    BY <1>8, <1>a, <1>c DEF MarkOverdueRead, TypeOK
  <1>9. ASSUME NEW w \in Procs, NEW i \in Invoices, MarkOverdueUpdate(w, i)
        PROVE  CreditInv'
    <2>1. \A j \in Invoices : invoice'[j].paid = invoice[j].paid
      BY <1>9, <1>a DEF MarkOverdueUpdate, TypeOK, InvoiceRow
    <2> QED
      BY <1>9, <1>a, <1>c, <2>1 DEF MarkOverdueUpdate, TypeOK, Idle
  <1>10. ASSUME NEW w \in Procs, Abandon(w)
         PROVE  CreditInv'
    BY <1>10, <1>a, <1>c DEF Abandon, TypeOK, Idle
  <1>11. ASSUME NEW i \in Invoices, DayPasses(i)
         PROVE  CreditInv'
    BY <1>11, <1>c DEF DayPasses
  <1>12. CASE UNCHANGED vars
    BY <1>12, <1>c DEF vars
  <1> QED
    BY <1>1, <1>2, <1>3, <1>4, <1>5, <1>6, <1>7, <1>8, <1>9, <1>10, <1>11, <1>12
       DEF Next, MarkPaid, Refund, MarkOverdue

\* However many staff mark an invoice paid or refund it at the same moment, and
\* wherever they die, its credit is never more than its payment rows add up to:
\* applyPayment adds to an amount that rows covered when it was read, and the row
\* it adds is committed with it.
THEOREM NoCreditWithoutPaymentHolds == Spec => []NoCreditWithoutPayment
  <1>1. TypeInv /\ CreditInv => NoCreditWithoutPayment
    <2> SUFFICES ASSUME TypeInv, CreditInv PROVE NoCreditWithoutPayment
      OBVIOUS
    <2>1. payment \in PaymentType /\ Finite(payment) /\ Covered
      BY DEF TypeInv, TypeOK, PaymentType, CreditInv
    <2> QED
      BY <2>1, PaidInIs DEF Covered, NoCreditWithoutPayment
  <1> QED
    BY <1>1, InitCreditInv, CreditInvStep, TypeCorrect, PTL DEF Spec

-----------------------------------------------------------------------------
(* The refunds recorded against what the gateway returned *)

\* Refunds the gateway has processed and no row records yet.
Moving(p, pr) ==
    {w \in Procs : /\ pr[w].pc \in {"refund", "reversePayment"}
                   /\ pr[w].payment = p
                   /\ pr[w].pc = "refund" => pr[w].outcome = "PROCESSED"}
Pending(p, pr) == SumOver([w \in Moving(p, pr) |-> pr[w].amount], Moving(p, pr))

ProcType == [Procs -> ProcState]

LEMMA MovingAmounts ==
    ASSUME NEW pr \in ProcType, NEW p
    PROVE  \A w \in Moving(p, pr) : w \in Procs /\ pr[w].amount \in Nat
  <1>1. ASSUME NEW w \in Moving(p, pr)
        PROVE  pr[w] \in Refunding \cup Reversing
    BY ProcKinds DEF Moving, ProcType
  <1> QED
    BY <1>1 DEF Moving, Refunding, Reversing

\* A process that takes up no refund leaves no more pending.
LEMMA PendingShrinks ==
    ASSUME NEW pr \in ProcType, NEW new \in ProcType, NEW w \in Procs, NEW p,
           IsFiniteSet(Moving(p, pr)),
           \A v \in Procs \ {w} : new[v] = pr[v],
           w \in Moving(p, new) => w \in Moving(p, pr) /\ new[w].amount = pr[w].amount
    PROVE  /\ IsFiniteSet(Moving(p, new))
           /\ Pending(p, new) \in Nat /\ Pending(p, pr) \in Nat
           /\ Pending(p, new) <= Pending(p, pr)
  <1> DEFINE f == [v \in Moving(p, pr) |-> pr[v].amount]
             g == [v \in Moving(p, new) |-> new[v].amount]
  <1>1. Moving(p, new) \subseteq Moving(p, pr)
    BY DEF Moving
  <1>2. IsFiniteSet(Moving(p, new))
    BY <1>1, FS_Subset
  <1>3. \A v \in Moving(p, pr) : f[v] \in Nat
    BY MovingAmounts
  <1>4. \A v \in Moving(p, new) : g[v] \in Nat /\ g[v] = f[v]
    <2>1. \A v \in Moving(p, new) : v \in Procs /\ new[v].amount = pr[v].amount
      BY <1>1 DEF Moving
    <2> QED
      BY <1>1, <1>3, <2>1
  <1>5. \A v \in Moving(p, new) : g[v] <= f[v]
    BY <1>4
  <1> HIDE DEF f, g
  <1>6. SumOver(f, Moving(p, pr)) \in Nat /\ SumOver(g, Moving(p, new)) \in Nat
    BY <1>2, <1>3, <1>4, SumType
  <1>7. SumOver(g, Moving(p, new)) <= SumOver(f, Moving(p, pr))
    BY <1>1, <1>3, <1>4, <1>5, SumMonotonic
  <1> QED
    BY <1>2, <1>6, <1>7 DEF Pending, f, g

\* A process that takes up a refund, or is done with it, changes what is pending
\* by its amount.
LEMMA PendingSplits ==
    ASSUME NEW small \in ProcType, NEW big \in ProcType, NEW w \in Procs, NEW p,
           IsFiniteSet(Moving(p, small)) \/ IsFiniteSet(Moving(p, big)),
           \A v \in Procs \ {w} : small[v] = big[v],
           w \in Moving(p, big), w \notin Moving(p, small)
    PROVE  /\ IsFiniteSet(Moving(p, small)) /\ IsFiniteSet(Moving(p, big))
           /\ Pending(p, small) \in Nat
           /\ Pending(p, big) = big[w].amount + Pending(p, small)
  <1> DEFINE f == [v \in Moving(p, big) |-> big[v].amount]
             g == [v \in Moving(p, small) |-> small[v].amount]
  <1>1. /\ Moving(p, big) = Moving(p, small) \cup {w}
        /\ Moving(p, small) = Moving(p, big) \ {w}
    BY DEF Moving
  <1>2. IsFiniteSet(Moving(p, small)) /\ IsFiniteSet(Moving(p, big))
    BY <1>1, FS_AddElement, FS_RemoveElement
  <1>3. \A v \in Moving(p, big) : f[v] \in Nat
    BY MovingAmounts
  <1>4. \A v \in Moving(p, small) : g[v] \in Nat /\ f[v] = g[v]
    <2>1. \A v \in Moving(p, small) : v \in Procs /\ big[v].amount = small[v].amount
      BY <1>1 DEF Moving
    <2> QED
      BY <1>1, <1>3, <2>1
  <1>5. f[w] = big[w].amount
    OBVIOUS
  <1> HIDE DEF f, g
  <1>6. SumOver(f, Moving(p, big)) = f[w] + SumOver(f, Moving(p, big) \ {w})
    BY <1>2, <1>3, SumSplit
  <1>7. SumOver(f, Moving(p, small)) = SumOver(g, Moving(p, small))
    BY <1>4, SumSame
  <1>8. SumOver(g, Moving(p, small)) \in Nat
    BY <1>2, <1>4, SumType
  <1>9. SumOver(f, Moving(p, big)) = big[w].amount + SumOver(g, Moving(p, small))
    BY <1>1, <1>5, <1>6, <1>7
  <1> QED
    BY <1>2, <1>8, <1>9 DEF Pending, f, g

\* What the gateway returned covers what is recorded and what is about to be.
GatewayInv ==
    \A p \in Payments :
        /\ IsFiniteSet(Moving(p, proc))
        /\ refunds[p]["PROCESSED"] + Pending(p, proc) <= gatewayOut[p]

LEMMA InitGatewayInv == Init => GatewayInv
  <1> SUFFICES ASSUME Init, NEW p \in Payments
               PROVE  /\ IsFiniteSet(Moving(p, proc))
                      /\ refunds[p]["PROCESSED"] + Pending(p, proc) <= gatewayOut[p]
    BY DEF GatewayInv
  <1>1. Moving(p, proc) = {}
    BY DEF Init, Moving, Idle
  <1>2. IsFiniteSet({})
    BY FS_EmptySet
  <1>3. Pending(p, proc) = 0
    BY <1>1, SumEmpty DEF Pending
  <1>4. refunds[p]["PROCESSED"] = 0 /\ gatewayOut[p] = 0
    BY DEF Init, RefundStatuses
  <1> QED
    BY <1>1, <1>2, <1>3, <1>4

LEMMA GatewayInvStep == TypeInv /\ GatewayInv /\ [Next]_vars => GatewayInv'
  <1> SUFFICES ASSUME TypeInv, TypeInv', GatewayInv, [Next]_vars PROVE GatewayInv'
    BY TypeInvStep
  <1> USE ConstantsAssumption
  <1>a. /\ TypeOK /\ TypeOK' /\ proc \in ProcType /\ proc' \in ProcType
        /\ \A p \in Payments : gatewayOut[p] \in Nat /\ refunds[p]["PROCESSED"] \in Nat
    BY DEF TypeInv, TypeOK, ProcType, RefundStatuses
  <1>b. \A w \in Procs : proc[w] \in ProcState
    BY <1>a DEF TypeOK
  <1>c. ASSUME NEW w \in Procs, \A v \in Procs \ {w} : proc'[v] = proc[v],
               \A p \in Payments :
                  w \in Moving(p, proc')
                      => w \in Moving(p, proc) /\ proc'[w].amount = proc[w].amount,
               \A p \in Payments : refunds'[p]["PROCESSED"] = refunds[p]["PROCESSED"],
               \A p \in Payments : gatewayOut'[p] = gatewayOut[p]
        PROVE  GatewayInv'
    <2> SUFFICES ASSUME NEW p \in Payments
                 PROVE  /\ IsFiniteSet(Moving(p, proc'))
                        /\ refunds'[p]["PROCESSED"] + Pending(p, proc')
                              <= gatewayOut'[p]
      BY DEF GatewayInv
    <2>1. /\ IsFiniteSet(Moving(p, proc))
          /\ refunds[p]["PROCESSED"] + Pending(p, proc) <= gatewayOut[p]
      BY DEF GatewayInv
    <2>2. /\ IsFiniteSet(Moving(p, proc'))
          /\ Pending(p, proc') \in Nat /\ Pending(p, proc) \in Nat
          /\ Pending(p, proc') <= Pending(p, proc)
      BY <1>a, <1>c, <2>1, PendingShrinks
    <2> QED
      BY <1>a, <1>c, <2>1, <2>2
  <1>d. ASSUME NEW w \in Procs, \A v \in Procs \ {w} : proc'[v] = proc[v],
               proc'[w].pc \notin {"refund", "reversePayment"},
               \A p \in Payments : refunds'[p]["PROCESSED"] = refunds[p]["PROCESSED"],
               \A p \in Payments : gatewayOut'[p] = gatewayOut[p]
        PROVE  GatewayInv'
    <2>1. \A p \in Payments : w \notin Moving(p, proc')
      BY <1>d DEF Moving
    <2> QED
      BY <1>c, <1>d, <2>1
  <1>1. ASSUME NEW w \in Procs, NEW i \in Invoices, MarkPaidRead(w, i)
        PROVE  GatewayInv'
    BY <1>1, <1>a, <1>d DEF MarkPaidRead, TypeOK
  <1>2. ASSUME NEW w \in Procs, MarkPaidApply(w)
        PROVE  GatewayInv'
    BY <1>2, <1>a, <1>d DEF MarkPaidApply, TypeOK
  <1>3. ASSUME NEW w \in Procs, NEW p \in Payments, MarkPaidCommit(w, p)
        PROVE  GatewayInv'
    BY <1>3, <1>a, <1>d DEF MarkPaidCommit, TypeOK, Idle
  <1>4. ASSUME NEW w \in Procs, NEW p \in Issued, NEW a \in 1..RefundCap,
               RefundRead(w, p, a)
        PROVE  GatewayInv'
    <2>1. p \in Payments
      BY DEF Issued
    <2>2. PICK outcome \in ProviderOutcomes(payment[p].provider) :
             /\ proc' = [proc EXCEPT ![w] =
                            [pc |-> "refund", payment |-> p, amount |-> a,
                             refunded |-> payment[p].refunded, outcome |-> outcome]]
             /\ gatewayOut' = IF outcome = "PROCESSED"
                              THEN [gatewayOut EXCEPT ![p] = @ + a]
                              ELSE gatewayOut
      BY <1>4 DEF RefundRead
    <2>3. /\ proc[w] = Idle /\ refunds' = refunds
          /\ \A v \in Procs \ {w} : proc'[v] = proc[v]
          /\ proc'[w].pc = "refund" /\ proc'[w].payment = p
          /\ proc'[w].amount = a /\ proc'[w].outcome = outcome
      BY <1>4, <1>a, <2>2 DEF RefundRead, TypeOK
    <2>4. CASE outcome # "PROCESSED"
      <3>1. \A q \in Payments : w \notin Moving(q, proc')
        BY <2>3, <2>4 DEF Moving
      <3> QED
        BY <1>c, <2>2, <2>3, <2>4, <3>1
    <2>5. CASE outcome = "PROCESSED"
      <3> SUFFICES ASSUME NEW q \in Payments
                   PROVE  /\ IsFiniteSet(Moving(q, proc'))
                          /\ refunds'[q]["PROCESSED"] + Pending(q, proc')
                                <= gatewayOut'[q]
        BY DEF GatewayInv
      <3>1. /\ IsFiniteSet(Moving(q, proc))
            /\ refunds[q]["PROCESSED"] + Pending(q, proc) <= gatewayOut[q]
        BY DEF GatewayInv
      <3>2. CASE q = p
        <4>1. w \in Moving(q, proc') /\ w \notin Moving(q, proc)
          BY <2>3, <2>5, <3>2 DEF Moving, Idle
        <4>2. /\ IsFiniteSet(Moving(q, proc')) /\ Pending(q, proc) \in Nat
              /\ Pending(q, proc') = a + Pending(q, proc)
          BY <1>a, <2>3, <3>1, <4>1, PendingSplits
        <4>3. gatewayOut'[q] = gatewayOut[q] + a
          BY <1>a, <2>2, <2>5, <3>2 DEF TypeOK
        <4> QED
          BY <1>a, <2>3, <3>1, <4>2, <4>3
      <3>3. CASE q # p
        <4>1. w \notin Moving(q, proc')
          BY <2>3, <3>3 DEF Moving
        <4>2. /\ IsFiniteSet(Moving(q, proc'))
              /\ Pending(q, proc') \in Nat /\ Pending(q, proc) \in Nat
              /\ Pending(q, proc') <= Pending(q, proc)
          BY <1>a, <2>3, <3>1, <4>1, PendingShrinks
        <4>3. gatewayOut'[q] = gatewayOut[q]
          BY <1>a, <2>2, <3>3 DEF TypeOK
        <4> QED
          BY <1>a, <2>3, <3>1, <4>2, <4>3
      <3> QED
        BY <3>2, <3>3
    <2> QED
      BY <2>4, <2>5
  <1>5. ASSUME NEW w \in Procs, RefundRecord(w)
        PROVE  GatewayInv'
    <2>1. proc[w] \in Refunding
      BY <1>5, <1>b, ProcKinds DEF RefundRecord
    <2>2. \A p \in Payments : refunds'[p]["PROCESSED"] = refunds[p]["PROCESSED"]
      BY <1>5, <1>a, <2>1 DEF RefundRecord, TypeOK, Refunding, RefundStatuses
    <2> QED
      BY <1>5, <1>a, <1>d, <2>2 DEF RefundRecord, TypeOK, Idle
  <1>6. ASSUME NEW w \in Procs, RefundReverse(w)
        PROVE  GatewayInv'
    <2>1. /\ \A v \in Procs \ {w} : proc'[v] = proc[v]
          /\ refunds' = refunds /\ gatewayOut' = gatewayOut
          /\ proc'[w].payment = proc[w].payment /\ proc'[w].amount = proc[w].amount
          /\ proc[w].pc = "refund" /\ proc[w].outcome = "PROCESSED"
      BY <1>6, <1>a DEF RefundReverse, TypeOK
    <2>2. \A p \in Payments :
             w \in Moving(p, proc')
                 => w \in Moving(p, proc) /\ proc'[w].amount = proc[w].amount
      BY <2>1 DEF Moving
    <2> QED
      BY <1>c, <2>1, <2>2
  <1>7. ASSUME NEW w \in Procs, RefundCommit(w)
        PROVE  GatewayInv'
    <2>1. proc[w] \in Reversing
      BY <1>7, <1>b, ProcKinds DEF RefundCommit
    <2> DEFINE p == proc[w].payment
               a == proc[w].amount
    <2>2. /\ \A v \in Procs \ {w} : proc'[v] = proc[v]
          /\ proc'[w] = Idle /\ gatewayOut' = gatewayOut
          /\ refunds' = [refunds EXCEPT ![p]["PROCESSED"] = @ + a]
          /\ p \in Payments /\ a \in Nat /\ proc[w].pc = "reversePayment"
      BY <1>7, <1>a, <2>1 DEF RefundCommit, TypeOK, Reversing
    <2> SUFFICES ASSUME NEW q \in Payments
                 PROVE  /\ IsFiniteSet(Moving(q, proc'))
                        /\ refunds'[q]["PROCESSED"] + Pending(q, proc')
                              <= gatewayOut'[q]
      BY DEF GatewayInv
    <2>3. /\ IsFiniteSet(Moving(q, proc))
          /\ refunds[q]["PROCESSED"] + Pending(q, proc) <= gatewayOut[q]
      BY DEF GatewayInv
    <2>4. w \notin Moving(q, proc')
      BY <2>2 DEF Moving, Idle
    <2>5. CASE q = p
      <3>1. w \in Moving(q, proc)
        BY <2>2, <2>5 DEF Moving
      <3>2. /\ IsFiniteSet(Moving(q, proc')) /\ Pending(q, proc') \in Nat
            /\ Pending(q, proc) = a + Pending(q, proc')
        BY <1>a, <2>2, <2>3, <2>4, <3>1, PendingSplits
      <3>3. refunds'[q]["PROCESSED"] = refunds[q]["PROCESSED"] + a
        BY <1>a, <2>2, <2>5 DEF TypeOK, RefundStatuses
      <3> QED
        BY <1>a, <2>2, <2>3, <3>2, <3>3
    <2>6. CASE q # p
      <3>1. /\ IsFiniteSet(Moving(q, proc'))
            /\ Pending(q, proc') \in Nat /\ Pending(q, proc) \in Nat
            /\ Pending(q, proc') <= Pending(q, proc)
        BY <1>a, <2>2, <2>3, <2>4, PendingShrinks
      <3>2. refunds'[q]["PROCESSED"] = refunds[q]["PROCESSED"]
        BY <1>a, <2>2, <2>6 DEF TypeOK
      <3> QED
        BY <1>a, <2>2, <2>3, <3>1, <3>2
    <2> QED
      BY <2>5, <2>6
  <1>8. ASSUME NEW w \in Procs, MarkOverdueRead(w)
        PROVE  GatewayInv'
    BY <1>8, <1>a, <1>d DEF MarkOverdueRead, TypeOK
  <1>9. ASSUME NEW w \in Procs, NEW i \in Invoices, MarkOverdueUpdate(w, i)
        PROVE  GatewayInv'
    BY <1>9, <1>a, <1>d DEF MarkOverdueUpdate, TypeOK, Idle
  <1>10. ASSUME NEW w \in Procs, Abandon(w)
         PROVE  GatewayInv'
    BY <1>10, <1>a, <1>d DEF Abandon, TypeOK, Idle
  <1>11. ASSUME NEW i \in Invoices, DayPasses(i)
         PROVE  GatewayInv'
    BY <1>11 DEF DayPasses, GatewayInv
  <1>12. CASE UNCHANGED vars
    BY <1>12 DEF vars, GatewayInv
  <1> QED
    BY <1>1, <1>2, <1>3, <1>4, <1>5, <1>6, <1>7, <1>8, <1>9, <1>10, <1>11, <1>12
       DEF Next, MarkPaid, Refund, MarkOverdue

\* A refund is recorded as processed only for money the gateway returned, however
\* many refunds of one payment are on their way: each is still pending until its
\* own row is written, and one that dies leaves the gateway ahead.
THEOREM NoPhantomRefundHolds == Spec => []NoPhantomRefund
  <1>1. TypeInv /\ GatewayInv => NoPhantomRefund
    <2> SUFFICES ASSUME TypeInv, GatewayInv, NEW p \in Payments
                 PROVE  refunds[p]["PROCESSED"] <= gatewayOut[p]
      BY DEF NoPhantomRefund
    <2>1. /\ refunds[p]["PROCESSED"] \in Nat /\ gatewayOut[p] \in Nat
          /\ proc \in ProcType
      BY DEF TypeInv, TypeOK, RefundStatuses, ProcType
    <2>2. /\ IsFiniteSet(Moving(p, proc))
          /\ refunds[p]["PROCESSED"] + Pending(p, proc) <= gatewayOut[p]
      BY DEF GatewayInv
    <2>3. Pending(p, proc) \in Nat
      BY <2>1, <2>2, MovingAmounts, SumType DEF Pending
    <2> QED
      BY <2>1, <2>2, <2>3
  <1> QED
    BY <1>1, InitGatewayInv, GatewayInvStep, TypeCorrect, PTL DEF Spec

-----------------------------------------------------------------------------
(* The ledger of an invoice when requests do not overlap.  Every step of            *)
(* InvoiceLedger keeps it, and every step of Settlement is one of those or none.    *)

\* A new row that nothing was refunded of leaves what was refunded.
LEMMA BackStays ==
    ASSUME NEW pay \in PaymentType, Finite(pay), NEW ref \in RefundType,
           NEW p \in Payments, pay[p] = NoPayment, ref[p]["PROCESSED"] = 0,
           NEW new \in PaymentType, Finite(new), new[p] # NoPayment,
           \A q \in Payments \ {p} : new[q] = pay[q], NEW i
    PROVE  Back(new, ref, i) = Back(pay, ref, i)
  <1> DEFINE f == [q \in Rows(new, i) |-> ref[q]["PROCESSED"]]
             g == [q \in Rows(pay, i) |-> ref[q]["PROCESSED"]]
  <1>1. CASE new[p].invoice # i
    <2>1. Rows(new, i) = Rows(pay, i)
      BY <1>1 DEF Rows
    <2> QED
      BY <2>1 DEF Back
  <1>2. CASE new[p].invoice = i
    <2>1. p \in Rows(new, i) /\ Rows(new, i) \ {p} = Rows(pay, i)
      BY <1>2 DEF Rows
    <2>2. IsFiniteSet(Rows(new, i)) /\ \A q \in Rows(new, i) : f[q] \in Nat
      BY RowsFinite DEF RefundType, RefundStatuses
    <2>3. f[p] = 0 /\ \A q \in Rows(pay, i) : f[q] = g[q]
      BY <2>1
    <2>4. Back(pay, ref, i) \in Nat
      BY BackType
    <2>5. Back(new, ref, i) = SumOver(f, Rows(new, i))
          /\ Back(pay, ref, i) = SumOver(g, Rows(pay, i))
      BY DEF Back
    <2> HIDE DEF f, g
    <2>6. SumOver(f, Rows(new, i)) = f[p] + SumOver(f, Rows(new, i) \ {p})
      BY <2>1, <2>2, SumSplit
    <2>7. SumOver(f, Rows(pay, i)) = SumOver(g, Rows(pay, i))
      BY <2>3, SumSame
    <2> QED
      BY <2>1, <2>3, <2>4, <2>5, <2>6, <2>7
  <1> QED
    BY <1>1, <1>2

\* A processed refund adds to its own invoice and to no other.
LEMMA BackRises ==
    ASSUME NEW pay \in PaymentType, Finite(pay), NEW ref \in RefundType,
           NEW later \in RefundType, NEW p \in Payments, NEW a \in Nat,
           later[p]["PROCESSED"] = ref[p]["PROCESSED"] + a,
           \A q \in Payments \ {p} : later[q]["PROCESSED"] = ref[q]["PROCESSED"],
           NEW i
    PROVE  /\ p \in Rows(pay, i) => Back(pay, later, i) = Back(pay, ref, i) + a
           /\ p \notin Rows(pay, i) => Back(pay, later, i) = Back(pay, ref, i)
  <1> DEFINE S == Rows(pay, i)
             f == [q \in S |-> later[q]["PROCESSED"]]
             g == [q \in S |-> ref[q]["PROCESSED"]]
  <1>1. IsFiniteSet(S) /\ S \subseteq Payments
    BY RowsFinite DEF Rows
  <1>2. \A q \in S : f[q] \in Nat /\ g[q] \in Nat
    BY <1>1 DEF RefundType, RefundStatuses
  <1>3. \A q \in S \ {p} : f[q] = g[q]
    BY <1>1
  <1>4. p \in S => f[p] = g[p] + a
    OBVIOUS
  <1>5. Back(pay, later, i) = SumOver(f, S) /\ Back(pay, ref, i) = SumOver(g, S)
    BY DEF Back
  <1> HIDE DEF S, f, g
  <1>6. SumOver(f, S \ {p}) = SumOver(g, S \ {p})
    BY <1>3, SumSame
  <1>7. CASE p \in S
    <2>1. SumOver(f, S) = f[p] + SumOver(f, S \ {p})
      BY <1>1, <1>2, <1>7, SumSplit
    <2>2. SumOver(g, S) = g[p] + SumOver(g, S \ {p})
      BY <1>1, <1>2, <1>7, SumSplit
    <2>3. SumOver(g, S \ {p}) \in Nat
      <3>1. IsFiniteSet(S \ {p})
        BY <1>1, FS_RemoveElement
      <3> QED
        BY <1>2, <3>1, SumType
    <2>4. Back(pay, later, i) = Back(pay, ref, i) + a
      BY <1>2, <1>4, <1>5, <1>6, <1>7, <2>1, <2>2, <2>3
    <2> QED
      BY <1>7, <2>4 DEF S
  <1>8. CASE p \notin S
    <2>1. S \ {p} = S
      BY <1>8
    <2> QED
      BY <1>5, <1>6, <1>8, <2>1 DEF S
  <1> QED
    BY <1>7, <1>8

\* What is left of one payment is at most what is left of its invoice.
LEMMA LeftOfOne ==
    ASSUME NEW pay \in PaymentType, Finite(pay), NEW ref \in RefundType, NEW i,
           \A q \in Rows(pay, i) : ref[q]["PROCESSED"] <= pay[q].amount,
           NEW p \in Rows(pay, i)
    PROVE  /\ pay[p].amount \in Nat /\ ref[p]["PROCESSED"] \in Nat
           /\ Paid(pay, i) \in Nat /\ Back(pay, ref, i) \in Nat
           /\ pay[p].amount - ref[p]["PROCESSED"] <= Paid(pay, i) - Back(pay, ref, i)
  <1> DEFINE S == Rows(pay, i)
             f == [q \in S |-> pay[q].amount]
             g == [q \in S |-> ref[q]["PROCESSED"]]
  <1>1. IsFiniteSet(S) /\ S \subseteq Payments /\ p \in S
    BY RowsFinite DEF Rows
  <1>2. \A q \in S : f[q] \in Nat /\ g[q] \in Nat /\ g[q] <= f[q]
    BY <1>1, RowsFinite DEF RefundType, RefundStatuses
  <1>3. Paid(pay, i) = SumOver(f, S) /\ Back(pay, ref, i) = SumOver(g, S)
    BY DEF Paid, Back
  <1>4. f[p] = pay[p].amount /\ g[p] = ref[p]["PROCESSED"]
    OBVIOUS
  <1> HIDE DEF S, f, g
  <1>5. IsFiniteSet(S \ {p})
    BY <1>1, FS_RemoveElement
  <1>6. SumOver(f, S) = f[p] + SumOver(f, S \ {p})
    BY <1>1, <1>2, SumSplit
  <1>7. SumOver(g, S) = g[p] + SumOver(g, S \ {p})
    BY <1>1, <1>2, SumSplit
  <1>8. SumOver(f, S \ {p}) \in Nat /\ SumOver(g, S \ {p}) \in Nat
    BY <1>2, <1>5, SumType
  <1>9. SumOver(g, S \ {p}) <= SumOver(f, S \ {p})
    <2>1. \A q \in S \ {p} : f[q] \in Nat /\ g[q] \in Nat /\ g[q] <= f[q]
      BY <1>2
    <2> QED
      BY <1>5, <2>1, SumMonotonic
  <1>10. f[p] \in Nat /\ g[p] \in Nat
    BY <1>1, <1>2
  <1>11. f[p] - g[p] <= SumOver(f, S) - SumOver(g, S)
    BY <1>6, <1>7, <1>8, <1>9, <1>10
  <1> QED
    BY <1>3, <1>4, <1>6, <1>7, <1>8, <1>10, <1>11

\* The ledger as sums of rows, and the two places that hold what was refunded of a
\* payment: its own column and its Refund rows.
RefundedIsProcessed ==
    \A p \in Payments :
        refunds[p]["PROCESSED"] = IF payment[p] = NoPayment THEN 0
                                  ELSE payment[p].refunded
Balanced ==
    \A i \in Invoices :
        invoice[i].paid = Paid(payment, i) - Back(payment, refunds, i)

LedgerInv == RefundedIsProcessed /\ Balanced

LEMMA InitLedgerInv == Init => LedgerInv
  <1> SUFFICES ASSUME Init PROVE LedgerInv
    OBVIOUS
  <1> USE ConstantsAssumption
  <1>1. payment \in PaymentType /\ refunds \in RefundType /\ Finite(payment)
    BY InitTypeOK, InitCreditInv DEF TypeOK, PaymentType, RefundType, CreditInv
  <1>2. \A p \in Payments : refunds[p]["PROCESSED"] = 0
    BY DEF Init, RefundStatuses
  <1>3. RefundedIsProcessed
    <2>1. \A p \in Payments : payment[p] = NoPayment \/ payment[p].refunded = 0
      BY DEF Init
    <2> QED
      BY <1>2, <2>1 DEF RefundedIsProcessed
  <1>4. ASSUME NEW i \in Invoices
        PROVE  Back(payment, refunds, i) = 0
    <2> DEFINE f == [q \in Rows(payment, i) |-> refunds[q]["PROCESSED"]]
    <2>1. \A q \in Rows(payment, i) : f[q] = 0
      BY <1>2 DEF Rows
    <2>2. Units(f, Rows(payment, i)) = {}
      BY <2>1 DEF Units
    <2> HIDE DEF f
    <2>3. SumOver(f, Rows(payment, i)) = 0
      BY <2>2, FS_EmptySet DEF SumOver
    <2> QED
      BY <2>3 DEF Back, f
  <1>5. ASSUME NEW i \in Invoices
        PROVE  invoice[i].paid = Paid(payment, i)
    <2> DEFINE f == [q \in Rows(payment, i) |-> payment[q].amount]
    <2>1. CASE i \notin LegacyPaid
      <3>1. invoice[i].paid = 0
        BY <2>1 DEF Init
      <3>2. Rows(payment, i) = {}
        BY <2>1 DEF Init, Rows, LegacyPaid
      <3> QED
        BY <3>1, <3>2, SumEmpty DEF Paid
    <2>2. CASE i \in LegacyPaid
      <3>1. PICK p \in Legacy : i = LegacyInvoice[p]
        BY <2>2 DEF LegacyPaid
      <3>2. Rows(payment, i) = {p}
        BY <3>1 DEF Init, Rows, NoPayment
      <3>3. f[p] = Total[i] /\ Total[i] \in Nat
        BY <3>1, <3>2 DEF Init
      <3>4. IsFiniteSet({p}) /\ {p} \ {p} = {}
        BY FS_Singleton
      <3>5. Paid(payment, i) = SumOver(f, {p})
        BY <3>2 DEF Paid
      <3> HIDE DEF f
      <3>6. SumOver(f, {p}) = f[p] + SumOver(f, {})
        BY <3>3, <3>4, SumSplit
      <3>7. Paid(payment, i) = Total[i]
        BY <3>3, <3>5, <3>6, SumEmpty
      <3>8. invoice[i].paid = Total[i]
        BY <2>2 DEF Init
      <3> QED
        BY <3>7, <3>8
    <2> QED
      BY <2>1, <2>2
  <1>6. \A i \in Invoices : Paid(payment, i) \in Nat
    BY <1>1, PaidType
  <1>7. Balanced
    BY <1>4, <1>5, <1>6 DEF Balanced
  <1> QED
    BY <1>3, <1>7 DEF LedgerInv

LEMMA LedgerKeepsInv ==
    ASSUME TypeInv, TypeInv', RefundInv, Finite(payment), Finite(payment)',
           LedgerInv, [Ledger!Next]_(Ledger!ledgerVars)
    PROVE  LedgerInv'
  <1> USE ConstantsAssumption
  <1>a. /\ payment \in PaymentType /\ refunds \in RefundType
        /\ payment' \in PaymentType /\ refunds' \in RefundType
        /\ Finite(payment) /\ Finite(payment')
    BY DEF TypeInv, TypeOK, PaymentType, RefundType
  <1>b. /\ RefundedIsProcessed /\ Balanced
        /\ invoice \in [Invoices -> InvoiceRow]
        /\ \A i \in Invoices : invoice[i].paid \in Nat /\ Total[i] \in Nat
    BY DEF LedgerInv, TypeInv, TypeOK, InvoiceRow
  <1>c. \A i : /\ Paid(payment, i) \in Nat
               /\ Back(payment, refunds, i) \in Nat
    BY <1>a, PaidType, BackType
  <1>d. NoPayment \notin PaymentRow /\ Ledger!NoPayment = NoPayment
    BY DEF NoPayment, PaymentRow, PaymentStatuses, Ledger!NoPayment
  <1>1. ASSUME NEW i \in Invoices, NEW p \in Payments, Ledger!MarkPaid(i, p)
        PROVE  LedgerInv'
    <2> DEFINE due == Total[i] - invoice[i].paid
               row == [status |-> "SUCCEEDED", invoice |-> i, amount |-> due,
                       provider |-> "offline", refunded |-> 0]
    <2>1. /\ payment[p] = NoPayment /\ refunds' = refunds
          /\ payment' = [payment EXCEPT ![p] = row]
          /\ invoice' = [invoice EXCEPT ![i] = [paid |-> Total[i], status |-> "PAID"]]
      BY <1>1, <1>d DEF Ledger!MarkPaid
    <2>2. row.invoice = i /\ row.amount = due /\ row.refunded = 0
      OBVIOUS
    <2> HIDE DEF row
    <2>3. payment'[p] = row /\ \A q \in Payments \ {p} : payment'[q] = payment[q]
      BY <1>a, <2>1 DEF PaymentType
    <2>4. row \in PaymentRow
      <3>1. row # NoPayment
        BY DEF row, NoPayment
      <3> QED
        BY <1>a, <2>3, <3>1 DEF PaymentType
    <2>5. refunds[p]["PROCESSED"] = 0
      BY <1>b, <2>1 DEF RefundedIsProcessed
    <2>6. RefundedIsProcessed'
      <3>1. \A q \in Payments :
               refunds'[q]["PROCESSED"] = IF payment'[q] = NoPayment THEN 0
                                          ELSE payment'[q].refunded
        BY <1>b, <1>d, <2>1, <2>2, <2>3, <2>4, <2>5 DEF RefundedIsProcessed
      <3> QED
        BY <3>1 DEF RefundedIsProcessed
    <2>7. ASSUME NEW j
          PROVE  /\ j = i => Paid(payment', j) = Paid(payment, j) + due
                 /\ j # i => Paid(payment', j) = Paid(payment, j)
      <3>1. /\ payment \in PaymentType /\ Finite(payment) /\ payment' \in PaymentType
            /\ payment[p] = NoPayment /\ p \in Payments
        BY <1>a, <2>1
      <3> QED
        BY <2>2, <2>3, <2>4, <3>1, PaidGrows
    <2>8. ASSUME NEW j
          PROVE  Back(payment', refunds, j) = Back(payment, refunds, j)
      <3>1. /\ payment \in PaymentType /\ Finite(payment) /\ payment' \in PaymentType
            /\ payment[p] = NoPayment /\ p \in Payments /\ refunds \in RefundType
            /\ Finite(payment') /\ payment'[p] # NoPayment
        BY <1>a, <1>d, <2>1, <2>3, <2>4
      <3> QED
        BY <2>3, <2>5, <3>1, BackStays
    <2>9. \A j \in Invoices : invoice'[j].paid = IF j = i THEN Total[i] ELSE invoice[j].paid
      BY <1>b, <2>1
    <2>10. Balanced'
      <3>1. ASSUME NEW j \in Invoices
            PROVE  invoice'[j].paid = Paid(payment', j) - Back(payment', refunds', j)
        <4>1. invoice[j].paid = Paid(payment, j) - Back(payment, refunds, j)
          BY <1>b DEF Balanced
        <4>2. /\ Paid(payment, j) \in Nat /\ Back(payment, refunds, j) \in Nat
              /\ invoice[j].paid \in Nat /\ Total[i] \in Nat
          BY <1>b, <1>c
        <4>3. refunds' = refunds
          BY <2>1
        <4> QED
          BY <2>7, <2>8, <2>9, <4>1, <4>2, <4>3
      <3> QED
        BY <3>1 DEF Balanced
    <2> QED
      BY <2>6, <2>10 DEF LedgerInv
  <1>2. ASSUME NEW p \in Payments, payment[p] # NoPayment,
               NEW a \in 1..payment[p].amount, Ledger!RefundProcessed(p, a)
        PROVE  LedgerInv'
    <2> DEFINE i == payment[p].invoice
               sum == payment[p].refunded + a
    <2>1. payment[p] \in PaymentRow
      BY <1>a, <1>2 DEF PaymentType
    <2>2. /\ i \in Invoices /\ payment[p].amount \in Nat /\ payment[p].refunded \in Nat
          /\ a \in Nat
      BY <2>1 DEF PaymentRow
    <2>0. PICK overdue \in Ledger!Verdicts(i) :
             invoice' = [invoice EXCEPT ![i] =
                            Ledger!ReversePayment(invoice[i], a, overdue)]
      BY <1>2 DEF Ledger!RefundProcessed
    <2> DEFINE new == Ledger!ReversePayment(invoice[i], a, overdue)
    <2>3. /\ a <= payment[p].amount - payment[p].refunded
          /\ payment' = [payment EXCEPT
                 ![p].refunded = sum,
                 ![p].status = IF sum = payment[p].amount
                               THEN "REFUNDED" ELSE "PARTIALLY_REFUNDED"]
          /\ invoice' = [invoice EXCEPT ![i] = new]
          /\ refunds' = [refunds EXCEPT ![p]["PROCESSED"] = @ + a]
      BY <1>2, <2>0 DEF Ledger!RefundProcessed
    <2>4. /\ payment'[p].refunded = sum /\ payment'[p].amount = payment[p].amount
          /\ payment'[p].invoice = i /\ payment'[p] \in PaymentRow
          /\ \A q \in Payments \ {p} : payment'[q] = payment[q]
      <3>1. /\ payment'[p] = [payment[p] EXCEPT
                    !.refunded = sum,
                    !.status = IF sum = payment[p].amount
                               THEN "REFUNDED" ELSE "PARTIALLY_REFUNDED"]
            /\ \A q \in Payments \ {p} : payment'[q] = payment[q]
        BY <1>a, <2>3 DEF PaymentType
      <3>2. sum \in Nat
        BY <2>2
      <3> HIDE DEF sum
      <3>3. /\ payment'[p].refunded = sum /\ payment'[p].amount = payment[p].amount
            /\ payment'[p].invoice = i /\ payment'[p] \in PaymentRow
        BY <2>1, <3>1, <3>2 DEF PaymentRow, PaymentStatuses
      <3> QED
        BY <3>1, <3>3
    <2>5. /\ refunds'[p]["PROCESSED"] = refunds[p]["PROCESSED"] + a
          /\ \A q \in Payments \ {p} : refunds'[q]["PROCESSED"] = refunds[q]["PROCESSED"]
      BY <1>a, <2>3 DEF RefundType, RefundStatuses
    <2>6. refunds[p]["PROCESSED"] = payment[p].refunded
      BY <1>b, <1>2 DEF RefundedIsProcessed
    <2>7. RefundedIsProcessed'
      <3>1. \A q \in Payments :
               refunds'[q]["PROCESSED"] = IF payment'[q] = NoPayment THEN 0
                                          ELSE payment'[q].refunded
        BY <1>b, <1>d, <2>4, <2>5, <2>6 DEF RefundedIsProcessed
      <3> QED
        BY <3>1 DEF RefundedIsProcessed
    <2>8. ASSUME NEW j
          PROVE  Rows(payment', j) = Rows(payment, j) /\ Paid(payment', j) = Paid(payment, j)
      <3>1. /\ payment \in PaymentType /\ Finite(payment) /\ payment' \in PaymentType
            /\ p \in Payments /\ payment[p] \in PaymentRow
            /\ payment'[p] \in PaymentRow
            /\ payment'[p].invoice = payment[p].invoice
            /\ payment'[p].amount = payment[p].amount
            /\ \A q \in Payments \ {p} : payment'[q] = payment[q]
        BY <1>a, <2>1, <2>4
      <3> HIDE DEF i
      <3> QED
        BY <3>1, PaidStays
    <2>9. ASSUME NEW j
          PROVE  /\ j = i => Back(payment', refunds', j) = Back(payment, refunds, j) + a
                 /\ j # i => Back(payment', refunds', j) = Back(payment, refunds, j)
      <3>1. Back(payment', refunds', j) = Back(payment, refunds', j)
        BY <2>8 DEF Back
      <3>2. p \in Rows(payment, j) <=> j = i
        BY <1>2 DEF Rows
      <3>3. /\ payment \in PaymentType /\ Finite(payment) /\ refunds \in RefundType
            /\ refunds' \in RefundType /\ p \in Payments /\ a \in Nat
        BY <1>a, <2>2
      <3>4. /\ p \in Rows(payment, j)
                  => Back(payment, refunds', j) = Back(payment, refunds, j) + a
            /\ p \notin Rows(payment, j)
                  => Back(payment, refunds', j) = Back(payment, refunds, j)
        BY <2>5, <3>3, BackRises
      <3> QED
        BY <3>1, <3>2, <3>4
    <2>10. a <= invoice[i].paid
      <3>1. \A q \in Rows(payment, i) : refunds[q]["PROCESSED"] <= payment[q].amount
        BY <1>b DEF RefundInv, RefundColumnMatchesStatus, Issued, Rows,
           RefundedIsProcessed
      <3>2. p \in Rows(payment, i)
        BY <1>2 DEF Rows
      <3>3. /\ payment[p].amount - refunds[p]["PROCESSED"]
                  <= Paid(payment, i) - Back(payment, refunds, i)
        BY <1>a, <3>1, <3>2, LeftOfOne
      <3>4. invoice[i].paid = Paid(payment, i) - Back(payment, refunds, i)
        BY <1>b, <2>2 DEF Balanced
      <3> QED
        BY <1>b, <1>c, <2>2, <2>3, <2>6, <3>3, <3>4
    <2>11. new.paid = invoice[i].paid - a
      BY <1>b, <2>2, <2>10 DEF Ledger!ReversePayment
    <2> HIDE DEF new
    <2>12. \A j \in Invoices :
              invoice'[j].paid = IF j = i THEN invoice[i].paid - a ELSE invoice[j].paid
      BY <1>b, <2>2, <2>3, <2>11
    <2>13. Balanced'
      <3>1. ASSUME NEW j \in Invoices
            PROVE  invoice'[j].paid = Paid(payment', j) - Back(payment', refunds', j)
        <4>1. invoice[j].paid = Paid(payment, j) - Back(payment, refunds, j)
          BY <1>b DEF Balanced
        <4>2. /\ Paid(payment, j) \in Nat /\ Back(payment, refunds, j) \in Nat
              /\ invoice[j].paid \in Nat
          BY <1>b, <1>c
        <4> QED
          BY <2>2, <2>8, <2>9, <2>12, <4>1, <4>2
      <3> QED
        BY <3>1 DEF Balanced
    <2> QED
      BY <2>7, <2>13 DEF LedgerInv
  <1>3. ASSUME NEW p \in Payments, NEW a, NEW s, Ledger!RefundNoted(p, a, s)
        PROVE  LedgerInv'
    <2>1. /\ payment' = payment /\ invoice' = invoice
          /\ \A q \in Payments : refunds'[q]["PROCESSED"] = refunds[q]["PROCESSED"]
      BY <1>3, <1>a DEF Ledger!RefundNoted, RefundType, RefundStatuses
    <2>2. RefundedIsProcessed'
      BY <1>b, <2>1 DEF RefundedIsProcessed
    <2>3. ASSUME NEW i
          PROVE  Back(payment, refunds', i) = Back(payment, refunds, i)
      <3>1. \A q \in Rows(payment, i) : q \in Payments
        BY DEF Rows
      <3>2. [q \in Rows(payment, i) |-> refunds'[q]["PROCESSED"]]
               = [q \in Rows(payment, i) |-> refunds[q]["PROCESSED"]]
        BY <2>1, <3>1
      <3> QED
        BY <3>2 DEF Back
    <2>4. Balanced'
      BY <1>b, <2>1, <2>3 DEF Balanced
    <2> QED
      BY <2>2, <2>4 DEF LedgerInv
  <1>4. ASSUME NEW i \in Invoices, Ledger!MarkOverdue(i)
        PROVE  LedgerInv'
    <2>1. /\ payment' = payment /\ refunds' = refunds
          /\ \A j \in Invoices : invoice'[j].paid = invoice[j].paid
      BY <1>4, <1>b DEF Ledger!MarkOverdue, InvoiceRow
    <2> QED
      BY <1>b, <2>1 DEF LedgerInv, RefundedIsProcessed, Balanced
  <1>5. ASSUME NEW i \in Invoices, Ledger!DayPasses(i)
        PROVE  LedgerInv'
    BY <1>5, <1>b DEF Ledger!DayPasses, LedgerInv, RefundedIsProcessed, Balanced
  <1>6. CASE UNCHANGED Ledger!ledgerVars
    BY <1>6, <1>b DEF Ledger!ledgerVars, LedgerInv, RefundedIsProcessed, Balanced
  <1> QED
    BY <1>1, <1>2, <1>3, <1>4, <1>5, <1>6, <1>d DEF Ledger!Next

\* Where requests do not overlap, every invoice is credited with exactly what was
\* paid in less what was processed back, for every number of invoices and payments
\* and wherever a request dies: a payment row and its credit commit together, a
\* refund and what it takes off commit together, and the clamp of reversePayment
\* never has anything to cut.
THEOREM LedgerExactSerially ==
    ASSUME NoOverlap
    PROVE  Spec => []LedgerExact
  <1>1. Init => TypeInv /\ RefundInv /\ CreditInv /\ ReadsAreFresh /\ LedgerInv
    BY InitTypeOK, InitRefundInv, InitCreditInv, InitIsLedgerInit, InitLedgerInv
       DEF Init, TypeInv, RefundsIssued, Idle
  <1>2. TypeInv /\ RefundInv /\ CreditInv /\ ReadsAreFresh /\ LedgerInv /\ [Next]_vars
           => TypeInv' /\ RefundInv' /\ CreditInv' /\ ReadsAreFresh' /\ LedgerInv'
    BY TypeInvStep, RefundInvStep, CreditInvStep, FreshStep, LedgerStep,
       LedgerKeepsInv DEF CreditInv
  <1>3. TypeInv /\ CreditInv /\ LedgerInv => LedgerExact
    <2> SUFFICES ASSUME TypeInv, CreditInv, LedgerInv PROVE LedgerExact
      OBVIOUS
    <2>1. payment \in PaymentType /\ refunds \in RefundType /\ Finite(payment) /\ Balanced
      BY DEF TypeInv, TypeOK, PaymentType, RefundType, CreditInv, LedgerInv
    <2> QED
      BY <2>1, PaidInIs, ProcessedIs DEF Balanced, LedgerExact
  <1> QED
    BY <1>1, <1>2, <1>3, PTL DEF Spec
=============================================================================
