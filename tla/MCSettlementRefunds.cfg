CONSTANTS
    i1 = i1  i2 = i2  c1 = c1
    p1 = p1  p2 = p2  p3 = p3
    w1 = w1  w2 = w2
    Procs = {w1, w2}
    Scheduler = w1
    Invoices = {i1}
    Customers = {c1}
    Owner <- MCOwner
    Total <- MCTotal
    Payments = {p1, p2, p3}
    Legacy = {}
    LegacyInvoice <- MCLegacyInvoice
    LegacyProvider <- MCLegacyProvider
    RefundCap = 3
SPECIFICATION Spec
INVARIANTS
    RefundsWithinPayment
CHECK_DEADLOCK FALSE
