CONSTANTS
    i1 = i1  i2 = i2  c1 = c1
    p1 = p1  p2 = p2  p3 = p3
    w1 = w1  w2 = w2
    Procs = {w1}
    Scheduler = w1
    Invoices = {i1, i2}
    Customers = {c1}
    Owner <- MCOwner
    Total <- MCTotal
    Payments = {p1, p2, p3}
    Legacy = {p1}
    LegacyInvoice <- MCLegacyInvoice
    LegacyProvider <- MCLegacyProvider
    RefundCap = 3
SPECIFICATION FairSpec
INVARIANTS
    LedgerExact
PROPERTIES
    ImplementsLedger
    UnpaidIsFlagged
CHECK_DEADLOCK FALSE
