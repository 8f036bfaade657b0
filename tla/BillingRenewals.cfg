SPECIFICATION Spec
CONSTANTS
    a = a
    b = b
    m = m
    n = n
    A = A
    B = B
    M = M
    NoCharge = NoCharge
    Forever = Forever
    InvoiceOf <- MCInvoiceOf
    Days <- MCDays
    Charges = {m, n}
    Invoices = {M}
    PlanOf <- TwoTrials
    Workers = {w1, w2}
    Desks = {d1}
    Horizon = 1
    MaxFaults = 1
    MaxRequests = 1
\* Everything may be paid, settled and asked for.
CHECK_DEADLOCK FALSE
INVARIANTS
    RefundedIsReturned
