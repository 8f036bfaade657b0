SPECIFICATION Spec
CONSTANTS
    a = a
    b = b
    m = m
    n = n
    A = A
    B = B
    M = M
    NoCharge = NoCharge
    Forever = Forever
    InvoiceOf <- MCInvoiceOf
    Days <- MCDays
    Charges = {a}
    Invoices = {A}
    PlanOf <- OneTimePlans
    Workers = {w1}
    Desks = {d1}
    Horizon = 0
    MaxFaults = 0
    MaxRequests = 2
\* Everything may be paid, settled and asked for.
CHECK_DEADLOCK FALSE
PROPERTY
    RefundKeepsGift
