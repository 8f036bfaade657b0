SPECIFICATION Spec
CONSTANTS
    a = a
    b = b
    m = m
    n = n
    A = A
    B = B
    M = M
    NoCharge = NoCharge
    Forever = Forever
    InvoiceOf <- MCInvoiceOf
    Days <- MCDays
    Charges = {a, b, m}
    Invoices = {A, B, M}
    PlanOf <- OneTimePlans
    Workers = {w1, w2}
    Desks = {d1}
    Horizon = 0
    MaxFaults = 0
    MaxRequests = 0
\* Everything may be paid and settled.
CHECK_DEADLOCK FALSE
PROPERTY
    PurchasesStack
