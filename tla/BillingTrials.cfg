SPECIFICATION FairSpec
CONSTANTS
    a = a
    b = b
    m = m
    n = n
    A = A
    B = B
    M = M
    NoCharge = NoCharge
    Forever = Forever
    InvoiceOf <- MCInvoiceOf
    Days <- MCDays
    Charges = {a, b}
    Invoices = {A, B}
    PlanOf <- TwoTrials
    Workers = {w1, w2}
    Desks = {d1}
    Horizon = 0
    MaxFaults = 1
    MaxRequests = 1
\* Everything may be paid, settled and asked for.
CHECK_DEADLOCK FALSE
INVARIANTS
    TypeOK
    AnsweredOnce
PROPERTIES
    ImplementsSettlement
    ChargesSettled
