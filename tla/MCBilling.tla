------------------------------- MODULE MCBilling -------------------------------
(***************************************************************************)
(* Instances of Billing.  Charges a and b are for an invoice each, of a    *)
(* one-time plan, trials or not; charges m and n are a subscription and    *)
(* its renewal.                                                            *)
(***************************************************************************)
EXTENDS Billing, TLC

CONSTANTS a, b, m, n        \* charges
CONSTANTS A, B, M           \* invoices

MCInvoiceOf == [c \in Charges |-> IF c = a THEN A ELSE IF c = b THEN B ELSE M]
TwoTrials == [i \in Invoices |-> IF i = M THEN "monthly" ELSE "trial"]
OneTimePlans == [i \in Invoices |-> IF i = M THEN "monthly" ELSE "once"]

\* A subscription lasts one day, whatever is paid once or given lasts two.
MCDays == [plan \in Plans \union {"gift"} |-> IF plan = "monthly" THEN 1 ELSE 2]
=============================================================================
