------------------------------ MODULE Settlement ------------------------------
(***************************************************************************)
(* What billing promises about the Stars of one user, with no invoice, no  *)
(* transaction and no delivery in sight: a charge that Telegram takes is   *)
(* answered with VIP time, at most once, or given back; of all trials at   *)
(* most one is ever answered with VIP time.                                *)
(***************************************************************************)
CONSTANTS Charges, Trials       \* Trials: the charges of the trial plan

VARIABLES
    taken,              \* the charges whose Stars Telegram has taken
    granted,            \* granted[c]: how often charge c was answered with VIP time
    returned            \* the charges whose Stars Telegram has given back

vars == <<taken, granted, returned>>

Init ==
    /\ taken = {}
    /\ granted = [c \in Charges |-> 0]
    /\ returned = {}

Take(c) ==
    /\ c \notin taken
    /\ taken' = taken \union {c}
    /\ UNCHANGED <<granted, returned>>

Grant(c) ==
    /\ c \in taken \ returned
    /\ granted[c] = 0
    /\ c \in Trials => \A b \in Trials : granted[b] = 0
    /\ granted' = [granted EXCEPT ![c] = 1]
    /\ UNCHANGED <<taken, returned>>

GiveBack(c) ==
    /\ c \in taken \ returned
    /\ returned' = returned \union {c}
    /\ UNCHANGED <<taken, granted>>

Next == \E c \in Charges : Take(c) \/ Grant(c) \/ GiveBack(c)

Spec == Init /\ [][Next]_vars
=============================================================================
