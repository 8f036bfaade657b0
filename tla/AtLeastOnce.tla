----------------------------- MODULE AtLeastOnce -----------------------------
(***************************************************************************)
(* What the webhook promises about each Telegram update, with no row, no   *)
(* lease and no worker in sight: its handler runs to the end once, and at   *)
(* most once more for every time the lease of a running handler lapses;    *)
(* Telegram is told "done" only after some run has reached the end.        *)
(***************************************************************************)
EXTENDS Naturals

CONSTANT Updates        \* the update_ids Telegram has for this bot

VARIABLES
    successes,          \* successes[u]: runs of u's handler that reached the end
    lapses,             \* lapses[u]: leases of u that ran out
    acked               \* the updates Telegram has been answered 200 for

vars == <<successes, lapses, acked>>

Init ==
    /\ successes = [u \in Updates |-> 0]
    /\ lapses = [u \in Updates |-> 0]
    /\ acked = {}

Execute(u) ==
    /\ successes[u] <= lapses[u]
    /\ successes' = [successes EXCEPT ![u] = @ + 1]
    /\ UNCHANGED <<lapses, acked>>

Lapse(u) ==
    /\ lapses' = [lapses EXCEPT ![u] = @ + 1]
    /\ UNCHANGED <<successes, acked>>

Acknowledge(u) ==
    /\ successes[u] > 0
    /\ acked' = acked \union {u}
    /\ UNCHANGED <<successes, lapses>>

Next == \E u \in Updates : Execute(u) \/ Lapse(u) \/ Acknowledge(u)

Spec == Init /\ [][Next]_vars
=============================================================================
