---------------------------- MODULE UpdateDelivery ----------------------------
(***************************************************************************)
(* Delivery of Telegram updates to the webhook (app/main.py) through the   *)
(* processed_updates table (app/repositories/update_delivery.py).          *)
(*                                                                         *)
(* A worker is one HTTP request being served on one application instance.  *)
(* It waits for a slot of its instance's webhook semaphore, claims the     *)
(* update, runs the dispatcher, and writes the outcome back.  Telegram     *)
(* repeats an update until it reads a 200 for it, holds at most            *)
(* MaxConnections connections, and may give up on one whose handler is     *)
(* still running.  Instances may die at any point.                         *)
(*                                                                         *)
(* Time appears only as the lapse of a lease: lease_expires_at > now is    *)
(* "live", and LeaseLapses is the clock passing lease_expires_at.  The     *)
(* clock a claim compares with is read in the step that locks the row; the *)
(* code reads it a connection checkout earlier, which is far less than the *)
(* five minutes a lease lasts.                                             *)
(***************************************************************************)
EXTENDS Naturals, FiniteSets

CONSTANTS
    Updates,            \* update_ids
    Workers,            \* webhook requests that can be in service at once
    Instances,          \* application instances
    InstanceOf,         \* InstanceOf[w]: the instance that serves request w
    MaxConcurrency,     \* slots of the webhook semaphore of one instance
    MaxConnections,     \* max_connections given to setWebhook
    MaxFaults,          \* bound: how many faults a behaviour may contain
    NoUpdate            \* what an idle worker is working on

ASSUME UpdateDeliveryAssumption ==
    /\ IsFiniteSet(Workers)
    /\ InstanceOf \in [Workers -> Instances]
    /\ MaxConcurrency \in Nat \ {0}
    /\ MaxConnections \in Nat \ {0}
    /\ MaxFaults \in Nat
    /\ NoUpdate \notin Updates

VARIABLES
    row,                \* row[u]: the processed_updates row of u
    pc,                 \* pc[w]: where worker w stands in telegram_webhook
    upd,                \* upd[w]: the update w was given
    open,               \* the workers whose connection Telegram still holds
    acked,              \* the updates Telegram will not send again
    faults,             \* faults so far (bounded by MaxFaults)
    successes,          \* history: finished handler runs of each update
    lapses              \* history: lapsed leases of each update

vars == <<row, pc, upd, open, acked, faults, successes, lapses>>

Statuses == {"absent", "processing", "completed", "failed"}
Leases == {"none", "live", "lapsed"}
Row == [status : Statuses, attempts : Nat, lease : Leases, completed_at : BOOLEAN]
NoRow == [status |-> "absent", attempts |-> 0, lease |-> "none", completed_at |-> FALSE]

\* The stages of telegram_webhook.  A worker holds its semaphore slot in the
\* stages of InSlot, and is bound to write the outcome of a handler run in
\* those of Running until the run has succeeded.
InSlot == {"claim", "insert", "feed", "complete", "fail"}
Stages == {"idle", "queued", "ok", "error"} \union InSlot

Running(u) == {w \in Workers : upd[w] = u /\ pc[w] \in {"feed", "fail"}}

\* Faulty: the lease of a processing row is never looked at again.
ClaimableWithoutExpiry(r) == r.status \in {"absent", "failed"}

\* The rows begin_update hands out: it refuses only a completed row and a
\* processing row whose lease is live.
Claimable(r) ==
    \/ r.status \in {"absent", "failed"}
    \/ r.status = "processing" /\ r.lease # "live"

\* A fault uses up one unit of the budget that keeps behaviours finite.
Fault ==
    /\ faults < MaxFaults
    /\ faults' = faults + 1

Init ==
    /\ row = [u \in Updates |-> NoRow]
    /\ pc = [w \in Workers |-> "idle"]
    /\ upd = [w \in Workers |-> NoUpdate]
    /\ open = {}
    /\ acked = {}
    /\ faults = 0
    /\ successes = [u \in Updates |-> 0]
    /\ lapses = [u \in Updates |-> 0]

Goto(w, stage) == pc' = [pc EXCEPT ![w] = stage]

-----------------------------------------------------------------------------
(* Telegram. *)

Deliver(w, u) ==
    /\ pc[w] = "idle"
    /\ u \notin acked
    /\ Cardinality(open) < MaxConnections
    /\ \A v \in open : upd[v] # u
    /\ Goto(w, "queued")
    /\ upd' = [upd EXCEPT ![w] = u]
    /\ open' = open \union {w}
    /\ UNCHANGED <<row, acked, faults, successes, lapses>>

\* Telegram drops the connection, or the answer on it is lost.  Nothing tells
\* the worker.
ConnectionLost(w) ==
    /\ w \in open
    /\ Fault
    /\ open' = open \ {w}
    /\ UNCHANGED <<row, pc, upd, acked, successes, lapses>>

\* Faulty: a finished request keeps its update.
RespondWithoutReset(w) ==
    /\ pc[w] \in {"ok", "error"}
    /\ acked' = IF pc[w] = "ok" /\ w \in open THEN acked \union {upd[w]} ELSE acked
    /\ open' = open \ {w}
    /\ Goto(w, "idle")
    /\ UNCHANGED <<row, upd, faults, successes, lapses>>

\* Telegram reads the answer if it is still waiting for it, and forgets the
\* update on a 200.
Respond(w) ==
    /\ pc[w] \in {"ok", "error"}
    /\ acked' = IF pc[w] = "ok" /\ w \in open THEN acked \union {upd[w]} ELSE acked
    /\ open' = open \ {w}
    /\ Goto(w, "idle")
    /\ upd' = [upd EXCEPT ![w] = NoUpdate]
    /\ UNCHANGED <<row, faults, successes, lapses>>

-----------------------------------------------------------------------------
(* WebhookRuntime.handle_slot. *)

EnterSlot(w) ==
    /\ pc[w] = "queued"
    /\ Cardinality({v \in Workers : InstanceOf[v] = InstanceOf[w] /\ pc[v] \in InSlot})
         < MaxConcurrency
    /\ Goto(w, "claim")
    /\ UNCHANGED <<row, upd, open, acked, faults, successes, lapses>>

-----------------------------------------------------------------------------
(* begin_update.  SELECT ... FOR UPDATE locks a row that exists and nothing  *)
(* when there is none, so two first deliveries can both see no row; the      *)
(* primary key refuses the second INSERT and begin_update starts over.       *)

Claimed(u) ==
    [row EXCEPT ![u] = [status |-> "processing", attempts |-> @.attempts + 1,
                        lease |-> "live", completed_at |-> FALSE]]

SeeNoRow(w) ==
    /\ pc[w] = "claim"
    /\ row[upd[w]].status = "absent"
    /\ Goto(w, "insert")
    /\ UNCHANGED <<row, upd, open, acked, faults, successes, lapses>>

\* Faulty: an upsert instead of an INSERT the primary key can refuse.
InsertRowUpserting(w) ==
    /\ pc[w] = "insert"
    /\ row' = Claimed(upd[w])
    /\ Goto(w, "feed")
    /\ UNCHANGED <<upd, open, acked, faults, successes, lapses>>

InsertRow(w) ==
    /\ pc[w] = "insert"
    /\ \/ /\ row[upd[w]].status = "absent"
          /\ row' = Claimed(upd[w])
          /\ Goto(w, "feed")
       \/ /\ row[upd[w]].status # "absent"
          /\ Goto(w, "claim")
          /\ UNCHANGED row
    /\ UNCHANGED <<upd, open, acked, faults, successes, lapses>>

\* Faulty: a processing row is taken over whether or not its lease is live.
TakeOverIgnoringLease(w) ==
    /\ pc[w] = "claim"
    /\ row[upd[w]].status \in {"processing", "failed"}
    /\ row' = Claimed(upd[w])
    /\ Goto(w, "feed")
    /\ UNCHANGED <<upd, open, acked, faults, successes, lapses>>

\* Faulty: every row that exists is taken over.
TakeOverCompletedToo(w) ==
    /\ pc[w] = "claim"
    /\ row[upd[w]].status # "absent"
    /\ row[upd[w]].lease # "live"
    /\ row' = Claimed(upd[w])
    /\ Goto(w, "feed")
    /\ UNCHANGED <<upd, open, acked, faults, successes, lapses>>

TakeOver(w) ==
    /\ pc[w] = "claim"
    /\ row[upd[w]].status # "absent"
    /\ Claimable(row[upd[w]])
    /\ row' = Claimed(upd[w])
    /\ Goto(w, "feed")
    /\ UNCHANGED <<upd, open, acked, faults, successes, lapses>>

\* Faulty: an update in progress is answered like a completed one.
RefuseClaimWithOk(w) ==
    /\ pc[w] = "claim"
    /\ ~Claimable(row[upd[w]])
    /\ Goto(w, "ok")
    /\ UNCHANGED <<row, upd, open, acked, faults, successes, lapses>>

\* 200 for a completed update, 503 for one in progress.
RefuseClaim(w) ==
    /\ pc[w] = "claim"
    /\ ~Claimable(row[upd[w]])
    /\ Goto(w, IF row[upd[w]].status = "completed" THEN "ok" ELSE "error")
    /\ UNCHANGED <<row, upd, open, acked, faults, successes, lapses>>

LeaseLapses(u) ==
    /\ row[u].status = "processing"
    /\ row[u].lease = "live"
    /\ row' = [row EXCEPT ![u].lease = "lapsed"]
    /\ lapses' = [lapses EXCEPT ![u] = @ + 1]
    /\ UNCHANGED <<pc, upd, open, acked, faults, successes>>

-----------------------------------------------------------------------------
(* The dispatcher and the outcome. *)

HandlerSucceeds(w) ==
    /\ pc[w] = "feed"
    /\ successes' = [successes EXCEPT ![upd[w]] = @ + 1]
    /\ Goto(w, "complete")
    /\ UNCHANGED <<row, upd, open, acked, faults, lapses>>

HandlerFails(w) ==
    /\ pc[w] = "feed"
    /\ Fault
    /\ Goto(w, "fail")
    /\ UNCHANGED <<row, upd, open, acked, successes, lapses>>

\* complete_update writes whatever row it finds: it does not compare the
\* attempt it was started for.
CompleteUpdate(w) ==
    /\ pc[w] = "complete"
    /\ row' = [row EXCEPT ![upd[w]] = [status |-> "completed", attempts |-> @.attempts,
                                        lease |-> "none", completed_at |-> TRUE]]
    /\ Goto(w, "ok")
    /\ UNCHANGED <<upd, open, acked, faults, successes, lapses>>

\* Neither does fail_update, and it leaves completed_at as it is.
FailUpdate(w) ==
    /\ pc[w] = "fail"
    /\ row' = [row EXCEPT ![upd[w]] = [@ EXCEPT !.status = "failed", !.lease = "none"]]
    /\ Goto(w, "error")
    /\ UNCHANGED <<upd, open, acked, faults, successes, lapses>>

\* A database error in begin_update, complete_update or fail_update leaves
\* telegram_webhook as a 500; only feed_update stands inside its try block.
StorageError(w) ==
    /\ pc[w] \in {"claim", "insert", "complete", "fail"}
    /\ Fault
    /\ Goto(w, "error")
    /\ UNCHANGED <<row, upd, open, acked, successes, lapses>>

\* The instance dies with every request on it; its claims stay behind.
Crash(i) ==
    LET lost == {w \in Workers : InstanceOf[w] = i} IN
    /\ \E w \in lost : pc[w] # "idle"
    /\ Fault
    /\ pc' = [w \in Workers |-> IF w \in lost THEN "idle" ELSE pc[w]]
    /\ upd' = [w \in Workers |-> IF w \in lost THEN NoUpdate ELSE upd[w]]
    /\ open' = open \ lost
    /\ UNCHANGED <<row, acked, successes, lapses>>

-----------------------------------------------------------------------------
BeginUpdate(w) == SeeNoRow(w) \/ InsertRow(w) \/ TakeOver(w) \/ RefuseClaim(w)
FeedUpdate(w) == HandlerSucceeds(w) \/ HandlerFails(w)

Next ==
    \/ \E w \in Workers, u \in Updates : Deliver(w, u)
    \/ \E w \in Workers :
          \/ ConnectionLost(w) \/ Respond(w) \/ EnterSlot(w)
          \/ BeginUpdate(w) \/ FeedUpdate(w)
          \/ CompleteUpdate(w) \/ FailUpdate(w) \/ StorageError(w)
    \/ \E u \in Updates : LeaseLapses(u)
    \/ \E i \in Instances : Crash(i)

Spec == Init /\ [][Next]_vars

\* Telegram keeps repeating each update it holds, however often another one
\* takes the connection; asyncio.Semaphore serves its waiters in order; the
\* event loop runs every request that can run and no handler runs for ever;
\* the clock advances.
Fairness ==
    /\ \A u \in Updates : SF_vars(\E w \in Workers : Deliver(w, u))
    /\ \A w \in Workers :
          /\ SF_vars(EnterSlot(w))
          /\ WF_vars(BeginUpdate(w))
          /\ WF_vars(FeedUpdate(w))
          /\ WF_vars(CompleteUpdate(w))
          /\ WF_vars(FailUpdate(w))
          /\ WF_vars(Respond(w))
    /\ \A u \in Updates : WF_vars(LeaseLapses(u))

FairSpec == Spec /\ Fairness

-----------------------------------------------------------------------------
(* Properties. *)

\* Every variable has its type, and a worker has an update exactly while it
\* serves a request.
TypeOK ==
    /\ row \in [Updates -> Row]
    /\ pc \in [Workers -> Stages]
    /\ upd \in [Workers -> Updates \union {NoUpdate}]
    /\ open \subseteq Workers
    /\ acked \subseteq Updates
    /\ faults \in Nat
    /\ successes \in [Updates -> Nat]
    /\ lapses \in [Updates -> Nat]
    /\ \A w \in Workers : pc[w] = "idle" <=> upd[w] = NoUpdate

\* Every handler run of an update is paid for: by its first claim or by a lapsed
\* lease.  Finished runs, runs that could still finish, and the run begin_update
\* would start next never exceed one plus the lapses.  With no lapse this is
\* exactly-once: at most one run at any time and at most one finished run, in
\* spite of redeliveries, crashes, two instances and unfenced outcome writes.
ExecutionBudget ==
    \A u \in Updates :
        successes[u] + Cardinality(Running(u)) + (IF Claimable(row[u]) THEN 1 ELSE 0)
            <= 1 + lapses[u]

\* No update is lost: Telegram stops sending an update only after a handler run
\* of it has reached its end, whichever worker gave the 200.
NoLostUpdate == \A u \in acked : successes[u] > 0

\* begin_update hands out an update that has been completed only when a lease of
\* the update had lapsed before: it takes the fail_update of a worker that
\* outlived its lease to reopen a completed row.
CompletedUnlessLapsed ==
    [][\A u \in Updates :
          row[u].completed_at /\ row'[u].attempts # row[u].attempts => lapses[u] > 0]_vars

\* The webhook implements the promise of AtLeastOnce.
Promise == INSTANCE AtLeastOnce
ImplementsAtLeastOnce == Promise!Spec

\* Telegram gets rid of every update once the faults stop: no claim left by a
\* dead instance, no 503 and no full semaphore keeps it for ever.
EveryUpdateAcknowledged == \A u \in Updates : <>(u \in acked)

\* What README.md:186 says without that condition: a completed update that is
\* delivered again is not executed again.
CompletedNotExecutedAgain ==
    [][\A u \in Updates : row[u].completed_at => row'[u].attempts = row[u].attempts]_vars
=============================================================================
