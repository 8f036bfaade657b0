-------------------------------- MODULE Billing --------------------------------
(***************************************************************************)
(* Payments of one user in Telegram Stars: invoices and checkout           *)
(* (app/api/billing/routes.py, app/repositories/billing.py), the handler   *)
(* of successful_payment (app/bot/routers/payments.py), refunds and        *)
(* subscriptions at the owner's hand (app/services/owner_payments.py,      *)
(* app/repositories/owner_revenue.py) and VIP given or revoked by an       *)
(* administrator (app/services/admin_vip.py).                              *)
(*                                                                         *)
(* A worker runs the handler for a payment update; a failing handler is    *)
(* run again, and a second run may start while the first still goes on     *)
(* (see UpdateDelivery).  A desk is an HTTP request: of the owner, of an   *)
(* administrator, or of the user about the subscription.  A transaction    *)
(* reads the VIP grant without locking it and writes it when it commits,   *)
(* and then the ORM writes only the columns it has changed.                *)
(*                                                                         *)
(* Dates are days; a day does not end while a worker or a desk is busy.    *)
(* The amounts, currencies, users and flags that the code compares agree,  *)
(* as Telegram sends back what the invoice said.                           *)
(***************************************************************************)
EXTENDS Naturals, FiniteSets

CONSTANTS
    Invoices,           \* invoice intents
    PlanOf,             \* PlanOf[i]: the plan invoice i is for
    Charges,            \* charges by Telegram
    InvoiceOf,          \* InvoiceOf[c]: the invoice that charge c pays
    Workers, Desks,
    Days,               \* Days[plan]: how long a plan, or a gift, lasts
    Horizon,            \* bound: the last day
    MaxFaults,          \* bound: failing handlers and requests
    MaxRequests,        \* bound: requests at the desks
    NoCharge, Forever

Plans == {"trial", "once", "monthly"}
Statuses == {"absent", "open", "invalid", "canceled", "paid"}

ASSUME BillingAssumption ==
    /\ PlanOf \in [Invoices -> Plans]
    /\ InvoiceOf \in [Charges -> Invoices]
    /\ Workers \intersect Desks = {}
    /\ Days \in [Plans \union {"gift"} -> Nat \ {0}]
    /\ Horizon \in Nat /\ MaxFaults \in Nat /\ MaxRequests \in Nat
    /\ NoCharge \notin Charges
    /\ Forever \notin Nat

VARIABLES
    now,
    intent,             \* intent[i]: status of the invoice intent
    payment,            \* payment[c]: the vip_payments row of charge c
    trial,              \* the charge whose payment holds the trial claim
    grant,              \* the vip_grants row
    pc,                 \* pc[p]: where worker or desk p stands
    work,               \* work[p]: the charge p is about and the rows p has read
    stage,              \* Telegram: stage[c] of charge c
    period,             \* Telegram: subscription_expiration_date of charge c
    returned,           \* Telegram: the charges given back
    renewing,           \* Telegram: the subscriptions not canceled
    clock,              \* readings of the clock within a day, in order
    faults,             \* faults so far (bounded by MaxFaults)
    requests,           \* requests so far (bounded by MaxRequests)
    granted,            \* history: how often a charge was answered with VIP time
    gifted              \* history: the end of the last gift not revoked

rows == <<intent, payment, trial, grant, granted, gifted>>
telegram == <<stage, period, returned, renewing>>
bounded == <<clock, faults, requests>>
vars == <<now, rows, telegram, pc, work, bounded>>

Plan(c) == PlanOf[InvoiceOf[c]]
Trials == {c \in Charges : Plan(c) = "trial"}

Date == Nat \union {Forever}
Grant == [exists : BOOLEAN, active : BOOLEAN, until : Date, gift : BOOLEAN]
NoGrant == [exists |-> FALSE, active |-> FALSE, until |-> 0, gift |-> FALSE]
Payment == [status : {"none", "paid", "refund_required", "refunded"}, until : Nat, at : Nat]
NoPayment == [status |-> "none", until |-> 0, at |-> 0]
\* The charge at work, the grant and the intent as read, the end of the paid time a
\* refund leaves, and the reading of the clock that becomes paid_at.
Work == [charge : Charges \union {NoCharge}, seen : Grant, intent : Statuses,
         until : Nat, at : Nat]
NoWork == [charge |-> NoCharge, seen |-> NoGrant, intent |-> "absent", until |-> 0, at |-> 0]
WorkOn(c) == [NoWork EXCEPT !.charge = c]

Reaches(until, day) == until = Forever \/ until > day
Active(g) == g.exists /\ g.active /\ Reaches(g.until, now)
Paid == {c \in Charges : payment[c].status = "paid"}

Init ==
    /\ now = 0
    /\ intent = [i \in Invoices |-> "absent"]
    /\ payment = [c \in Charges |-> NoPayment]
    /\ trial = NoCharge
    /\ grant = NoGrant
    /\ pc = [p \in Workers \union Desks |-> "idle"]
    /\ work = [p \in Workers \union Desks |-> NoWork]
    /\ stage = [c \in Charges |-> "none"]
    /\ period = [c \in Charges |-> 0]
    /\ returned = {}
    /\ renewing = {i \in Invoices : PlanOf[i] = "monthly"}
    /\ clock = 0
    /\ faults = 0
    /\ requests = 0
    /\ granted = [c \in Charges |-> 0]
    /\ gifted = 0

Goto(p, where) == pc' = [pc EXCEPT ![p] = where]
Leave(p) ==
    /\ Goto(p, "idle")
    /\ work' = [work EXCEPT ![p] = NoWork]

\* Telegram keeps an update for a day, so a subscription's payment does not
\* outlast the period it pays for (whose end must be later than the start of the
\* grant, a CHECK of vip_grants).
Tick ==
    /\ now < Horizon
    /\ \A c \in Charges : stage[c] = "taken" /\ Plan(c) = "monthly" => period[c] > now + 1
    /\ \A p \in Workers \union Desks : pc[p] = "idle"
    /\ now' = now + 1
    /\ UNCHANGED <<rows, telegram, pc, work, bounded>>

\* A process dies, the database or Telegram fails: a transaction that is open is
\* rolled back, what is committed stays.
Fail(p) ==
    /\ pc[p] # "idle"
    /\ faults < MaxFaults
    /\ faults' = faults + 1
    /\ Leave(p)
    /\ UNCHANGED <<now, rows, telegram, clock, requests>>

-----------------------------------------------------------------------------
(* Invoices and checkout. *)

TrialAvailable == trial = NoCharge /\ ~Active(grant) /\ Paid = {}
MonthlyActive == \E c \in Paid : Plan(c) = "monthly" /\ payment[c].until > now

\* create_invoice_intent, and invalidate_invoice when Telegram makes no link.
CreateInvoice(i) ==
    /\ intent[i] = "absent"
    /\ PlanOf[i] = "trial" => TrialAvailable
    /\ PlanOf[i] = "monthly" => ~MonthlyActive
    /\ \E status \in {"open", "invalid"} : intent' = [intent EXCEPT ![i] = status]
    /\ UNCHANGED <<now, payment, trial, grant, granted, gifted, telegram, pc, work, bounded>>

Siblings(c) == {e \in Charges \ {c} : InvoiceOf[e] = InvoiceOf[c]}

\* validate_checkout.  Telegram asks it once for a subscription.
Checkout(c) ==
    /\ stage[c] = "none"
    /\ Plan(c) = "monthly" => \A e \in Siblings(c) : stage[e] = "none"
    /\ intent[InvoiceOf[c]] \in {"open", "canceled"}
    /\ c \in Trials => TrialAvailable
    /\ stage' = [stage EXCEPT ![c] = "approved"]
    /\ UNCHANGED <<now, rows, pc, work, period, returned, renewing, bounded>>

\* A subscription goes on when the period it has paid for ends.
Renewal(c) ==
    LET paid == {e \in Siblings(c) : stage[e] \in {"taken", "settled"}} IN
    /\ stage[c] = "none" /\ InvoiceOf[c] \in renewing
    /\ paid # {} /\ \A e \in paid : period[e] <= now

TakeStars(c) ==
    /\ stage[c] = "approved" \/ Renewal(c)
    /\ stage' = [stage EXCEPT ![c] = "taken"]
    /\ period' = [period EXCEPT ![c] = IF Plan(c) = "monthly" THEN now + Days["monthly"] ELSE 0]
    /\ UNCHANGED <<now, rows, pc, work, returned, renewing, bounded>>

-----------------------------------------------------------------------------
(* vip_successful_payment: record_payment, a transaction, and what follows. *)

Deliver(w, c) ==
    /\ pc[w] = "idle"
    /\ stage[c] = "taken"
    /\ Goto(w, "check")
    /\ work' = [work EXCEPT ![w] = WorkOn(c)]
    /\ UNCHANGED <<now, rows, telegram, bounded>>

\* A handler that ends without an error settles its update.
Settle(w) ==
    /\ stage' = [stage EXCEPT ![work[w].charge] = "settled"]
    /\ Leave(w)

\* The time of the payment and the invoice intent, which the transaction keeps.
ReadIntent(w) ==
    /\ clock' = clock + 1
    /\ work' = [work EXCEPT ![w] =
                   [@ EXCEPT !.at = clock + 1, !.intent = intent[InvoiceOf[work[w].charge]]]]

\* Faulty: every payment already recorded is a duplicate and nothing more.
CheckDuplicateOnly(w) ==
    /\ pc[w] = "check"
    /\ \/ /\ payment[work[w].charge].status = "none"
          /\ Goto(w, "insert")
          /\ ReadIntent(w)
          /\ UNCHANGED stage
       \/ /\ payment[work[w].charge].status # "none"
          /\ Settle(w)
          /\ UNCHANGED clock
    /\ UNCHANGED <<now, rows, period, returned, renewing, faults, requests>>

CheckDuplicate(w) ==
    LET status == payment[work[w].charge].status IN
    /\ pc[w] = "check"
    /\ \/ /\ status = "none"
          /\ Goto(w, "insert")
          /\ ReadIntent(w)
          /\ UNCHANGED stage
       \/ /\ status = "refund_required"
          /\ Goto(w, "return")
          /\ UNCHANGED <<work, stage, clock>>
       \/ /\ status \in {"paid", "refunded"}
          /\ Settle(w)
          /\ UNCHANGED clock
    /\ UNCHANGED <<now, rows, period, returned, renewing, faults, requests>>

\* Workers whose open transaction has inserted the payment of c, or a trial claim.
Inserted(c) == {v \in Workers : work[v].charge = c /\ pc[v] \in {"claim", "read", "commit"}}
Claiming == {v \in Workers : work[v].charge \in Trials /\ pc[v] \in {"read", "commit"}}

AfterInsert(w) == Goto(w, IF work[w].charge \in Trials THEN "claim" ELSE "read")

\* Faulty: nothing keeps the charge id unique.
InsertPaymentTwice(w) ==
    /\ pc[w] = "insert"
    /\ AfterInsert(w)
    /\ UNCHANGED <<now, rows, telegram, work, bounded>>

\* The charge id is unique: an INSERT waits for that of an open transaction.
InsertPayment(w) ==
    /\ pc[w] = "insert"
    /\ Inserted(work[w].charge) = {}
    /\ payment[work[w].charge].status = "none"
    /\ AfterInsert(w)
    /\ UNCHANGED <<now, rows, telegram, work, bounded>>

\* IntegrityError: the handler fails and its update comes back.
InsertRefused(w) ==
    /\ pc[w] = "insert"
    /\ payment[work[w].charge].status # "none"
    /\ Leave(w)
    /\ UNCHANGED <<now, rows, telegram, bounded>>

\* Faulty: the claim is looked up as checkout does, and written with the commit.
ClaimTrialUnlocked(w) ==
    /\ pc[w] = "claim"
    /\ \/ /\ trial = NoCharge
          /\ Goto(w, "read")
          /\ UNCHANGED payment
       \/ /\ trial # NoCharge
          /\ payment' = [payment EXCEPT ![work[w].charge] =
                           [status |-> "refund_required", until |-> 0, at |-> work[w].at]]
          /\ Goto(w, "return")
    /\ UNCHANGED <<now, intent, trial, grant, granted, gifted, work, telegram, bounded>>

\* The primary key of vip_trial_claims is the user: the claim waits for that of
\* an open transaction.
ClaimTrial(w) ==
    /\ pc[w] = "claim"
    /\ Claiming = {}
    /\ \/ /\ trial = NoCharge
          /\ Goto(w, "read")
          /\ UNCHANGED payment
       \/ /\ trial # NoCharge
          /\ payment' = [payment EXCEPT ![work[w].charge] =
                           [status |-> "refund_required", until |-> 0, at |-> work[w].at]]
          /\ Goto(w, "return")
    /\ UNCHANGED <<now, intent, trial, grant, granted, gifted, work, telegram, bounded>>

ReadGrant(w) ==
    /\ pc[w] = "read"
    /\ Goto(w, "commit")
    /\ work' = [work EXCEPT ![w].seen = grant]
    /\ UNCHANGED <<now, rows, telegram, bounded>>

\* The row after an UPDATE of the columns in which new differs from seen.
Overwrite(seen, new) ==
    [f \in DOMAIN grant |-> IF new[f] # seen[f] THEN new[f] ELSE grant[f]]

\* Who saw no row INSERTs one; the primary key refuses it when there is one now.
MayWrite(seen) == seen.exists \/ ~grant.exists

\* _grant_paid_vip.
PaidUntil(c, seen) ==
    IF Plan(c) = "monthly" THEN period[c]
    ELSE Days[Plan(c)] + (IF seen.active /\ seen.until # Forever /\ seen.until > now
                            THEN seen.until ELSE now)

CommitPayment(w) ==
    LET c == work[w].charge
        seen == work[w].seen
        until == PaidUntil(c, seen)
        status == IF Plan(c) = "monthly" THEN "open" ELSE "paid" IN
    /\ pc[w] = "commit"
    /\ MayWrite(seen)
    /\ grant' = Overwrite(seen, [exists |-> TRUE, active |-> TRUE, until |-> until, gift |-> FALSE])
    /\ payment' = [payment EXCEPT ![c] = [status |-> "paid", until |-> until, at |-> work[w].at]]
    /\ trial' = IF c \in Trials THEN c ELSE trial
    /\ intent' = [intent EXCEPT ![InvoiceOf[c]] = IF status # work[w].intent THEN status ELSE @]
    /\ granted' = [granted EXCEPT ![c] = @ + 1]
    /\ Goto(w, "answer")
    /\ work' = [work EXCEPT ![w] = WorkOn(c)]
    /\ UNCHANGED <<now, gifted, telegram, bounded>>

GrantRefused(p) ==
    /\ pc[p] \in {"commit", "give"}
    /\ ~MayWrite(work[p].seen)
    /\ Leave(p)
    /\ UNCHANGED <<now, rows, telegram, bounded>>

\* Telegram gives Stars back once; asked again it raises an error, and the
\* handler or the request fails.
GiveBack(p, next) ==
    /\ IF work[p].charge \in returned
         THEN Leave(p) /\ UNCHANGED returned
         ELSE /\ returned' = returned \union {work[p].charge}
              /\ Goto(p, next)
              /\ UNCHANGED work
    /\ UNCHANGED <<now, rows, stage, period, renewing, bounded>>

ReturnStars(w) == pc[w] = "return" /\ GiveBack(w, "mark")

\* mark_refunded.
MarkRefunded(w) ==
    /\ pc[w] = "mark"
    /\ payment' = [payment EXCEPT ![work[w].charge].status = "refunded"]
    /\ Goto(w, "answer")
    /\ UNCHANGED <<now, intent, trial, grant, granted, gifted, work, telegram, bounded>>

Answer(w) ==
    /\ pc[w] = "answer"
    /\ Settle(w)
    /\ UNCHANGED <<now, rows, period, returned, renewing, bounded>>

RecordPayment(w) ==
    \/ CheckDuplicate(w) \/ InsertPayment(w) \/ InsertRefused(w) \/ ClaimTrial(w)
    \/ ReadGrant(w) \/ CommitPayment(w) \/ GrantRefused(w)

SuccessfulPayment(w) == RecordPayment(w) \/ ReturnStars(w) \/ MarkRefunded(w) \/ Answer(w)

-----------------------------------------------------------------------------
(* Requests: of the owner for a refund. *)

Ask(d, next, what) ==
    /\ pc[d] = "idle"
    /\ requests < MaxRequests
    /\ requests' = requests + 1
    /\ Goto(d, next)
    /\ work' = [work EXCEPT ![d] = what]
    /\ UNCHANGED <<now, rows, telegram, clock, faults>>

\* refund_eligibility: the last payment, whose time is the time of the grant.
Eligible(c) ==
    /\ c \in Paid /\ \A e \in Paid : payment[e].at <= payment[c].at
    /\ grant.exists => ~grant.gift
    /\ grant.exists /\ grant.until # Forever => grant.until = payment[c].until

\* Faulty: what the database records comes before the call of Telegram.
AskRefundRecorded(d, c) == Eligible(c) /\ Ask(d, "recheck", WorkOn(c))

AskRefund(d, c) == Eligible(c) /\ Ask(d, "refund", WorkOn(c))

OwnerReturnsStars(d) == pc[d] = "refund" /\ GiveBack(d, "recheck")

\* apply_refund checks again, in a session of its own.  When it raises, refund
\* calls mark_refund_required, which BillingRepository does not have.
RecheckRefund(d) ==
    /\ pc[d] = "recheck"
    /\ IF Eligible(work[d].charge) THEN Goto(d, "look") /\ UNCHANGED work ELSE Leave(d)
    /\ UNCHANGED <<now, rows, telegram, bounded>>

\* The paid time that is left: the end, 0 without one, of the other paid payment
\* that ends last.
LeftBy(c) ==
    {until \in {payment[e].until : e \in Paid \ {c}} :
        \A o \in Paid \ {c} : payment[o].until <= until}

ReadRefund(d) ==
    /\ pc[d] = "look"
    /\ \E until \in (IF Paid \ {work[d].charge} = {} THEN {0} ELSE LeftBy(work[d].charge)) :
          work' = [work EXCEPT ![d].seen = grant, ![d].until = until]
    /\ Goto(d, "apply")
    /\ UNCHANGED <<now, rows, telegram, bounded>>

ApplyRefund(d) ==
    LET seen == work[d].seen
        until == work[d].until
        new == IF until > now THEN [seen EXCEPT !.active = TRUE, !.until = until, !.gift = FALSE]
               ELSE [seen EXCEPT !.active = FALSE, !.until = now] IN
    /\ pc[d] = "apply"
    /\ payment' = [payment EXCEPT ![work[d].charge].status = "refunded"]
    /\ grant' = IF seen.exists THEN Overwrite(seen, new) ELSE grant
    /\ Leave(d)
    /\ UNCHANGED <<now, intent, trial, granted, gifted, telegram, bounded>>

Refund(d) == OwnerReturnsStars(d) \/ RecheckRefund(d) \/ ReadRefund(d) \/ ApplyRefund(d)

-----------------------------------------------------------------------------
(* AdminVipService: VIP given and revoked. *)

AskVip(d) ==
    \E next \in {"give", "revoke"} :
        /\ next = "revoke" => grant.exists /\ grant.active
        /\ Ask(d, next, [NoWork EXCEPT !.seen = grant])

GiveVip(d) ==
    /\ pc[d] = "give"
    /\ MayWrite(work[d].seen)
    /\ \E until \in {now + Days["gift"], Forever} :
          /\ grant' = Overwrite(work[d].seen,
                        [exists |-> TRUE, active |-> TRUE, until |-> until, gift |-> TRUE])
          /\ gifted' = until
    /\ Leave(d)
    /\ UNCHANGED <<now, intent, payment, trial, granted, telegram, bounded>>

RevokeVip(d) ==
    /\ pc[d] = "revoke"
    /\ grant' = Overwrite(work[d].seen, [work[d].seen EXCEPT !.active = FALSE])
    /\ gifted' = 0
    /\ Leave(d)
    /\ UNCHANGED <<now, intent, payment, trial, granted, telegram, bounded>>

Vip(d) == AskVip(d) \/ GiveVip(d) \/ RevokeVip(d) \/ GrantRefused(d)

-----------------------------------------------------------------------------
(* set_subscription_state and update_subscription. *)

\* get_subscription_control: the first payment of a subscription, else the
\* earliest one.
Controls ==
    LET monthly == {c \in Paid : Plan(c) = "monthly"}
        first == {c \in monthly : \A e \in Siblings(c) :
                     payment[e].status = "none" \/ payment[c].at < payment[e].at}
        best == IF first # {} THEN first ELSE monthly IN
    {c \in best : \A e \in best : payment[c].at <= payment[e].at}

\* Faulty: the request goes on when there is no subscription.
AskSubscriptionUnchecked(d) ==
    \E next \in {"cancel", "restore"} :
        \/ \E c \in Controls : Ask(d, next, WorkOn(c))
        \/ Controls = {} /\ Ask(d, next, NoWork)

AskSubscription(d) ==
    \E c \in Controls, next \in {"cancel", "restore"} : Ask(d, next, WorkOn(c))

EditSubscription(d) ==
    LET i == InvoiceOf[work[d].charge] IN
    /\ \/ pc[d] = "cancel" /\ renewing' = renewing \ {i} /\ Goto(d, "set canceled")
       \/ pc[d] = "restore" /\ renewing' = renewing \union {i} /\ Goto(d, "set open")
    /\ UNCHANGED <<now, rows, work, stage, period, returned, bounded>>

\* set_subscription_canceled looks for the payment again.
SetSubscription(d) ==
    /\ pc[d] \in {"set canceled", "set open"}
    /\ \/ /\ Controls = {}
          /\ UNCHANGED intent
       \/ \E c \in Controls : intent' = [intent EXCEPT ![InvoiceOf[c]] =
                                           IF pc[d] = "set canceled" THEN "canceled" ELSE "open"]
    /\ Leave(d)
    /\ UNCHANGED <<now, payment, trial, grant, granted, gifted, telegram, bounded>>

Subscription(d) == AskSubscription(d) \/ EditSubscription(d) \/ SetSubscription(d)

-----------------------------------------------------------------------------
Next ==
    \/ Tick
    \/ \E i \in Invoices : CreateInvoice(i)
    \/ \E c \in Charges : Checkout(c) \/ TakeStars(c)
    \/ \E w \in Workers : (\E c \in Charges : Deliver(w, c)) \/ SuccessfulPayment(w) \/ Fail(w)
    \/ \E d \in Desks : (\E c \in Charges : AskRefund(d, c)) \/ Refund(d) \/ Vip(d)
                           \/ Subscription(d) \/ Fail(d)

\* A handler that runs goes on; Telegram delivers a payment until it is settled.
Fairness ==
    /\ \A w \in Workers : WF_vars(SuccessfulPayment(w))
    /\ \A c \in Charges : SF_vars(\E w \in Workers : Deliver(w, c))

Spec == Init /\ [][Next]_vars
FairSpec == Spec /\ Fairness

-----------------------------------------------------------------------------
(* Properties. *)

Places ==
    {"idle", "check", "insert", "claim", "read", "commit", "return", "mark", "answer",
     "refund", "recheck", "look", "apply", "give", "revoke",
     "cancel", "restore", "set canceled", "set open"}
Placed ==
    /\ pc \in [Workers \union Desks -> Places]
    /\ work \in [Workers \union Desks -> Work]
    /\ \A p \in Workers \union Desks :
          pc[p] \notin {"idle", "give", "revoke"} => work[p].charge \in Charges

\* Every variable has its type: whom a row belongs to, where workers and desks stand.
TypeOK ==
    /\ now \in Nat /\ clock \in Nat /\ faults \in Nat /\ requests \in Nat
    /\ intent \in [Invoices -> Statuses]
    /\ payment \in [Charges -> Payment]
    /\ trial \in Charges \union {NoCharge}
    /\ grant \in Grant
    /\ gifted \in Date
    /\ Placed
    /\ stage \in [Charges -> {"none", "approved", "taken", "settled"}]
    /\ period \in [Charges -> Nat]
    /\ returned \subseteq Charges
    /\ renewing \subseteq Invoices
    /\ granted \in [Charges -> Nat]

\* A charge is answered with VIP time at most once, however often its update is
\* delivered and its handler fails, and not at all when its Stars are owed back:
\* the check for a duplicate and the unique charge id in record_payment.
AnsweredOnce ==
    \A c \in Charges :
        /\ granted[c] <= 1
        /\ payment[c].status = "refund_required" => granted[c] = 0

\* Of all the trials that were sold, at most one is answered with VIP time: the
\* claim in record_payment, where checkout has let several through.
OneTrial == \A b, c \in Trials : granted[b] > 0 /\ granted[c] > 0 => b = c

\* What the database calls refunded, Telegram has given back: the order of the
\* calls in vip_successful_payment and in OwnerPaymentService.refund.
RefundedIsReturned == \A c \in Charges : payment[c].status = "refunded" => c \in returned

Settlement == INSTANCE Settlement WITH
    taken <- {c \in Charges : stage[c] \in {"taken", "settled"}},
    granted <- granted,
    returned <- returned

\* Billing keeps the promise of Settlement: VIP time only for Stars that are taken
\* and kept, a trial once.
ImplementsSettlement == Settlement!Spec

\* Stars that are taken are answered with VIP time or given back, in spite of
\* failing handlers: the duplicate branch of record_payment asks again for the
\* refund that a run before did not get to.
ChargesSettled ==
    \A c \in Charges : stage[c] = "taken" ~> (granted[c] > 0 \/ c \in returned)

\* On success, mark payment refunded (the owner-revenue design): Stars that are
\* given back and that nobody is working on are not of a payment still paid.
RefundRecorded ==
    \A c \in returned :
        payment[c].status = "paid" => \E p \in Workers \union Desks : work[p].charge = c

\* Purchases stack (the billing design): the days of a one-time plan are added to the
\* end that VIP has when the payment commits, whatever its transaction has read.
PurchasesStack ==
    [][\A w \in Workers :
          LET plan == Plan(work[w].charge) IN
          CommitPayment(w) /\ plan # "monthly" /\ Active(grant) /\ grant.until # Forever
             => grant'.until >= grant.until + Days[plan]]_vars

\* A refund must never shorten an owner-granted VIP source (the owner-revenue
\* design): VIP that lasts as long as the last gift does so after apply_refund.
Covers(g, end) == g.exists /\ g.active /\ (g.until = Forever \/ (end # Forever /\ g.until >= end))
RefundKeepsGift ==
    [][\A d \in Desks :
          ApplyRefund(d) /\ Reaches(gifted, now) /\ Covers(grant, gifted) => Covers(grant', gifted)]_vars
=============================================================================
