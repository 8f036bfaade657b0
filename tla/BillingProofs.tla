---------------------------- MODULE BillingProofs ----------------------------
(***************************************************************************)
(* Theorems of Billing, for any charges, invoices and plans, any workers   *)
(* and desks, and any number of faults and requests.                       *)
(*                                                                         *)
(* What no lock protects here, the unique charge id and the primary key of *)
(* the trial claims do: an open transaction that has inserted a payment,   *)
(* or a claim, is alone with it (Alone), and what it found absent is still *)
(* absent when it commits (Fresh).  From there each charge moves one way,  *)
(* and money goes back before the database says so (Ledger, Standing).     *)
(***************************************************************************)
EXTENDS Billing, TLAPS

InTransaction == {"claim", "read", "commit"}

Alone ==
    \A v, w \in Workers : v # w =>
        /\ pc[v] \in InTransaction /\ pc[w] \in InTransaction => work[v].charge # work[w].charge
        /\ pc[v] \in {"read", "commit"} /\ pc[w] \in {"read", "commit"}
             => work[v].charge \notin Trials \/ work[w].charge \notin Trials

Fresh ==
    \A w \in Workers :
        /\ pc[w] \in InTransaction => payment[work[w].charge].status = "none"
        /\ pc[w] \in {"read", "commit"} /\ work[w].charge \in Trials => trial = NoCharge

Taken == {c \in Charges : stage[c] \in {"taken", "settled"}}

\* What the rows of a charge say of its Stars.
Ledger ==
    \A c \in Charges :
        /\ payment[c].status = "none" => granted[c] = 0 /\ c \notin returned
        /\ payment[c].status # "none" => c \in Taken
        /\ granted[c] <= 1
        /\ payment[c].status = "refund_required" => granted[c] = 0
        /\ payment[c].status = "refunded" => c \in returned
        /\ c \in Trials /\ granted[c] > 0 => trial = c

\* What a worker or a desk knows of the charge it is about.
Standing ==
    /\ \A w \in Workers :
          /\ pc[w] # "idle" => work[w].charge \in Taken
          /\ pc[w] \in {"return", "mark"} =>
                payment[work[w].charge].status \in {"refund_required", "refunded"}
          /\ pc[w] = "mark" => work[w].charge \in returned
    /\ \A d \in Desks :
          /\ pc[d] \in {"refund", "recheck", "look", "apply"} =>
                payment[work[d].charge].status \in {"paid", "refunded"}
          /\ pc[d] \in {"recheck", "look", "apply"} => work[d].charge \in returned

IInv == TypeOK /\ Alone /\ Fresh /\ Ledger /\ Standing

-----------------------------------------------------------------------------
(* Types. *)

LEMMA OverwriteTyped ==
    ASSUME grant \in Grant, NEW seen \in Grant, NEW new \in Grant
    PROVE  Overwrite(seen, new) \in Grant
BY DEF Overwrite, Grant

LEMMA NoWorkTyped == NoWork \in Work /\ \A c \in Charges : WorkOn(c) \in Work
BY DEF NoWork, WorkOn, Work, NoGrant, Grant, Date, Statuses

LEMMA Moved ==
    ASSUME Placed, NEW p \in Workers \union Desks, NEW where \in Places, NEW what \in Work,
           where \notin {"idle", "give", "revoke"} => what.charge \in Charges,
           pc' = [pc EXCEPT ![p] = where], work' = [work EXCEPT ![p] = what]
    PROVE  Placed'
BY DEF Placed

LEMMA MovedOn ==
    ASSUME Placed, NEW p \in Workers \union Desks, NEW where \in Places,
           where \notin {"idle", "give", "revoke"} => work[p].charge \in Charges,
           Goto(p, where), work' = work
    PROVE  Placed'
BY DEF Placed, Goto

LEMMA LeaveTyped ==
    ASSUME Placed, NEW p \in Workers \union Desks, Leave(p)
    PROVE  Placed'
BY Moved, NoWorkTyped DEF Leave, Goto, Places

LEMMA PaidUntilTyped ==
    ASSUME TypeOK, NEW c \in Charges, NEW seen \in Grant
    PROVE  PaidUntil(c, seen) \in Nat
<1>1. Plan(c) \in Plans /\ Days[Plan(c)] \in Nat
  BY BillingAssumption DEF Plan
<1>. DEFINE from == IF seen.active /\ seen.until # Forever /\ seen.until > now
                      THEN seen.until ELSE now
<1>2. from \in Nat
  BY DEF TypeOK, Grant, Date
<1>3. period[c] \in Nat
  BY DEF TypeOK
<1>. QED  BY <1>1, <1>2, <1>3 DEF PaidUntil

LEMMA TypeInit == Init => TypeOK
<1>. SUFFICES ASSUME Init PROVE TypeOK
  OBVIOUS
<1>1. NoGrant \in Grant /\ NoPayment \in Payment
  BY DEF NoGrant, Grant, Date, NoPayment, Payment
<1>2. Placed
  BY NoWorkTyped DEF Init, Placed, Places
<1>. QED  BY <1>1, <1>2 DEF Init, TypeOK, Date, Statuses

LEMMA TypeStep == TypeOK /\ [Next]_vars => TypeOK'
<1>. SUFFICES ASSUME TypeOK, [Next]_vars PROVE TypeOK'
  OBVIOUS
<1>. USE DEF TypeOK, rows, telegram, bounded
<1>. USE NoWorkTyped
<1>1. CASE Tick
  BY <1>1 DEF Tick, Placed
<1>2. ASSUME NEW p \in Workers \union Desks, Fail(p) PROVE TypeOK'
  BY <1>2, LeaveTyped DEF Fail
<1>3. ASSUME NEW i \in Invoices, CreateInvoice(i) PROVE TypeOK'
  BY <1>3 DEF CreateInvoice, Placed, Statuses
<1>4. ASSUME NEW c \in Charges, Checkout(c) PROVE TypeOK'
  BY <1>4 DEF Checkout, Placed
<1>5. ASSUME NEW c \in Charges, TakeStars(c) PROVE TypeOK'
  <2>1. now + Days["monthly"] \in Nat
    BY BillingAssumption DEF Plans
  <2>. QED  BY <1>5, <2>1 DEF TakeStars, Placed
<1>6. ASSUME NEW w \in Workers, NEW c \in Charges, Deliver(w, c) PROVE TypeOK'
  <2>1. WorkOn(c) \in Work /\ WorkOn(c).charge = c
    BY DEF WorkOn, NoWork
  <2>2. Placed'
    BY <1>6, <2>1, Moved DEF Deliver, Goto, Places
  <2>. QED  BY <1>6, <2>2 DEF Deliver
<1>7. ASSUME NEW w \in Workers, RecordPayment(w) PROVE TypeOK'
  <2>. DEFINE c == work[w].charge
  <2>1. CASE CheckDuplicate(w)
    <3>1. c \in Charges /\ work[w] \in Work
      BY <2>1 DEF CheckDuplicate, Placed
    <3>2. CASE Goto(w, "insert")
      <4>. DEFINE what == [work[w] EXCEPT !.at = clock + 1, !.intent = intent[InvoiceOf[c]]]
      <4>0. intent[InvoiceOf[c]] \in Statuses
        BY <3>1, BillingAssumption
      <4>1. what \in Work /\ what.charge = c
        <5>. DEFINE timed == [work[w] EXCEPT !.at = clock + 1]
        <5>1. timed \in Work /\ timed.charge = c
          BY <3>1 DEF Work
        <5>2. what = [timed EXCEPT !.intent = intent[InvoiceOf[c]]]
          OBVIOUS
        <5>. HIDE DEF timed, what
        <5>. QED  BY <4>0, <5>1, <5>2 DEF Work
      <4>2. clock' = clock + 1 /\ work' = [work EXCEPT ![w] = what] /\ UNCHANGED stage
        BY <2>1, <3>2 DEF CheckDuplicate, ReadIntent, Goto, Settle, Leave, Placed
      <4>3. Placed'
        BY <3>1, <3>2, <4>1, <4>2, Moved DEF Goto, Places
      <4>. QED  BY <2>1, <4>2, <4>3 DEF CheckDuplicate
    <3>3. CASE Goto(w, "return") /\ UNCHANGED <<work, stage, clock>>
      <4>1. Placed'
        BY <3>1, <3>3, MovedOn DEF Places
      <4>. QED  BY <2>1, <3>3, <4>1 DEF CheckDuplicate
    <3>4. CASE Settle(w) /\ UNCHANGED clock
      BY <2>1, <3>1, <3>4, LeaveTyped DEF CheckDuplicate, Settle
    <3>. QED  BY <2>1, <3>2, <3>3, <3>4 DEF CheckDuplicate
  <2>2. CASE InsertPayment(w)
    <3>1. c \in Charges
      BY <2>2 DEF InsertPayment, Placed
    <3>2. Placed'
      BY <2>2, <3>1, MovedOn DEF InsertPayment, AfterInsert, Places
    <3>. QED  BY <2>2, <3>2 DEF InsertPayment
  <2>3. CASE InsertRefused(w)
    BY <2>3, LeaveTyped DEF InsertRefused
  <2>4. CASE ClaimTrial(w)
    <3>1. c \in Charges /\ work[w].at \in Nat
      BY <2>4 DEF ClaimTrial, Placed, Work
    <3>2. Placed'
      BY <2>4, <3>1, MovedOn DEF ClaimTrial, Places
    <3>3. payment' \in [Charges -> Payment]
      BY <2>4, <3>1 DEF ClaimTrial, Payment
    <3>. QED  BY <2>4, <3>2, <3>3 DEF ClaimTrial
  <2>5. CASE ReadGrant(w)
    <3>1. [work[w] EXCEPT !.seen = grant] \in Work
          /\ [work[w] EXCEPT !.seen = grant].charge = c /\ c \in Charges
      BY <2>5 DEF ReadGrant, Placed, Work
    <3>2. Placed'
      BY <2>5, <3>1, Moved DEF ReadGrant, Goto, Places
    <3>. QED  BY <2>5, <3>2 DEF ReadGrant
  <2>6. CASE CommitPayment(w)
    <3>. DEFINE until == PaidUntil(c, work[w].seen)
                status == IF Plan(c) = "monthly" THEN "open" ELSE "paid"
    <3>1. c \in Charges /\ work[w].seen \in Grant /\ work[w].at \in Nat
      BY <2>6 DEF CommitPayment, Placed, Work
    <3>2. until \in Nat
      BY <3>1, PaidUntilTyped
    <3>3. [exists |-> TRUE, active |-> TRUE, until |-> until, gift |-> FALSE] \in Grant
      BY <3>2 DEF Grant, Date
    <3>4. grant' \in Grant
      BY <2>6, <3>1, <3>3, OverwriteTyped DEF CommitPayment
    <3>5. payment' = [payment EXCEPT ![c] = [status |-> "paid", until |-> until, at |-> work[w].at]]
      BY <2>6 DEF CommitPayment
    <3>6. payment' \in [Charges -> Payment]
      <4>. HIDE DEF until
      <4>. QED  BY <3>1, <3>2, <3>5 DEF Payment
    <3>7. WorkOn(c) \in Work /\ WorkOn(c).charge = c
      BY <3>1 DEF WorkOn, NoWork
    <3>8. Placed'
      BY <2>6, <3>1, <3>7, Moved DEF CommitPayment, Goto, Places
    <3>9. /\ trial' = IF c \in Trials THEN c ELSE trial
          /\ intent' = [intent EXCEPT ![InvoiceOf[c]] =
                          IF status # work[w].intent THEN status ELSE @]
          /\ granted' = [granted EXCEPT ![c] = @ + 1]
          /\ UNCHANGED <<now, gifted, telegram, bounded>>
      BY <2>6 DEF CommitPayment
    <3>10. intent' \in [Invoices -> Statuses]
      <4>1. status \in Statuses
        BY DEF Statuses
      <4>. HIDE DEF status
      <4>. QED  BY <3>9, <4>1
    <3>11. granted' \in [Charges -> Nat]
      BY <3>1, <3>9
    <3>12. trial' \in Charges \union {NoCharge}
      BY <3>1, <3>9
    <3>. QED  BY <3>4, <3>6, <3>8, <3>9, <3>10, <3>11, <3>12
  <2>7. CASE GrantRefused(w)
    BY <2>7, LeaveTyped DEF GrantRefused
  <2>. QED  BY <1>7, <2>1, <2>2, <2>3, <2>4, <2>5, <2>6, <2>7 DEF RecordPayment
<1>8. ASSUME NEW p \in Workers \union Desks, NEW next \in {"mark", "recheck"},
             pc[p] \in {"return", "refund"}, GiveBack(p, next)
      PROVE  TypeOK'
  <2>1. work[p].charge \in Charges
    BY <1>8 DEF Placed
  <2>2. Placed'
    BY <1>8, <2>1, LeaveTyped, MovedOn DEF GiveBack, Places
  <2>. QED  BY <1>8, <2>1, <2>2 DEF GiveBack
<1>9. ASSUME NEW w \in Workers, MarkRefunded(w) PROVE TypeOK'
  <2>1. work[w].charge \in Charges
    BY <1>9 DEF MarkRefunded, Placed
  <2>2. Placed'
    BY <1>9, <2>1, MovedOn DEF MarkRefunded, Places
  <2>. QED  BY <1>9, <2>1, <2>2 DEF MarkRefunded, Payment
<1>10. ASSUME NEW w \in Workers, Answer(w) PROVE TypeOK'
  BY <1>10, LeaveTyped DEF Answer, Settle
<1>11. ASSUME NEW d \in Desks, NEW next \in Places, NEW what \in Work,
              next \notin {"idle", "give", "revoke"} => what.charge \in Charges,
              Ask(d, next, what)
       PROVE  TypeOK'
  <2>1. Placed'
    BY <1>11, Moved DEF Ask, Goto
  <2>. QED  BY <1>11, <2>1 DEF Ask
<1>12. ASSUME NEW d \in Desks, NEW c \in Charges, NEW next \in Places, Ask(d, next, WorkOn(c))
       PROVE  TypeOK'
  <2>1. WorkOn(c) \in Work /\ WorkOn(c).charge = c
    BY DEF WorkOn, NoWork
  <2>. QED  BY <1>11, <1>12, <2>1
<1>13. ASSUME NEW d \in Desks, Refund(d) PROVE TypeOK'
  <2>1. CASE OwnerReturnsStars(d)
    BY <1>8, <2>1 DEF OwnerReturnsStars
  <2>2. CASE RecheckRefund(d)
    <3>1. work[d].charge \in Charges
      BY <2>2 DEF RecheckRefund, Placed
    <3>2. Placed'
      BY <2>2, <3>1, LeaveTyped, MovedOn DEF RecheckRefund, Places
    <3>. QED  BY <2>2, <3>2 DEF RecheckRefund
  <2>3. CASE ReadRefund(d)
    <3>1. PICK until \in (IF Paid \ {work[d].charge} = {} THEN {0} ELSE LeftBy(work[d].charge)) :
            work' = [work EXCEPT ![d].seen = grant, ![d].until = until]
      BY <2>3 DEF ReadRefund
    <3>2. until \in Nat
      BY <3>1 DEF LeftBy, Paid, Payment
    <3>3. work[d] \in Work /\ work[d].charge \in Charges
      BY <2>3 DEF ReadRefund, Placed
    <3>. DEFINE what == [work[d] EXCEPT !.seen = grant, !.until = until]
    <3>4. what \in Work /\ what.charge = work[d].charge
      BY <3>2, <3>3 DEF Work
    <3>5. work' = [work EXCEPT ![d] = what]
      BY <3>1 DEF Placed
    <3>6. Placed'
      BY <2>3, <3>3, <3>4, <3>5, Moved DEF ReadRefund, Goto, Places
    <3>. QED  BY <2>3, <3>6 DEF ReadRefund
  <2>4. CASE ApplyRefund(d)
    <3>1. work[d].seen \in Grant /\ work[d].until \in Nat /\ work[d].charge \in Charges
      BY <2>4 DEF ApplyRefund, Placed, Work
    <3>2. /\ [work[d].seen EXCEPT !.active = TRUE, !.until = work[d].until, !.gift = FALSE] \in Grant
          /\ [work[d].seen EXCEPT !.active = FALSE, !.until = now] \in Grant
      BY <3>1 DEF Grant, Date
    <3>3. grant' \in Grant
      BY <2>4, <3>1, <3>2, OverwriteTyped DEF ApplyRefund
    <3>. QED  BY <2>4, <3>1, <3>3, LeaveTyped DEF ApplyRefund, Payment
  <2>. QED  BY <1>13, <2>1, <2>2, <2>3, <2>4 DEF Refund
<1>14. ASSUME NEW d \in Desks, Vip(d) PROVE TypeOK'
  <2>1. CASE AskVip(d)
    <3>1. [NoWork EXCEPT !.seen = grant] \in Work
      BY DEF Work
    <3>. QED  BY <1>11, <2>1, <3>1 DEF AskVip, Places
  <2>2. CASE GiveVip(d)
    <3>1. PICK until \in {now + Days["gift"], Forever} :
            /\ grant' = Overwrite(work[d].seen,
                          [exists |-> TRUE, active |-> TRUE, until |-> until, gift |-> TRUE])
            /\ gifted' = until
      BY <2>2 DEF GiveVip
    <3>2. until \in Date
      BY BillingAssumption DEF Date, Plans
    <3>3. [exists |-> TRUE, active |-> TRUE, until |-> until, gift |-> TRUE] \in Grant
      BY <3>2 DEF Grant
    <3>4. work[d].seen \in Grant
      BY DEF Placed, Work
    <3>5. grant' \in Grant
      BY <3>1, <3>3, <3>4, OverwriteTyped
    <3>. QED  BY <2>2, <3>1, <3>2, <3>5, LeaveTyped DEF GiveVip
  <2>3. CASE RevokeVip(d)
    <3>1. work[d].seen \in Grant /\ [work[d].seen EXCEPT !.active = FALSE] \in Grant
      BY DEF Placed, Work, Grant
    <3>2. grant' \in Grant
      BY <2>3, <3>1, OverwriteTyped DEF RevokeVip
    <3>. QED  BY <2>3, <3>2, LeaveTyped DEF RevokeVip, Date
  <2>4. CASE GrantRefused(d)
    BY <2>4, LeaveTyped DEF GrantRefused
  <2>. QED  BY <1>14, <2>1, <2>2, <2>3, <2>4 DEF Vip
<1>15. ASSUME NEW d \in Desks, Subscription(d) PROVE TypeOK'
  <2>1. CASE AskSubscription(d)
    <3>1. Controls \subseteq Charges
      BY DEF Controls, Paid
    <3>. QED  BY <1>12, <2>1, <3>1 DEF AskSubscription, Places
  <2>2. CASE EditSubscription(d)
    <3>1. work[d].charge \in Charges
      BY <2>2 DEF EditSubscription, Placed
    <3>2. InvoiceOf[work[d].charge] \in Invoices
      BY <3>1, BillingAssumption
    <3>3. Placed'
      BY <2>2, <3>1, MovedOn DEF EditSubscription, Places
    <3>. QED  BY <2>2, <3>2, <3>3 DEF EditSubscription
  <2>3. CASE SetSubscription(d)
    BY <2>3, LeaveTyped DEF SetSubscription, Statuses
  <2>. QED  BY <1>15, <2>1, <2>2, <2>3 DEF Subscription
<1>16. CASE UNCHANGED vars
  BY <1>16 DEF vars, Placed
<1>. QED
  BY <1>1, <1>2, <1>3, <1>4, <1>5, <1>6, <1>7, <1>8, <1>9, <1>10, <1>12, <1>13, <1>14, <1>15, <1>16
  DEF Next, SuccessfulPayment, ReturnStars, AskRefund, Places
-----------------------------------------------------------------------------
(* The invariant. *)

LEMMA InvInit == Init => IInv
<1>. SUFFICES ASSUME Init PROVE IInv
  OBVIOUS
<1>1. Alone /\ Fresh
  BY DEF Init, Alone, Fresh, InTransaction
<1>2. Ledger
  BY DEF Init, Ledger, NoPayment
<1>3. Standing
  BY DEF Init, Standing
<1>. QED  BY TypeInit, <1>1, <1>2, <1>3 DEF IInv

\* Who leaves, leaves nothing behind.
LEMMA LeaveInvariant ==
    ASSUME IInv, TypeOK', NEW p \in Workers \union Desks, Leave(p),
           Taken \subseteq Taken', UNCHANGED <<payment, trial, granted, returned>>
    PROVE  IInv'
<1>. USE DEF IInv, TypeOK, Placed, Leave, Goto
<1>1. \A q \in Workers \union Desks :
        pc'[q] = "idle" \/ (pc'[q] = pc[q] /\ work'[q] = work[q])
  OBVIOUS
<1>. HIDE DEF TypeOK, Placed, Leave, Goto
<1>2. Alone'
  BY <1>1 DEF Alone, InTransaction
<1>3. Fresh'
  BY <1>1 DEF Fresh, InTransaction
<1>4. Ledger'
  BY DEF Ledger
<1>5. Standing'
  BY <1>1 DEF Standing
<1>. QED  BY <1>2, <1>3, <1>4, <1>5

\* A desk that goes on with its charge in good standing.
LEMMA DeskInvariant ==
    ASSUME IInv, TypeOK', NEW d \in Desks, NEW next, NEW what,
           pc' = [pc EXCEPT ![d] = next], work' = [work EXCEPT ![d] = what],
           next \in {"refund", "recheck", "look", "apply"} =>
              payment[what.charge].status \in {"paid", "refunded"},
           next \in {"recheck", "look", "apply"} => what.charge \in returned',
           returned \subseteq returned',
           \A c \in Charges : c \in returned' \ returned => payment[c].status # "none",
           UNCHANGED <<payment, trial, granted, stage>>
    PROVE  IInv'
<1>1. d \notin Workers
  BY BillingAssumption
<1>2. \A w \in Workers : pc'[w] = pc[w] /\ work'[w] = work[w]
  BY <1>1 DEF IInv, TypeOK, Placed
<1>3. \A e \in Desks : (e = d /\ pc'[e] = next /\ work'[e] = what)
                         \/ (pc'[e] = pc[e] /\ work'[e] = work[e])
  BY DEF IInv, TypeOK, Placed
<1>4. Alone'
  BY <1>2 DEF IInv, Alone
<1>5. Fresh'
  BY <1>2 DEF IInv, Fresh
<1>6. Ledger'
  BY DEF IInv, Ledger, Taken
<1>7. Standing'
  <2>1. \A w \in Workers :
          /\ pc'[w] # "idle" => work'[w].charge \in Taken'
          /\ pc'[w] \in {"return", "mark"} =>
                payment'[work'[w].charge].status \in {"refund_required", "refunded"}
          /\ pc'[w] = "mark" => work'[w].charge \in returned'
    BY <1>2 DEF IInv, Standing, Taken
  <2>2. \A e \in Desks :
          /\ pc'[e] \in {"refund", "recheck", "look", "apply"} =>
                payment'[work'[e].charge].status \in {"paid", "refunded"}
          /\ pc'[e] \in {"recheck", "look", "apply"} => work'[e].charge \in returned'
    BY <1>3 DEF IInv, Standing
  <2>. QED  BY <2>1, <2>2 DEF Standing
<1>. QED  BY <1>4, <1>5, <1>6, <1>7 DEF IInv

\* A worker at a step that commits nothing, and its charge when it moves on.
LEMMA WorkerInvariant ==
    ASSUME IInv, TypeOK', NEW w \in Workers, NEW next, NEW what,
           pc' = [pc EXCEPT ![w] = next], work' = [work EXCEPT ![w] = what],
           what.charge \in Taken,
           next \in InTransaction =>
              /\ payment[what.charge].status = "none"
              /\ \A v \in Workers \ {w} : pc[v] \in InTransaction => work[v].charge # what.charge,
           next \in {"read", "commit"} /\ what.charge \in Trials =>
              /\ trial = NoCharge
              /\ \A v \in Workers \ {w} :
                    pc[v] \in {"read", "commit"} => work[v].charge \notin Trials,
           next \in {"return", "mark"} =>
              payment[what.charge].status \in {"refund_required", "refunded"},
           next = "mark" => what.charge \in returned',
           returned \subseteq returned',
           \A c \in Charges : c \in returned' \ returned => payment[c].status # "none",
           UNCHANGED <<payment, trial, granted, stage>>
    PROVE  IInv'
<1>1. \A v \in Workers : (v = w /\ pc'[v] = next /\ work'[v] = what)
                           \/ (v # w /\ pc'[v] = pc[v] /\ work'[v] = work[v])
  BY DEF IInv, TypeOK, Placed
<1>2. w \notin Desks
  BY BillingAssumption
<1>3. \A d \in Desks : pc'[d] = pc[d] /\ work'[d] = work[d]
  BY <1>2 DEF IInv, TypeOK, Placed
<1>4. Alone'
  BY <1>1 DEF IInv, Alone, InTransaction
<1>5. Fresh'
  BY <1>1 DEF IInv, Fresh, InTransaction
<1>6. Ledger'
  BY DEF IInv, Ledger, Taken
<1>7. Standing'
  BY <1>1, <1>3 DEF IInv, Standing, Taken
<1>. QED  BY <1>4, <1>5, <1>6, <1>7 DEF IInv

LEMMA RecordPaymentInvariant ==
    ASSUME IInv, TypeOK', NEW w \in Workers, RecordPayment(w)
    PROVE  IInv'
<1>. DEFINE c == work[w].charge
<1>1. c \in Charges /\ c \in Taken /\ work = [work EXCEPT ![w] = work[w]]
  <2>1. pc[w] \in {"check", "insert", "claim", "read", "commit", "give"}
    BY DEF RecordPayment, CheckDuplicate, InsertPayment, InsertRefused, ClaimTrial, ReadGrant,
           CommitPayment, GrantRefused
  <2>2. c \in Taken
    BY <2>1 DEF IInv, Standing
  <2>. QED  BY <2>2 DEF IInv, TypeOK, Placed, Taken
<1>2. CASE CheckDuplicate(w)
  <2>1. CASE Goto(w, "insert")
    <3>. DEFINE what == [work[w] EXCEPT !.at = clock + 1, !.intent = intent[InvoiceOf[c]]]
    <3>1. /\ work' = [work EXCEPT ![w] = what]
          /\ UNCHANGED <<payment, trial, granted, returned, stage>>
      BY <1>2, <2>1 DEF CheckDuplicate, ReadIntent, Goto, Settle, Leave, IInv, TypeOK, Placed, rows
    <3>2. what.charge = c
      BY DEF IInv, TypeOK, Placed, Work
    <3>. QED  BY <1>1, <2>1, <3>1, <3>2, WorkerInvariant DEF Goto, InTransaction
  <2>2. CASE /\ payment[c].status = "refund_required"
             /\ Goto(w, "return") /\ UNCHANGED <<work, stage, clock>>
    BY <1>1, <1>2, <2>2, WorkerInvariant DEF CheckDuplicate, Goto, InTransaction, rows
  <2>3. CASE Settle(w) /\ UNCHANGED clock
    BY <1>1, <1>2, <2>3, LeaveInvariant DEF CheckDuplicate, Settle, Taken, IInv, TypeOK, rows
  <2>. QED  BY <1>2, <2>1, <2>2, <2>3 DEF CheckDuplicate
<1>3. CASE InsertPayment(w)
  <2>. DEFINE next == IF c \in Trials THEN "claim" ELSE "read"
  <2>1. pc' = [pc EXCEPT ![w] = next]
    BY <1>3 DEF InsertPayment, AfterInsert, Goto
  <2>2. \A v \in Workers \ {w} : pc[v] \in InTransaction => work[v].charge # c
    BY <1>3 DEF InsertPayment, Inserted, InTransaction
  <2>3. next \in {"claim", "read"} /\ (next = "read" => c \notin Trials)
    OBVIOUS
  <2>. HIDE DEF next
  <2>. QED
    BY <1>1, <1>3, <2>1, <2>2, <2>3, WorkerInvariant DEF InsertPayment, rows, telegram
<1>4. CASE InsertRefused(w)
  BY <1>4, LeaveInvariant DEF InsertRefused, Taken, rows, telegram
<1>5. CASE ClaimTrial(w)
  <2>1. payment[c].status = "none"
    BY <1>5 DEF ClaimTrial, IInv, Fresh, InTransaction
  <2>2. CASE trial = NoCharge /\ Goto(w, "read") /\ UNCHANGED payment
    <3>1. \A v \in Workers \ {w} : pc[v] \in InTransaction => work[v].charge # c
      BY <1>5 DEF ClaimTrial, IInv, Alone, InTransaction
    <3>2. \A v \in Workers \ {w} : pc[v] \in {"read", "commit"} => work[v].charge \notin Trials
      BY <1>5 DEF ClaimTrial, Claiming
    <3>. QED
      BY <1>1, <1>5, <2>1, <2>2, <3>1, <3>2, WorkerInvariant DEF ClaimTrial, Goto, telegram
  <2>3. CASE /\ payment' = [payment EXCEPT ![c] =
                              [status |-> "refund_required", until |-> 0, at |-> work[w].at]]
             /\ Goto(w, "return")
    <3>1. /\ payment'[c].status = "refund_required"
          /\ \A e \in Charges : e # c => payment'[e] = payment[e]
      BY <1>1, <2>3 DEF IInv, TypeOK
    <3>2. UNCHANGED <<trial, granted, work, stage, returned>>
      BY <1>5 DEF ClaimTrial, telegram
    <3>3. \A v \in Workers : (v = w /\ pc'[v] = "return") \/ (v # w /\ pc'[v] = pc[v])
      BY <2>3 DEF Goto, IInv, TypeOK, Placed
    <3>4. \A v \in Workers : v # w /\ pc[v] \in InTransaction => work[v].charge # c
      BY <1>5 DEF ClaimTrial, IInv, Alone, InTransaction
    <3>5. \A d \in Desks : pc'[d] = pc[d]
      BY <2>3, BillingAssumption DEF Goto, IInv, TypeOK, Placed
    <3>6. Alone'
      BY <3>2, <3>3 DEF IInv, Alone, InTransaction
    <3>7. \A q \in Workers \union Desks :
            pc[q] \notin {"idle", "give", "revoke"} => work[q].charge \in Charges
      BY DEF IInv, TypeOK, Placed
    <3>8. Fresh'
      BY <3>1, <3>2, <3>3, <3>4, <3>7 DEF IInv, Fresh, InTransaction
    <3>9. Ledger'
      BY <1>1, <2>1, <3>1, <3>2 DEF IInv, Ledger, Taken
    <3>10. Standing'
      BY <1>1, <2>1, <3>1, <3>2, <3>3, <3>5, <3>7 DEF IInv, Standing, Taken
    <3>. QED  BY <3>6, <3>8, <3>9, <3>10 DEF IInv
  <2>. QED  BY <1>5, <2>2, <2>3 DEF ClaimTrial
<1>6. CASE ReadGrant(w)
  <2>. DEFINE what == [work[w] EXCEPT !.seen = grant]
  <2>1. what.charge = c
    BY DEF IInv, TypeOK, Placed, Work
  <2>2. work' = [work EXCEPT ![w] = what] /\ pc' = [pc EXCEPT ![w] = "commit"]
    BY <1>6 DEF ReadGrant, Goto
  <2>3. /\ payment[c].status = "none"
        /\ c \in Trials => trial = NoCharge
        /\ \A v \in Workers \ {w} : pc[v] \in InTransaction => work[v].charge # c
        /\ c \in Trials => \A v \in Workers \ {w} :
              pc[v] \in {"read", "commit"} => work[v].charge \notin Trials
    BY <1>6 DEF ReadGrant, IInv, Fresh, Alone, InTransaction
  <2>4. UNCHANGED <<payment, trial, granted, stage, returned>>
    BY <1>6 DEF ReadGrant, rows, telegram
  <2>. HIDE DEF what
  <2>. QED  BY <1>1, <2>1, <2>2, <2>3, <2>4, WorkerInvariant
<1>7. CASE CommitPayment(w)
  <2>1. /\ payment[c].status = "none"
        /\ c \in Trials => trial = NoCharge
        /\ \A v \in Workers : v # w => /\ pc[v] \in InTransaction => work[v].charge # c
                                       /\ c \in Trials /\ pc[v] \in {"read", "commit"}
                                            => work[v].charge \notin Trials
    BY <1>7 DEF CommitPayment, IInv, Fresh, Alone, InTransaction
  <2>2. /\ payment'[c].status = "paid"
        /\ \A e \in Charges : e # c => payment'[e] = payment[e]
    BY <1>1, <1>7 DEF CommitPayment, IInv, TypeOK
  <2>3. /\ granted'[c] = granted[c] + 1
        /\ \A e \in Charges : e # c => granted'[e] = granted[e]
    BY <1>1, <1>7 DEF CommitPayment, IInv, TypeOK
  <2>4. trial' = IF c \in Trials THEN c ELSE trial
    BY <1>7 DEF CommitPayment
  <2>5. UNCHANGED <<stage, returned>>
    BY <1>7 DEF CommitPayment, telegram
  <2>6. \A v \in Workers :
          \/ v = w /\ pc'[v] = "answer" /\ work'[v].charge = c
          \/ v # w /\ pc'[v] = pc[v] /\ work'[v] = work[v]
    BY <1>7 DEF CommitPayment, Goto, WorkOn, NoWork, IInv, TypeOK, Placed
  <2>7. \A d \in Desks : pc'[d] = pc[d] /\ work'[d] = work[d]
    BY <1>7, BillingAssumption DEF CommitPayment, Goto, IInv, TypeOK, Placed
  <2>8. \A q \in Workers \union Desks :
          pc[q] \notin {"idle", "give", "revoke"} => work[q].charge \in Charges
    BY DEF IInv, TypeOK, Placed
  <2>9. Alone'
    BY <2>6 DEF IInv, Alone, InTransaction
  <2>10. Fresh'
    BY <2>1, <2>2, <2>4, <2>6, <2>8 DEF IInv, Fresh, InTransaction
  <2>11. Ledger'
    <3>1. granted[c] = 0 /\ c \notin returned
      BY <1>1, <2>1 DEF IInv, Ledger
    <3>2. \A b \in Trials : c \in Trials => ~(granted[b] > 0)
      BY <2>1, BillingAssumption DEF IInv, Ledger, Trials
    <3>. QED  BY <1>1, <2>2, <2>3, <2>4, <2>5, <3>1, <3>2 DEF IInv, Ledger, Taken, Trials
  <2>12. Standing'
    BY <1>1, <2>1, <2>2, <2>5, <2>6, <2>7, <2>8 DEF IInv, Standing, Taken
  <2>. QED  BY <2>9, <2>10, <2>11, <2>12 DEF IInv
<1>8. CASE GrantRefused(w)
  BY <1>8, LeaveInvariant DEF GrantRefused, Taken, rows, telegram
<1>. QED  BY <1>2, <1>3, <1>4, <1>5, <1>6, <1>7, <1>8 DEF RecordPayment

LEMMA SuccessfulPaymentInvariant ==
    ASSUME IInv, TypeOK', NEW w \in Workers, SuccessfulPayment(w)
    PROVE  IInv'
<1>. DEFINE c == work[w].charge
<1>1. CASE RecordPayment(w)
  BY <1>1, RecordPaymentInvariant
<1>2. CASE ReturnStars(w)
  <2>1. /\ c \in Charges /\ c \in Taken /\ work = [work EXCEPT ![w] = work[w]]
        /\ payment[c].status \in {"refund_required", "refunded"}
    BY <1>2 DEF ReturnStars, IInv, TypeOK, Placed, Standing
  <2>2. UNCHANGED <<payment, trial, granted, stage>>
    BY <1>2 DEF ReturnStars, GiveBack, rows
  <2>3. CASE Leave(w) /\ UNCHANGED returned
    BY <2>2, <2>3, LeaveInvariant DEF Taken
  <2>4. CASE returned' = returned \union {c} /\ Goto(w, "mark") /\ UNCHANGED work
    BY <2>1, <2>2, <2>4, WorkerInvariant DEF Goto, InTransaction
  <2>. QED  BY <1>2, <2>3, <2>4 DEF ReturnStars, GiveBack
<1>3. CASE MarkRefunded(w)
  <2>1. /\ c \in Charges /\ c \in Taken /\ c \in returned
        /\ payment[c].status \in {"refund_required", "refunded"}
    BY <1>3 DEF MarkRefunded, IInv, TypeOK, Placed, Standing
  <2>2. /\ payment'[c].status = "refunded"
        /\ \A e \in Charges : e # c => payment'[e] = payment[e]
    BY <1>3, <2>1 DEF MarkRefunded, IInv, TypeOK, Payment
  <2>3. UNCHANGED <<trial, granted, work, stage, returned>>
    BY <1>3 DEF MarkRefunded, telegram
  <2>4. \A v \in Workers : (v = w /\ pc'[v] = "answer") \/ (v # w /\ pc'[v] = pc[v])
    BY <1>3 DEF MarkRefunded, Goto, IInv, TypeOK, Placed
  <2>5. \A d \in Desks : pc'[d] = pc[d]
    BY <1>3, BillingAssumption DEF MarkRefunded, Goto, IInv, TypeOK, Placed
  <2>6. \A q \in Workers \union Desks :
          pc[q] \notin {"idle", "give", "revoke"} => work[q].charge \in Charges
    BY DEF IInv, TypeOK, Placed
  <2>7. Alone'
    BY <2>3, <2>4 DEF IInv, Alone, InTransaction
  <2>8. Fresh'
    BY <2>1, <2>2, <2>3, <2>4, <2>6 DEF IInv, Fresh, InTransaction
  <2>9. Ledger'
    BY <2>1, <2>2, <2>3 DEF IInv, Ledger, Taken
  <2>10. Standing'
    BY <2>1, <2>2, <2>3, <2>4, <2>5, <2>6 DEF IInv, Standing, Taken
  <2>. QED  BY <2>7, <2>8, <2>9, <2>10 DEF IInv
<1>4. CASE Answer(w)
  <2>1. c \in Taken
    BY <1>4 DEF Answer, IInv, Standing
  <2>2. Taken \subseteq Taken'
    BY <1>4, <2>1 DEF Answer, Settle, Taken, IInv, TypeOK
  <2>. QED  BY <1>4, <2>2, LeaveInvariant DEF Answer, Settle, rows
<1>. QED  BY <1>1, <1>2, <1>3, <1>4 DEF SuccessfulPayment

LEMMA DesksInvariant ==
    ASSUME IInv, TypeOK', NEW d \in Desks,
           (\E c \in Charges : AskRefund(d, c)) \/ Refund(d) \/ Vip(d) \/ Subscription(d)
    PROVE  IInv'
<1>. DEFINE c == work[d].charge
<1>1. ASSUME NEW next, NEW what, Ask(d, next, what),
             next = "refund" => payment[what.charge].status = "paid",
             next \notin {"recheck", "look", "apply"}
      PROVE  IInv'
  BY <1>1, DeskInvariant DEF Ask, Goto, rows, telegram
<1>2. ASSUME NEW e \in Charges, AskRefund(d, e) PROVE IInv'
  <2>1. WorkOn(e).charge = e /\ payment[e].status = "paid"
    BY <1>2 DEF AskRefund, Eligible, Paid, WorkOn, NoWork
  <2>. QED  BY <1>1, <1>2, <2>1 DEF AskRefund
<1>3. CASE Refund(d)
  <2>1. c \in Charges /\ work = [work EXCEPT ![d] = work[d]]
        /\ payment[c].status \in {"paid", "refunded"}
    <3>1. pc[d] \in {"refund", "recheck", "look", "apply"}
      BY <1>3 DEF Refund, OwnerReturnsStars, RecheckRefund, ReadRefund, ApplyRefund
    <3>. QED  BY <3>1 DEF IInv, TypeOK, Placed, Standing
  <2>2. CASE OwnerReturnsStars(d)
    <3>1. UNCHANGED <<payment, trial, granted, stage>>
      BY <2>2 DEF OwnerReturnsStars, GiveBack, rows
    <3>2. CASE Leave(d) /\ UNCHANGED returned
      BY <3>1, <3>2, LeaveInvariant DEF Taken
    <3>3. CASE returned' = returned \union {c} /\ Goto(d, "recheck") /\ UNCHANGED work
      BY <2>1, <3>1, <3>3, DeskInvariant DEF Goto
    <3>. QED  BY <2>2, <3>2, <3>3 DEF OwnerReturnsStars, GiveBack
  <2>3. CASE RecheckRefund(d)
    <3>1. UNCHANGED <<payment, trial, granted, stage, returned>> /\ c \in returned
      BY <2>3 DEF RecheckRefund, rows, telegram, IInv, Standing
    <3>2. CASE Goto(d, "look") /\ UNCHANGED work
      BY <2>1, <3>1, <3>2, DeskInvariant DEF Goto
    <3>3. CASE Leave(d)
      BY <3>1, <3>3, LeaveInvariant DEF Taken
    <3>. QED  BY <2>3, <3>2, <3>3 DEF RecheckRefund
  <2>4. CASE ReadRefund(d)
    <3>1. UNCHANGED <<payment, trial, granted, stage, returned>> /\ c \in returned
      BY <2>4 DEF ReadRefund, rows, telegram, IInv, Standing
    <3>2. PICK until : work' = [work EXCEPT ![d].seen = grant, ![d].until = until]
      BY <2>4 DEF ReadRefund
    <3>. DEFINE what == [work[d] EXCEPT !.seen = grant, !.until = until]
    <3>3. work' = [work EXCEPT ![d] = what] /\ what.charge = c
      BY <3>2 DEF IInv, TypeOK, Placed, Work
    <3>4. pc' = [pc EXCEPT ![d] = "apply"]
      BY <2>4 DEF ReadRefund, Goto
    <3>. HIDE DEF what
    <3>. QED  BY <2>1, <3>1, <3>3, <3>4, DeskInvariant
  <2>5. CASE ApplyRefund(d)
    <3>1. /\ payment'[c].status = "refunded"
          /\ \A e \in Charges : e # c => payment'[e] = payment[e]
      BY <2>1, <2>5 DEF ApplyRefund, IInv, TypeOK, Payment
    <3>2. UNCHANGED <<trial, granted, stage, returned>> /\ c \in returned
      BY <2>5 DEF ApplyRefund, telegram, IInv, Standing
    <3>3. \A w \in Workers : pc'[w] = pc[w] /\ work'[w] = work[w]
      BY <2>5, BillingAssumption DEF ApplyRefund, Leave, Goto, IInv, TypeOK, Placed
    <3>4. \A e \in Desks : pc'[e] = "idle" \/ (pc'[e] = pc[e] /\ work'[e] = work[e])
      BY <2>5 DEF ApplyRefund, Leave, Goto, IInv, TypeOK, Placed
    <3>5. \A q \in Workers \union Desks :
            pc[q] \notin {"idle", "give", "revoke"} => work[q].charge \in Charges
      BY DEF IInv, TypeOK, Placed
    <3>6. Alone'
      BY <3>3 DEF IInv, Alone
    <3>7. Fresh'
      BY <2>1, <3>1, <3>2, <3>3, <3>5 DEF IInv, Fresh, InTransaction
    <3>8. Ledger'
      BY <2>1, <3>1, <3>2 DEF IInv, Ledger, Taken
    <3>9. Standing'
      BY <2>1, <3>1, <3>2, <3>3, <3>4, <3>5 DEF IInv, Standing, Taken
    <3>. QED  BY <3>6, <3>7, <3>8, <3>9 DEF IInv
  <2>. QED  BY <1>3, <2>2, <2>3, <2>4, <2>5 DEF Refund
<1>4. CASE Vip(d)
  <2>1. CASE AskVip(d)
    BY <1>1, <2>1 DEF AskVip
  <2>2. CASE GiveVip(d) \/ RevokeVip(d) \/ GrantRefused(d)
    BY <2>2, LeaveInvariant DEF GiveVip, RevokeVip, GrantRefused, Taken, rows, telegram
  <2>. QED  BY <1>4, <2>1, <2>2 DEF Vip
<1>5. CASE Subscription(d)
  <2>1. CASE AskSubscription(d)
    BY <1>1, <2>1 DEF AskSubscription
  <2>2. CASE EditSubscription(d)
    <3>1. UNCHANGED <<payment, trial, granted, stage, returned>>
      BY <2>2 DEF EditSubscription, rows
    <3>2. PICK next \in {"set canceled", "set open"} : Goto(d, next) /\ UNCHANGED work
      BY <2>2 DEF EditSubscription
    <3>3. work' = [work EXCEPT ![d] = work[d]]
      BY <3>2 DEF IInv, TypeOK, Placed
    <3>. QED  BY <3>1, <3>2, <3>3, DeskInvariant DEF Goto
  <2>3. CASE SetSubscription(d)
    BY <2>3, LeaveInvariant DEF SetSubscription, Taken, telegram
  <2>. QED  BY <1>5, <2>1, <2>2, <2>3 DEF Subscription
<1>. QED  BY <1>2, <1>3, <1>4, <1>5

LEMMA InvStep == IInv /\ [Next]_vars => IInv'
<1>. SUFFICES ASSUME IInv, [Next]_vars PROVE IInv'
  OBVIOUS
<1>1. TypeOK'
  BY TypeStep DEF IInv
<1>2. CASE Tick \/ (\E i \in Invoices : CreateInvoice(i)) \/ UNCHANGED vars
  <2>1. UNCHANGED <<payment, trial, granted, stage, returned, pc, work>>
    BY <1>2 DEF Tick, CreateInvoice, vars, rows, telegram
  <2>. QED  BY <1>1, <2>1 DEF IInv, Alone, Fresh, Ledger, Standing, Taken
<1>3. ASSUME NEW c \in Charges, Checkout(c) \/ TakeStars(c) PROVE IInv'
  <2>1. UNCHANGED <<payment, trial, granted, returned, pc, work>>
    BY <1>3 DEF Checkout, TakeStars, rows
  <2>2. Taken \subseteq Taken'
    <3>1. stage[c] \in {"none", "approved"} /\ \A e \in Charges : e # c => stage'[e] = stage[e]
      BY <1>3 DEF Checkout, TakeStars, Renewal, IInv, TypeOK
    <3>. QED  BY <3>1 DEF Taken
  <2>. QED  BY <1>1, <2>1, <2>2 DEF IInv, Alone, Fresh, Ledger, Standing
<1>4. ASSUME NEW w \in Workers, NEW c \in Charges, Deliver(w, c) PROVE IInv'
  <2>1. UNCHANGED <<payment, trial, granted, stage, returned>> /\ c \in Taken
    BY <1>4 DEF Deliver, rows, telegram, Taken
  <2>2. WorkOn(c).charge = c
    BY DEF WorkOn, NoWork
  <2>3. pc' = [pc EXCEPT ![w] = "check"] /\ work' = [work EXCEPT ![w] = WorkOn(c)]
    BY <1>4 DEF Deliver, Goto
  <2>. QED  BY <1>1, <2>1, <2>2, <2>3, WorkerInvariant DEF InTransaction
<1>5. ASSUME NEW p \in Workers \union Desks, Fail(p) PROVE IInv'
  BY <1>1, <1>5, LeaveInvariant DEF Fail, Taken, rows, telegram
<1>. QED
  BY <1>1, <1>2, <1>3, <1>4, <1>5, SuccessfulPaymentInvariant, DesksInvariant DEF Next

THEOREM Invariance == Spec => []IInv
BY InvInit, InvStep, PTL DEF Spec

-----------------------------------------------------------------------------
(* What billing promises. *)

\* Every variable keeps its type.
THEOREM TypeCorrect == Spec => []TypeOK
BY TypeInit, TypeStep, PTL DEF Spec

\* A charge is answered with VIP time at most once, and never one whose Stars are
\* owed back: record_payment, under any deliveries and failures.
THEOREM ChargesAnsweredOnce == Spec => []AnsweredOnce
<1>1. IInv => AnsweredOnce
  BY DEF IInv, Ledger, AnsweredOnce
<1>. QED  BY <1>1, Invariance, PTL

\* At most one trial is answered with VIP time: the claim in record_payment.
THEOREM TrialsGrantedOnce == Spec => []OneTrial
<1>1. IInv => OneTrial
  BY DEF IInv, Ledger, OneTrial, Trials
<1>. QED  BY <1>1, Invariance, PTL

\* What the database calls refunded has been given back: mark_refunded and
\* apply_refund, after the call of Telegram.
THEOREM RefundsAreReturned == Spec => []RefundedIsReturned
<1>1. IInv => RefundedIsReturned
  BY DEF IInv, Ledger, RefundedIsReturned
<1>. QED  BY <1>1, Invariance, PTL

\* Billing implements Settlement: it grants VIP time only for Stars that are
\* taken and kept.
THEOREM Refinement == Spec => ImplementsSettlement
<1>1. Init => Settlement!Init
  BY DEF Init, Settlement!Init
<1>2. IInv /\ [Next]_vars => [Settlement!Next]_(Settlement!vars)
  <2>. SUFFICES ASSUME IInv, [Next]_vars PROVE Settlement!Next \/ UNCHANGED Settlement!vars
    OBVIOUS
  <2>. USE DEF Settlement!vars
  <2>1. CASE Tick \/ (\E i \in Invoices : CreateInvoice(i)) \/ UNCHANGED vars
    BY <2>1 DEF Tick, CreateInvoice, vars, rows, telegram
  <2>2. ASSUME NEW c \in Charges, Checkout(c) PROVE UNCHANGED Settlement!vars
    <3>1. stage[c] = "none" /\ stage'[c] = "approved" /\ UNCHANGED <<granted, returned>>
          /\ \A e \in Charges : e # c => stage'[e] = stage[e]
      BY <2>2 DEF Checkout, IInv, TypeOK, rows
    <3>. QED  BY <3>1
  <2>3. ASSUME NEW c \in Charges, TakeStars(c) PROVE Settlement!Next
    <3>1. /\ stage[c] \in {"none", "approved"} /\ stage'[c] = "taken"
          /\ \A e \in Charges : e # c => stage'[e] = stage[e]
          /\ UNCHANGED <<granted, returned>>
      BY <2>3 DEF TakeStars, Renewal, IInv, TypeOK, rows
    <3>2. Settlement!Take(c)
      BY <3>1 DEF Settlement!Take
    <3>. QED  BY <3>2 DEF Settlement!Next
  <2>4. ASSUME NEW w \in Workers, NEW c \in Charges, Deliver(w, c) PROVE UNCHANGED Settlement!vars
    BY <2>4 DEF Deliver, rows, telegram
  <2>5. ASSUME NEW p \in Workers \union Desks, Fail(p) PROVE UNCHANGED Settlement!vars
    BY <2>5 DEF Fail, rows, telegram
  <2>6. ASSUME NEW w \in Workers, CommitPayment(w) PROVE Settlement!Next
    <3>. DEFINE c == work[w].charge
    <3>1. c \in Charges /\ c \in Taken
      BY <2>6 DEF CommitPayment, IInv, TypeOK, Placed, Standing
    <3>2. payment[c].status = "none" /\ (c \in Trials => trial = NoCharge)
      BY <2>6 DEF CommitPayment, IInv, Fresh, InTransaction
    <3>3. granted[c] = 0 /\ c \notin returned
      BY <3>1, <3>2 DEF IInv, Ledger
    <3>4. c \in Trials => \A b \in Trials : granted[b] = 0
      BY <3>2, BillingAssumption DEF IInv, TypeOK, Ledger, Trials
    <3>5. granted' = [granted EXCEPT ![c] = 1] /\ UNCHANGED <<stage, returned>>
      BY <2>6, <3>1, <3>3 DEF CommitPayment, telegram, IInv, TypeOK
    <3>6. Settlement!Grant(c)
      BY <3>1, <3>3, <3>4, <3>5 DEF Settlement!Grant, Taken
    <3>. QED  BY <3>1, <3>6 DEF Settlement!Next
  <2>7. ASSUME NEW p \in Workers \union Desks,
               (p \in Workers /\ ReturnStars(p)) \/ (p \in Desks /\ OwnerReturnsStars(p))
        PROVE  Settlement!Next \/ UNCHANGED Settlement!vars
    <3>. DEFINE c == work[p].charge
    <3>1. c \in Charges /\ c \in Taken
      <4>1. pc[p] \in {"return", "refund"} /\ c \in Charges
        BY <2>7 DEF ReturnStars, OwnerReturnsStars, IInv, TypeOK, Placed
      <4>2. payment[c].status # "none"
        BY <2>7 DEF ReturnStars, OwnerReturnsStars, IInv, Standing
      <4>. QED  BY <4>1, <4>2 DEF IInv, Ledger
    <3>2. UNCHANGED <<granted, stage>>
      BY <2>7 DEF ReturnStars, OwnerReturnsStars, GiveBack, rows
    <3>3. UNCHANGED returned \/ (c \notin returned /\ returned' = returned \union {c})
      BY <2>7 DEF ReturnStars, OwnerReturnsStars, GiveBack
    <3>4. c \notin returned /\ returned' = returned \union {c} => Settlement!GiveBack(c)
      BY <3>1, <3>2 DEF Settlement!GiveBack, Taken
    <3>. QED  BY <3>1, <3>2, <3>3, <3>4 DEF Settlement!Next
  <2>8. ASSUME NEW w \in Workers,
               \/ InsertPayment(w) \/ InsertRefused(w) \/ ClaimTrial(w) \/ ReadGrant(w)
               \/ GrantRefused(w) \/ MarkRefunded(w)
        PROVE  UNCHANGED Settlement!vars
    BY <2>8 DEF InsertPayment, InsertRefused, ClaimTrial, ReadGrant, GrantRefused, MarkRefunded,
                rows, telegram
  <2>9. ASSUME NEW w \in Workers, CheckDuplicate(w) \/ Answer(w) PROVE UNCHANGED Settlement!vars
    <3>1. work[w].charge \in Taken /\ work[w].charge \in Charges
      BY <2>9 DEF CheckDuplicate, Answer, IInv, Standing, Taken
    <3>2. UNCHANGED <<granted, returned>>
          /\ (UNCHANGED stage \/ stage' = [stage EXCEPT ![work[w].charge] = "settled"])
      BY <2>9 DEF CheckDuplicate, Answer, Settle, rows
    <3>. QED  BY <3>1, <3>2 DEF IInv, TypeOK, Taken
  <2>10. ASSUME NEW d \in Desks,
                \/ \E c \in Charges : AskRefund(d, c)
                \/ RecheckRefund(d) \/ ReadRefund(d) \/ ApplyRefund(d) \/ Vip(d) \/ Subscription(d)
         PROVE  UNCHANGED Settlement!vars
    BY <2>10 DEF AskRefund, RecheckRefund, ReadRefund, ApplyRefund, Vip, AskVip, GiveVip, RevokeVip,
                 GrantRefused, Subscription, AskSubscription, EditSubscription, SetSubscription,
                 Ask, rows, telegram
  <2>. HIDE DEF Settlement!vars
  <2>. DEFINE Kept == Settlement!Next \/ UNCHANGED Settlement!vars
  <2>11. ASSUME NEW w \in Workers, SuccessfulPayment(w) PROVE Kept
    <3>1. CASE CommitPayment(w)
      BY <2>6, <3>1
    <3>2. CASE ReturnStars(w)
      BY <2>7, <3>2
    <3>3. CASE CheckDuplicate(w) \/ Answer(w)
      BY <2>9, <3>3
    <3>4. CASE InsertPayment(w) \/ InsertRefused(w) \/ ClaimTrial(w) \/ ReadGrant(w)
               \/ GrantRefused(w) \/ MarkRefunded(w)
      BY <2>8, <3>4
    <3>. QED  BY <2>11, <3>1, <3>2, <3>3, <3>4 DEF SuccessfulPayment, RecordPayment
  <2>12. ASSUME NEW d \in Desks,
                (\E c \in Charges : AskRefund(d, c)) \/ Refund(d) \/ Vip(d) \/ Subscription(d)
         PROVE  Kept
    <3>1. CASE OwnerReturnsStars(d)
      BY <2>7, <3>1
    <3>. QED  BY <2>10, <2>12, <3>1 DEF Refund
  <2>13. (\E c \in Charges : Checkout(c) \/ TakeStars(c)) => Kept
    BY <2>2, <2>3
  <2>14. ASSUME NEW w \in Workers, (\E c \in Charges : Deliver(w, c)) \/ Fail(w) PROVE Kept
    BY <2>4, <2>5, <2>14
  <2>15. ASSUME NEW d \in Desks, Fail(d) PROVE Kept
    BY <2>5, <2>15
  <2>16. Tick \/ (\E i \in Invoices : CreateInvoice(i)) \/ UNCHANGED vars => Kept
    BY <2>1
  <2>. HIDE DEF Kept
  <2>17. Kept
    BY <2>11, <2>12, <2>13, <2>14, <2>15, <2>16 DEF Next
  <2>. QED  BY <2>17 DEF Kept
<1>. QED  BY <1>1, <1>2, Invariance, PTL DEF Spec, ImplementsSettlement, Settlement!Spec
=============================================================================
