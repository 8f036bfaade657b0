------------------------------ MODULE Reminders ------------------------------
(***************************************************************************)
(* Messages to users in private: VIP that ends soon or has ended           *)
(* (app/services/vip_lifecycle.py) and reminders                           *)
(* (app/services/retention_lifecycle.py), with their claims and cool-down  *)
(* (app/repositories/engagement.py).                                       *)
(*                                                                         *)
(* A sender is a job: the life cycle, which sends the VIP messages and     *)
(* then a reminder to whom it has one for, or what follows a weekly report *)
(* of a group.  Senders overlap: the two kinds have different leases, the  *)
(* lease of the life cycle is one per hour, and a report that an           *)
(* administrator asks for needs none.  Here any may start at any time.     *)
(*                                                                         *)
(* A sending answers, or fails with or without having reached the user.    *)
(* What a member has reached, and so whether there is a reminder for him,  *)
(* is left open, and so is the line about his rank in the weekly notice.   *)
(***************************************************************************)
EXTENDS Naturals, FiniteSets, Sequences

CONSTANTS
    Senders, Users,
    WeekKey,            \* the key of the notice of a weekly report
    StreakKey,          \* StreakKey[h]: of a streak at risk, one key per day
    NearKey,            \* of an achievement that is near
    Expiry,             \* Expiry[u]: the hour at which u's VIP ends
    WarnBefore,         \* hours before the end of VIP at which a warning is due
    Cooldown,           \* RETENTION_COOLDOWN, in hours
    LastHour,           \* bound
    MaxJobs,            \* bound: jobs started
    MaxFailures,        \* bound: jobs that die and sendings that fail
    Unsent, NoOne

Hours == 0..LastHour
Keys == {WeekKey, NearKey} \union {StreakKey[h] : h \in Hours}
VipMessages == {"warning", "expired"} \X Users

ASSUME RemindersAssumption ==
    /\ IsFiniteSet(Users) /\ IsFiniteSet(Senders)
    /\ NoOne \notin Users \union Keys \union VipMessages
    /\ Expiry \in [Users -> Nat] /\ WarnBefore \in Nat /\ Cooldown \in Nat
    /\ LastHour \in Nat /\ MaxJobs \in Nat /\ MaxFailures \in Nat
    /\ WeekKey # NearKey
    /\ \A h \in Hours : StreakKey[h] \notin {WeekKey, NearKey}
    /\ Unsent \notin Nat

VARIABLES
    hour,
    begun,              \* users who have started the bot in private
    note,               \* note[u][k]: status of the engagement_notifications row
    lastSent,           \* lastSent[u]: last_retention_sent_at
    vipClaimed,         \* keys of vip_notifications
    stage,              \* stage[s]: where sender s stands
    weekly,             \* weekly[s]: s follows a weekly report
    startedAt,          \* startedAt[s]: the time s takes for now
    due,                \* due[s]: VIP messages s has still to send
    audience,           \* audience[s]: users s has still to look at
    item,               \* item[s]: the message s is sending, and to whom
    addressee,
    jobs, failures,     \* jobs started and failures so far (bounded)
    reminders,          \* history: when the jobs started that have sent u a reminder
    delivered,          \* history: how often a notification reached its user
    crowded,            \* history: claims made while another sender was sending to the user
    vipSent             \* history: how often a VIP message reached its user

senderVars == <<stage, weekly, startedAt, due, audience, item, addressee>>
reached == <<reminders, delivered, crowded, vipSent>>
remindersVars == <<hour, begun, note, lastSent, vipClaimed, senderVars, jobs, failures, reached>>

Stages == {"idle", "vip", "vipSending", "users", "sending", "settle", "release"}

RemindersTypeOK ==
    /\ hour \in Hours
    /\ begun \subseteq Users
    /\ note \in [Users -> [Keys -> {"none", "claimed", "sent"}]]
    /\ lastSent \in [Users -> Hours \union {Unsent}]
    /\ vipClaimed \subseteq VipMessages
    /\ stage \in [Senders -> Stages]
    /\ weekly \in [Senders -> BOOLEAN]
    /\ startedAt \in [Senders -> Hours]
    /\ due \in [Senders -> SUBSET VipMessages]
    /\ audience \in [Senders -> SUBSET Users]
    /\ item \in [Senders -> Keys \union VipMessages \union {NoOne}]
    /\ addressee \in [Senders -> Users \union {NoOne}]
    /\ jobs \in Nat /\ failures \in Nat
    /\ reminders \in [Users -> Seq(Hours)]
    /\ delivered \in [Users -> [Keys -> Nat]]
    /\ crowded \in [Users -> Nat]
    /\ vipSent \in [VipMessages -> Nat]
    /\ \A s \in Senders :
          /\ stage[s] \in {"sending", "settle", "release"} =>
                addressee[s] \in Users /\ item[s] \in Keys
          /\ stage[s] = "vipSending" => item[s] \in VipMessages

RemindersInit ==
    /\ hour = 0
    /\ begun = {}
    /\ note = [u \in Users |-> [k \in Keys |-> "none"]]
    /\ lastSent = [u \in Users |-> Unsent]
    /\ vipClaimed = {}
    /\ stage = [s \in Senders |-> "idle"]
    /\ weekly = [s \in Senders |-> FALSE]
    /\ startedAt = [s \in Senders |-> 0]
    /\ due = [s \in Senders |-> {}]
    /\ audience = [s \in Senders |-> {}]
    /\ item = [s \in Senders |-> NoOne]
    /\ addressee = [s \in Senders |-> NoOne]
    /\ jobs = 0 /\ failures = 0
    /\ reminders = [u \in Users |-> << >>]
    /\ delivered = [u \in Users |-> [k \in Keys |-> 0]]
    /\ crowded = [u \in Users |-> 0]
    /\ vipSent = [m \in VipMessages |-> 0]

Failure == failures < MaxFailures /\ failures' = failures + 1
KeepRows == UNCHANGED <<hour, begun, note, lastSent, vipClaimed, jobs>>

NextHour ==
    /\ hour < LastHour
    /\ hour' = hour + 1
    /\ UNCHANGED <<begun, note, lastSent, vipClaimed, senderVars, jobs, failures, reached>>

\* mark_private_started: /start, or the Mini App.
MarkPrivateStarted(u) ==
    /\ begun' = begun \union {u}
    /\ UNCHANGED <<hour, note, lastSent, vipClaimed, senderVars, jobs, failures, reached>>

\* The job is over, or its process dies, or an exception ends it.
Stop(s) ==
    /\ stage' = [stage EXCEPT ![s] = "idle"]
    /\ weekly' = [weekly EXCEPT ![s] = FALSE]
    /\ startedAt' = [startedAt EXCEPT ![s] = 0]
    /\ due' = [due EXCEPT ![s] = {}]
    /\ audience' = [audience EXCEPT ![s] = {}]
    /\ item' = [item EXCEPT ![s] = NoOne]
    /\ addressee' = [addressee EXCEPT ![s] = NoOne]

Complete(s) ==
    /\ stage[s] = "users" /\ audience[s] = {}
    /\ Stop(s) /\ KeepRows
    /\ UNCHANGED <<failures, reached>>

Fail(s) ==
    /\ stage[s] # "idle"
    /\ Failure
    /\ Stop(s) /\ KeepRows
    /\ UNCHANGED reached

-----------------------------------------------------------------------------
(* VIP messages. *)

Warned(h) == {u \in Users : h < Expiry[u] /\ Expiry[u] <= h + WarnBefore}
Expired(h) == {u \in Users : Expiry[u] <= h}

\* VipLifecycleService.send_due reads whom it has to write to.
StartLifecycle(s) ==
    /\ stage[s] = "idle"
    /\ jobs < MaxJobs /\ jobs' = jobs + 1
    /\ stage' = [stage EXCEPT ![s] = "vip"]
    /\ due' = [due EXCEPT ![s] = ({"warning"} \X Warned(hour)) \union ({"expired"} \X Expired(hour))]
    /\ UNCHANGED <<hour, begun, note, lastSent, vipClaimed, weekly, startedAt, audience, item,
                   addressee, failures, reached>>

\* Faulty: a notice is sent although it is claimed already.
SendVipTwice(s, m) ==
    /\ stage[s] = "vip" /\ m \in due[s]
    /\ m[1] = "expired" => \A w \in due[s] : w[1] = "expired"
    /\ due' = [due EXCEPT ![s] = @ \ {m}]
    /\ vipClaimed' = vipClaimed \union {m}
    /\ stage' = [stage EXCEPT ![s] = "vipSending"]
    /\ item' = [item EXCEPT ![s] = m]
    /\ UNCHANGED <<hour, begun, note, lastSent, weekly, startedAt, audience, addressee,
                   jobs, failures, reached>>

\* claim_notification of BillingRepository; warnings come first.
ClaimVip(s, m) ==
    /\ stage[s] = "vip" /\ m \in due[s]
    /\ m[1] = "expired" => \A w \in due[s] : w[1] = "expired"
    /\ due' = [due EXCEPT ![s] = @ \ {m}]
    /\ vipClaimed' = vipClaimed \union {m}
    /\ stage' = IF m \in vipClaimed THEN stage ELSE [stage EXCEPT ![s] = "vipSending"]
    /\ item' = IF m \in vipClaimed THEN item ELSE [item EXCEPT ![s] = m]
    /\ UNCHANGED <<hour, begun, note, lastSent, weekly, startedAt, audience, addressee,
                   jobs, failures, reached>>

\* A failure is not caught: it ends the job, reminders included.
SendVip(s) ==
    /\ stage[s] = "vipSending"
    /\ \/ /\ vipSent' = [vipSent EXCEPT ![item[s]] = @ + 1]
          /\ stage' = [stage EXCEPT ![s] = "vip"]
          /\ item' = [item EXCEPT ![s] = NoOne]
          /\ UNCHANGED <<weekly, startedAt, due, audience, addressee, failures>>
       \/ /\ \E n \in 0..1 : vipSent' = [vipSent EXCEPT ![item[s]] = @ + n]
          /\ Stop(s) /\ Failure
    /\ KeepRows
    /\ UNCHANGED <<reminders, delivered, crowded>>

-----------------------------------------------------------------------------
(* Reminders. *)

\* RetentionLifecycleService.send_due behind the VIP messages.
StartReminders(s) ==
    /\ stage[s] = "vip" /\ due[s] = {}
    /\ stage' = [stage EXCEPT ![s] = "users"]
    /\ startedAt' = [startedAt EXCEPT ![s] = hour]
    /\ audience' = [audience EXCEPT ![s] = begun]
    /\ KeepRows
    /\ UNCHANGED <<weekly, due, item, addressee, failures, reached>>

\* notify_weekly_report behind a report, to the members seen lately.
StartNotices(s) ==
    /\ stage[s] = "idle"
    /\ jobs < MaxJobs /\ jobs' = jobs + 1
    /\ stage' = [stage EXCEPT ![s] = "users"]
    /\ weekly' = [weekly EXCEPT ![s] = TRUE]
    /\ startedAt' = [startedAt EXCEPT ![s] = hour]
    /\ audience' = [audience EXCEPT ![s] = begun]
    /\ UNCHANGED <<hour, begun, note, lastSent, vipClaimed, due, item, addressee, failures, reached>>

\* A streak at risk goes before an achievement that is near; whether one is near is open.
Candidates(s) == IF weekly[s] THEN {WeekKey} ELSE {StreakKey[startedAt[s]], NearKey}

Cool(u, h) == lastSent[u] # Unsent => h >= lastSent[u] + Cooldown
\* Another sender is sending to u, or has still to note that it has.
BeingSent(u) == \E s \in Senders : addressee[s] = u /\ stage[s] \in {"sending", "settle"}

\* Faulty: a claim is made over an existing row.
ClaimOver(s, u, k) ==
    /\ stage[s] = "users" /\ u \in audience[s] /\ k \in Candidates(s)
    /\ Cool(u, startedAt[s])
    /\ note' = [note EXCEPT ![u][k] = "claimed"]
    /\ stage' = [stage EXCEPT ![s] = "sending"]
    /\ item' = [item EXCEPT ![s] = k]
    /\ addressee' = [addressee EXCEPT ![s] = u]
    /\ crowded' = IF BeingSent(u) THEN [crowded EXCEPT ![u] = @ + 1] ELSE crowded
    /\ UNCHANGED <<hour, begun, lastSent, vipClaimed, weekly, startedAt, due, audience,
                   jobs, failures, reminders, delivered, vipSent>>

\* claim_notification: a unique key, behind a cool-down that is read without a lock.
Claim(s, u, k) ==
    /\ stage[s] = "users" /\ u \in audience[s] /\ k \in Candidates(s)
    /\ Cool(u, startedAt[s])
    /\ note[u][k] = "none"
    /\ note' = [note EXCEPT ![u][k] = "claimed"]
    /\ stage' = [stage EXCEPT ![s] = "sending"]
    /\ item' = [item EXCEPT ![s] = k]
    /\ addressee' = [addressee EXCEPT ![s] = u]
    /\ crowded' = IF BeingSent(u) THEN [crowded EXCEPT ![u] = @ + 1] ELSE crowded
    /\ UNCHANGED <<hour, begun, lastSent, vipClaimed, weekly, startedAt, due, audience,
                   jobs, failures, reminders, delivered, vipSent>>

\* The claim is refused, or there is nothing to say to u.
PassOver(s, u) ==
    /\ stage[s] = "users" /\ u \in audience[s]
    /\ weekly[s] /\ Cool(u, startedAt[s]) => note[u][WeekKey] # "none"
    /\ audience' = [audience EXCEPT ![s] = @ \ {u}]
    /\ KeepRows
    /\ UNCHANGED <<stage, weekly, startedAt, due, item, addressee, failures, reached>>

SendReminder(s) ==
    /\ stage[s] = "sending"
    /\ \E n \in 0..1, next \in {"settle", "release"} :
          /\ next = "settle" => n = 1
          /\ IF next = "settle" THEN UNCHANGED failures ELSE Failure
          /\ delivered' = [delivered EXCEPT ![addressee[s]][item[s]] = @ + n]
          /\ reminders' = IF n = 0 THEN reminders
                          ELSE [reminders EXCEPT ![addressee[s]] = Append(@, startedAt[s])]
          /\ stage' = [stage EXCEPT ![s] = next]
    /\ KeepRows
    /\ UNCHANGED <<weekly, startedAt, due, audience, item, addressee, crowded, vipSent>>

NextUser(s) ==
    /\ stage' = [stage EXCEPT ![s] = "users"]
    /\ audience' = [audience EXCEPT ![s] = @ \ {addressee[s]}]
    /\ addressee' = [addressee EXCEPT ![s] = NoOne]
    /\ item' = [item EXCEPT ![s] = NoOne]
    /\ UNCHANGED <<hour, begun, vipClaimed, weekly, startedAt, due, jobs, failures, reached>>

\* Faulty: the row is settled without the time that starts the cool-down.
SettleStatus(s) ==
    /\ stage[s] = "settle"
    /\ note' = [note EXCEPT ![addressee[s]][item[s]] = "sent"]
    /\ UNCHANGED lastSent
    /\ NextUser(s)

\* mark_notification_sent, with the time at which the job started.
Settle(s) ==
    /\ stage[s] = "settle"
    /\ note' = [note EXCEPT ![addressee[s]][item[s]] = "sent"]
    /\ lastSent' = [lastSent EXCEPT ![addressee[s]] = startedAt[s]]
    /\ NextUser(s)

\* release_notification
ReleaseClaim(s) ==
    /\ stage[s] = "release"
    /\ note' = [note EXCEPT ![addressee[s]][item[s]] = "none"]
    /\ UNCHANGED lastSent
    /\ NextUser(s)

-----------------------------------------------------------------------------

SenderStep(s) ==
    \/ \E m \in VipMessages : ClaimVip(s, m)
    \/ SendVip(s) \/ StartReminders(s)
    \/ \E u \in Users, k \in Keys : Claim(s, u, k)
    \/ \E u \in Users : PassOver(s, u)
    \/ SendReminder(s) \/ Settle(s) \/ ReleaseClaim(s) \/ Complete(s)

RemindersNext ==
    \/ NextHour
    \/ \E u \in Users : MarkPrivateStarted(u)
    \/ \E s \in Senders : StartLifecycle(s) \/ StartNotices(s) \/ SenderStep(s) \/ Fail(s)

RemindersSpec == RemindersInit /\ [][RemindersNext]_remindersVars

-----------------------------------------------------------------------------

WithinCooldown(h, x) == h <= x /\ x < h + Cooldown

Reminded(u, h) == Cardinality({i \in DOMAIN reminders[u] : WithinCooldown(h, reminders[u][i])})

\* Jobs that start within one cool-down send a user one reminder between them, but for
\* those claimed while another sender was at work on the same user, before it noted what
\* it had sent (engagement.py:228), and for jobs that die and sendings that fail.  A row
\* that such a job leaves claimed excuses nothing.  The overlap alone breaks the limit of
\* one in 20 hours (2026-07-23-onboarding-retention.md:14).
RemindersSpaced == \A u \in Users, h \in Hours : Reminded(u, h) <= 1 + crowded[u] + failures

\* A notification reaches its user once, but for a sending that failed after it had
\* reached the user and was released (retention_lifecycle.py:76).
NotifiedOnce == \A u \in Users, k \in Keys : delivered[u][k] <= 1 + failures

\* A VIP message, claimed for good before it is sent, never reaches its user twice
\* (vip_lifecycle.py:63).
VipSentOnce == \A m \in VipMessages : vipSent[m] <= 1

\* Both kinds of message.
DeliveredOnce == NotifiedOnce /\ VipSentOnce

===============================================================================
