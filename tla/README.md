# Verification of ChatPulse

ChatPulse is a Telegram bot with a Mini App: it counts what the members of a
group do, gives them XP, levels, streaks and achievements, sends weekly reports
and private reminders, and sells VIP for Telegram Stars.  The backend is one
asyncio application (FastAPI and aiogram over async SQLAlchemy on PostgreSQL,
with an optional Redis) that runs on more than one instance.  This directory
holds TLA+ models of the parts of the backend whose correctness depends on the
order of events, the TLC runs over them and the TLAPS proofs about them.

Paths are relative to the repository unless they name a file of this directory.

## 1. Inventory

### 1.1 Components

| Component | State it keeps | Operations | Talks to |
|---|---|---|---|
| **Update delivery** `app/repositories/update_delivery.py`, `app/operations/webhook_runtime.py`, `telegram_webhook` in `app/main.py` | `processed_updates`: status, attempts, lease, completed_at; a semaphore per instance | `begin_update`, `complete_update`, `fail_update`, `handle_slot` | Telegram (HTTP), the dispatcher, PostgreSQL |
| **Activity and XP writes** `app/services/activity_writes.py`, `app/repositories/activity/writes.py`, `app/repositories/gamification.py` | `users`, `group_members`, `daily_activity`, `global_daily_xp`, `message_authors`, reaction rows | `record_message`, `record_reaction`, `record_reaction_count`, `_lock_xp_context`, `_apply_xp` | update delivery (redelivery), achievements, streaks |
| **Streaks** `_advance_streak`, `_consume_protections` | current and longest streak, last streak date, used protections per month | run inside `_apply_xp` when a day crosses 10 XP | entitlements (VIP limit) |
| **Achievements** `app/repositories/achievements.py`, `app/achievements/`, `gamification_v2.py` | unlocks, progress, featured list | `record_events`, `evaluate_weekly_achievements`, backfill, featuring | XP writes, weekly reports |
| **User control** `app/repositories/user_control/`, `app/repositories/owner.py`, `app/services/admin_access.py`, `app/api/owner/users.py` | the owner, restrictions, notes, tags, staff, message deliveries, blocked accesses, audit | `claim_owner`, `block_user`, `unblock_user`, `set_role`, `remove_role`, notes, tags, messages, `adjust_xp`, bulk requests | XP rows, Mini App |
| **Billing** `app/repositories/billing.py`, `app/bot/routers/payments.py`, `app/api/billing/routes.py` | invoice intents, payments, trial claims, VIP grant | invoice, checkout, `record_payment`, `mark_refunded`, subscription cancel | Telegram Stars |
| **Owner revenue and refunds** `app/services/owner_payments.py`, `app/repositories/owner_revenue.py` | payment status, VIP grant | `refund_eligibility`, `refund`, `apply_refund` | Telegram Stars, billing |
| **Administrator VIP** `app/services/admin_vip.py`, `app/repositories/owner_panel.py` | VIP grant | `grant`, `revoke` | billing |
| **VIP lifecycle, retention** `app/services/vip_lifecycle.py`, `app/services/retention_lifecycle.py`, `app/repositories/engagement.py` | notification claims, cool-down of a profile | `send_due`, `_deliver`, `claim_notification`, `mark_notification_sent`, `release_notification` | Telegram, scheduler |
| **Weekly reports and scheduler** `app/services/weekly_reports.py`, scheduler endpoints of `app/main.py` | `last_weekly_report_at` | `send_due_weekly_reports`, `send_weekly_report` | leases, Telegram, achievements, retention |
| **Leases** `app/operations/leases.py` | one Redis key per job, a token and a renewal task per handle | `acquire`, `renew`, `_keep_alive`, `release` | Redis, scheduler |
| **Telegram access cache** `app/services/telegram_access_cache.py`, `telegram_access.py` | entries with freshness, loads in flight | `get_or_load`, `invalidate` | Telegram, Mini App |
| **Group status and settings** `app/services/group_status_sync.py`, `group_settings.py` | bot status, activity flag, settings | `upsert_group_from_message`, `reconcile_group_bot_status`, `upsert_group`; the settings menu of the bot, `update_settings`, `update_group`, `set_paused`, `update_report_theme` | Telegram, reports |
| **In-process locks** `app/services/keyed_lock.py` | one `asyncio.Lock` and a reference count per key | `hold` | XP writes |
| **Rate limiter** `app/operations/rate_limits.py` | token buckets in Redis | `check` | API |
| **Process** `lifespan` and `/ready` of `app/main.py`, `app/operations/redis_runtime.py`, `app/database.py` | the client of Redis, the engine, the session of the bot, `initialized` | start, shutdown, readiness | Redis, PostgreSQL, Telegram |
| Analytics, exports, cards, presentation, observability, owner and Mini App read endpoints, front end (`miniapp/`) | none of their own | reads and rendering | repositories |

### 1.2 How they interact

Telegram posts an update to an instance; the instance waits for a semaphore
slot, claims the update in the database, feeds the dispatcher and writes the
outcome.  A group message or a reaction runs one database transaction through
`ActivityWriteService`, which locks the XP rows it changes; behind the commit the
handler may still talk to Telegram, and a failure there makes the whole update
fail and come back.  The rewards of a weekly report and the XP adjustments of an
administrator write the same XP rows from elsewhere.  Payments arrive as updates
too.  Scheduler jobs are HTTP requests of an external cron, kept apart by a Redis
lease.

### 1.3 What is hard

* **Redelivery.** Telegram repeats an update until it reads a 200, also when the
  first request is still running, and requests die with their instance.  The claim,
  its five-minute lease and the outcome are three transactions, and neither
  `complete_update` nor `fail_update` compares the claim it was started for.
* **Concurrent writers of the same rows.** Two of the four writers of XP lock before
  they read, two read first.  The ORM session writes absolute values, so an unlocked
  read is a lost update.
* **Lock order.** The design fixes one order; the statements that run before
  `_lock_xp_context` take locks of their own.
* **Effects outside the database** (a sent report, a refund, a reminder) stand between
  two transactions, and a crash can fall on either side.
* **Leases** that are lost while the job runs on, and a lease of a week in UTC against a
  report day in the time of the group.
* **Rows written from what was read without a lock.**  SQLAlchemy writes the attributes
  that differ from those it read, on the row as it is by then: settings, the status of a
  group, restrictions, staff and selections are all changed this way.
* **Order of messages.**  Streaks, the cool-down and the recognition of copies compare a
  message with those before it, and a redelivered message comes late.
* **Work shared between callers** (a load of the cache, a keyed lock) whose owner is
  cancelled.

`hazards` in `PROJECT.json` lists each of these at its line.

### 1.4 What makes each component correct

Update delivery: every update runs to the end, once unless a lease lapses; a 200 is given
only for a finished run; nothing keeps an update for ever.  XP writes: daily caps, one
award per message, no lost increment, no deadlock; copies and messages within the
cool-down earn nothing; the level is that of the total, which an overlap may break until
the next award (§4).  Streaks: no longer than the days that earned them, each gap paid by a
protection of its month.  Achievements: one reward and one celebration per unlock; a pinned
selection is one that somebody made.  Billing: one grant per charge, one trial per user,
purchases add up, a refund given once and always recorded (the last is not kept,
§4).  Notifications: one per key, spaced by the cool-down but where two senders
overlap.  Weekly reports: one per group and due day, and its rewards with it.  Leases: one
holder, and nobody takes another's token.  Cache: no answer older than its time to live,
and a load that ends leaves its key free; neither holds once the caller that started a
load is cancelled (§4, §6).  Group status: the rights Telegram last reported, but for
handlers that were overtaken.  Settings: what was asked, and nothing else.  User control:
what a user may do is what the log says, where requests commit in the order of their
times, and the owner is out of reach.  Rate limiter: the rate, and the promise of when to
come again.  Keyed locks: one holder per key.  Process: ready only with what it needs, and
nothing left open.

## 2. Modules

| Module | What it is |
|---|---|
| `AtLeastOnce` | abstract: what the webhook promises about an update |
| `UpdateDelivery` | the webhook and the `processed_updates` table; implements `AtLeastOnce` |
| `MCUpdateDelivery` | its instance for TLC: two instances, three requests |
| `UpdateDeliveryProofs` | its theorems |
| `XpTransactions` | the transactions that write XP, with PostgreSQL's row locks |
| `MCXpTransactions` | its jobs for TLC |
| `XpTransactionsProofs` | its theorems |
| `Settlement` | abstract: what billing promises about the Stars it takes |
| `Billing` | invoices, checkout, payment updates, refunds, subscriptions, gifts of VIP; implements `Settlement` |
| `MCBilling` | its instances for TLC |
| `BillingProofs` | its theorems |
| `SchedulerLease` | the lease in Redis of a scheduled job |
| `WeeklyReports` | the weekly reports under that lease; extends and implements `SchedulerLease` |
| `WeeklyReportsProofs` | theorems about both |
| `AccessCache` | the cache of memberships, with its shared loads |
| `RateLimiter` | the token bucket in Redis |
| `KeyedLock` | the keyed locks of a process |
| `ServiceLifespan` | start, readiness and shutdown of a process |
| `MCOperations` | the modules from `SchedulerLease` on, as five parts of one run |
| `OperationsProofs` | theorems about `RateLimiter`, `KeyedLock`, `AccessCache`, `ServiceLifespan` and the run that composes them with `WeeklyReports` |
| `MessageRules` | what a message earns, redelivered or late, and levels |
| `Streaks` | streaks, their protections and the resets of a group |
| `EarningsProofs` | theorems about `MessageRules` and `Streaks` |
| `Achievements`, `AchievementsProofs` | unlocks by messages, reports and the backfill; their theorems |
| `FeaturedAchievements` | the achievements a user pins |
| `GroupStatus` | the status of the bot in a group |
| `GroupSettings` | the settings of a group |
| `UserControl` | what administrators do to a user, and the log |
| `StaffActions` | who may do it, and to whom; messages of administrators |
| `Reminders` | VIP messages and reminders in private |
| `WrittenRows` | what a commit writes of a row that was read without a lock |
| `MCMembers` | the modules from `MessageRules` on, as nine parts of one run |
| `MembersProofs` | theorems about `UserControl`, `GroupStatus`, `Reminders`, `FeaturedAchievements`, `StaffActions`, `GroupSettings` and the run that composes all nine |

Definitions whose comment begins with "Faulty:" are deliberate mistakes.  No
specification uses them; each stands for a plausible bug, and putting it in the place
of the definition it varies must break the property named in `PROJECT.json`.

### 2.1 UpdateDelivery

A *worker* is one HTTP request in service.  `pc` is where it stands:

| `pc` | Code |
|---|---|
| `idle` | no request |
| `queued` | waits in `handle_slot` for the semaphore |
| `claim` | in `begin_update`, before `SELECT ... FOR UPDATE` |
| `insert` | found no row, before the INSERT commits |
| `feed` | in `dispatcher.feed_update` |
| `complete`, `fail` | before `complete_update` or `fail_update` commits |
| `ok`, `error` | has left the slot with a 200, or with a 500 or 503 |

`row` is the table.  `SELECT ... FOR UPDATE` locks nothing where there is no row,
so `SeeNoRow` and `InsertRow` are separate steps and the second INSERT of a race is
refused by the primary key; a row that exists is read and written in one step
(`TakeOver`, `RefuseClaim`) because its lock is held between.  Time is the lapse of
a lease.  `successes` and `lapses` are history: finished handler runs and lapsed
leases.  Faults are a lost connection, a failing handler, a database error and the
death of an instance with all its requests; `MaxFaults` bounds their number, nothing
else is bounded except by the sets of the instance.

Telegram is external and modelled from what the code asks of it: at most
`max_connections` connections (`app/main.py:217`), an update is not sent on two
connections at once, and it is repeated until a 200 is read.

Left out: a body that is refused with 400 or 413 and an update without an integer
`update_id` (neither touches the table), and the type, the time stamps and the error
text of a row.

### 2.2 XpTransactions

Each member of `Txns` is one transaction with a `Job`: a message, a reaction, the
rewards of a weekly report or an adjustment by an administrator.  `Statements[t]` is
the sequence of row locks its SQL takes, including the ones nobody asks for in the
code: the UPDATE of the user and the member before `_lock_xp_context`, and the
KEY SHARE lock that an INSERT puts on the rows its foreign keys name.  `Begin` does
the reads that precede any lock, `Lock` takes the next lock when no other transaction
holds a conflicting one, `ReadLocked` reads the rows under the locks, and `Commit...`
writes the database in one step, which is what READ COMMITTED shows the others.
A message or reaction whose transaction fails starts over (its update is delivered
again); `DeliveredAgain` is the handler that fails behind the commit, as when Telegram
refuses the announcement of `app/bot/routers/groups.py:377`.

`due` is the ledger: what the totals are if no increment is lost.  `payments` counts
how often a message was given XP.

That a message or a reaction reads the locked rows as committed depends on the ORM:
`with_for_update()` does not refresh an object that is already in the session.  The
rows read by `record_message_in_session` are flushed and no longer referenced when
`_lock_xp_context` selects them again, so SQLAlchemy's weak identity map builds them
anew.  `evaluate_weekly_achievements` keeps its rows in a list and `adjust_xp` reads
without a lock; both compute with what they read first.

A message asks for some amount in `Requests`; cooldown, duplicates, burst and the base XP
only choose that amount (they are in `MessageRules`).  An award may unlock one achievement
that pays `Reward` to both totals outside the caps.  Left out here: levels
(`MessageRules`), streaks (`Streaks`), which achievement (`Achievements`), message
counters, the early returns for paused groups, and the daily rows as lockable rows, since
a transaction locks them behind the member and user rows it already holds.  The in-process
`KeyedAsyncLock` is left out because it protects nothing across instances; leaving it out
only adds interleavings.

### 2.3 Billing

The payments of one user.  A *worker* runs `vip_successful_payment` for a payment
update, a *desk* is an HTTP request: of the owner (refund, subscription), of an
administrator (VIP given or revoked) or of the user (subscription).

| `pc` | Code |
|---|---|
| `check` | in `record_payment`, before the check for a duplicate |
| `insert` | before the INSERT of the payment is flushed |
| `claim` | before the INSERT of the trial claim |
| `read`, `commit` | before `_grant_paid_vip` reads the grant; before the transaction commits |
| `return`, `mark`, `answer` | before `refund_star_payment`, before `mark_refunded`, before `message.answer` |
| `refund`, `recheck`, `look`, `apply` | `OwnerPaymentService.refund`: before the call of Telegram, before `apply_refund` checks again, before it reads, before it commits |
| `give`, `revoke` | `AdminVipService` with the grant read |
| `cancel`, `restore`, `set canceled`, `set open` | a subscription request, before the call of Telegram and before `set_subscription_canceled` |

Nothing in these transactions asks for a lock.  What keeps them apart are keys: a
second INSERT of a charge id or of a trial claim waits for the transaction that made the
first (`Inserted`, `Claiming`) and then fails or not with it.  The grant is read in one
step and written in another, and the ORM then writes only the columns that differ from
what it read (`Overwrite`), so that two payments that overlap really do lose days here.
The invoice intent is treated likewise (`ReadIntent`).  `ReadRefund` merges the reads of
the previous payment and of the grant, which follow each other in `apply_refund`.

Telegram is external: it takes Stars for an approved checkout (`stage`), repeats the
update until the handler ends without an error, renews a subscription when its period is
over (`period`, `renewing`) and gives the Stars of a charge back once (`returned`).  An
update is kept for a day, so `Tick` lets no monthly payment wait out its own period
(`vip_grants` has the CHECK `expires_at > starts_at`).  `clock` numbers the readings of
the clock within a day, because `refund_eligibility` orders payments by `paid_at`.
`granted` and `gifted` are history: how often a charge was answered with VIP time, and the
end of the last gift that was not revoked.

Left out: audit entries, notes and notices; amounts, currencies, user ids and recurring
flags, which agree because Telegram sends back what the invoice said; `starts_at` and the
reason columns; the 60 seconds within which two expiries count as the same; the owner
panel's own grant and revoke, which write the same columns.

### 2.4 SchedulerLease and WeeklyReports

A *call* is an HTTP request of the external cron.  `key[l]` is the token in Redis,
`lease[p]` the lease under which call `p` runs, `acquired[p]` the flag of its handle.
`Acquire` is SET NX PX; both scripts compare the token, so `Release` removes the key only
if the token is still there; `AcquireUnanswered` leaves a token behind whose call gave up.
A renewal that succeeds changes nothing the model tells apart; one that fails
(`RenewFails`) clears the flag and the job goes on, as line 68 of `leases.py` does.
`lapses` counts leases that expired under a call at work.

`WeeklyReports` adds the job: `StartWeekly` (or `StartNow`, the report an administrator
asks for, under no lease), then for each due group `SendReport`, `Mark`, `Reward`, and
`Leave`.  A sending may fail with or without having reached the group, and a photo that
fails, reached or not, is followed by the text, so that both may reach it: `SendReport`
adds the reports sent and the sendings that failed, and each failure is one of the faults
that `ReportBudget` allows a report for.  `Mark` may fail, the rewards may fail and are
then swallowed, a call may die.  `Due` is the condition of `list_weekly_report_groups`.  The
lease is named after the ISO week in UTC and the report is due on a day of the group
(`app/main.py:107`), so that a due day may see two leases; the instance has just
that.  `WeeklyReports` extends `SchedulerLease` and takes each of its steps on leases
through that module's actions: every behaviour of it is one of the lease, which is a
theorem.

### 2.5 AccessCache

`get_or_load`: `Hit`, `Miss` (which joins or starts the load of the key), `Load` (the task
ends, with a value or an error), and one step of the caller that awaited it: `Store` with
`Evict`, `FallBack` to a stale entry, or `Raise`.  `Cancel` cancels a caller: if it awaits
a task, the task too.  A cancelled creator of a load leaves its task in flight, as the code
does (only that caller takes it out, `telegram_access_cache.py:92` and :115): whoever
misses later joins a task that has ended. `AnswersCurrent` and `InflightEnds` except that
(§4).  `Invalidate` removes an entry and not a load.  Time passes only while no caller is
ready to go on, which is what an event loop does.  `invalidate_user`, `invalidate_group`
and `clear` remove all of their keys at once; here they remove one after another, which
allows more.

### 2.6 RateLimiter, KeyedLock and ServiceLifespan

`RateLimiter` is the Lua script with its integer arithmetic replaced by units (`TokenUnit`
units are a token), the expiry of the key, and what the API does when Redis fails before or
after the script.  `Watch` starts the window of `RateBound` at any moment.

`KeyedLock` separates waking from running: a lock that is released stays free, with its
waiter in the queue, until that task runs (`Resume`).  A waiter may be cancelled.

`ServiceLifespan` has one action for each await of `lifespan`, each of which may fail, the
configurations that `config.py` admits, dependencies that come and go, and `/ready` as a
request of several steps against them.

### 2.7 MessageRules

The messages of one user on one day.  `Content` is what `classify_message` and
`content_fingerprints` find in a message: text, medium, reply, print and hash.  `Track`
processes a message, the first time or again, in any order; `RequestedXp` and `Granted`
are the rules of `award_message_xp_in_session` one by one (cool-down, copies in the burst
window, base, burst multiplier, cap), `LevelForXp` corrects a guess as the code corrects a
square root.  An award locks the row of the group until it commits and is one step.  Each of
the writers that lock nothing takes two steps: `ReadAdjusted` (`adjust_xp`, with its other
formula for the level) or `ReadRewarded` (the rewards of a weekly report) reads total and
level, and `ChangeTotal` commits the attributes that differ from what was read
(`Written`), over any award in between; `DropChange` is the one that does not commit.  So
an adjustment may leave total and level apart if it had read another level than the row
has by then: `levelMissed` says that the last one had, and `XpIsEarned` has the level fit
otherwise (§4).  Locks, deadlocks and lost increments of the totals are in
`XpTransactions`, which has no levels.

### 2.8 Streaks

One member of one group.  `Enter` begins a message of some date, `Advance`
(`_advance_streak`) and `Consume` (`_consume_protections`) compute what it writes, `Commit`
writes it.  `AwardWaits` is a message that waits for the rows a reset has deleted.  The
resets delete the days, the protections and the member, in one transaction (`ApiReset`) or
in the two of the bot (`BotReset`), and may break off.  What an award is worth is one XP;
thresholds, caps, months and limits are parameters.  `counted` is history, the days the
streak is made of, and `torn` says that a reset of the bot broke off between its
transactions.  `GapsArePaid` looks at the days between those counted, month by month: there
are no more of them than protections used in that month.

### 2.9 Achievements and FeaturedAchievements

A transaction has a set of identities (group or global, code) to unlock (`todo`), and
takes the one that comes first in the order of its events (`Upcoming`, `Order`); the
backfill goes from group to group in the order of their ids (`Chats`).  `Record` is the
insert in a savepoint: it waits while another open transaction has inserted the same
identity (`InsertWaits`), and passes the identity over if one that has committed
did.  `CommitUnlocks` pays what was inserted and makes the events of the Mini App
(`NewEvents`), one summary for the backfill.  `ImportNext` is the import of legacy unlocks,
`ResetGroup` the reset of a group, `MarkSeen` what the Mini App sends back.  Which codes a
metric satisfies is left open.

A selection of `FeaturedAchievements` is checked, deletes the rows its snapshot shows
(`StartDelete` and `EndDelete` with the rows in between that others insert), inserts its
own and commits; two that insert the same slot or the same item collide.

### 2.10 GroupStatus and GroupSettings

`GroupStatus`: handlers look the row up in one transaction (`Lookup`), read it in another
(`ReadGroup`) and write what differs (`WriteGroup`).  Messages, membership updates and
answers of getChatMember come in any order.  `authority` is the last status that Telegram
reported.  `overtaken` holds the handlers that had read the row before it changed (`Informed`:
the status that a message wants to keep, or the row itself), and `doubtful` says that one of
them has written since.  Handlers that have read nothing yet are not excused.

`GroupSettings`: each request gets the row, sets attributes and commits those that differ.
`Patch`, `UpdateGroup`, `SetPaused`, `UpdateReportTheme` and `SetReportTime` carry values;
`Press` (the menu of the bot) computes them from settings it has read before
(`ReadExtras`), as a toggle, the next of a list, or a shift of the clock.  `expected` is
the value an attribute has if requests had come one after another, `outrun` the attributes
on which one overlapped another.

### 2.11 UserControl, StaffActions and WrittenRows

`UserControl` is one user and his rows.  A request takes its time (`Stamp`; `utc_now()` in
the code), opens its transaction and reads the row it is about (`Read`), and commits its
change with its entry of the log (`CommitRequest`); in between others do.  The log is what
`owner_audit` shows, by time: `AddEntry` puts an entry before those of a later time, also
when it is committed behind them.  `written` is history, the time of the entry committed
last, and `InOrder` says that it is the one shown last; `stale` says that the last commit
on the role had read another `is_active`.  `AuditExplainsAccess` excepts just these two
(§4).  `Written` of `WrittenRows` is SQLAlchemy's UPDATE: the attributes that differ from
those read.

`StaffActions` is who may do it.  A request is admitted (`Admit`, refused to a blocked user
with `TurnAway` and `RecordAttempt`), its role is resolved (`Resolve`), and for each target
it checks the permission and the target (`Check`, `MutableTarget`), then operates or sends
a message in two transactions (`Send`, `Finished`).  `ReadClaim` and `InsertClaim` are the
claim of the ownership, which overlaps with all of it.

### 2.12 Reminders

A sender is the hourly life cycle or what follows a weekly report; any of them may run at
once.  VIP messages are claimed for good before they are sent (`ClaimVip`, `SendVip`);
reminders are claimed (`Claim`), sent, and settled (`Settle`) or released (`ReleaseClaim`)
if the sending fails.  A sender may die at any step.  `crowded` counts claims made while
another sender was sending to the same user or had still to note that it had (`BeingSent`),
which the cool-down does not see.  A sender that died is not at work: the row it left claimed
excuses nothing.  `reminders[u]` is the history of the times that the senders took for now, of
the reminders that reached `u`.

## 3. Runs

| Run | Instance | Shows |
|---|---|---|
| `update_delivery` | 2 updates, 3 requests on 2 instances, 1 slot each, 1 connection, 2 faults; fair | types, execution budget, no lost update, completed rows, refinement of `AtLeastOnce`, every update acknowledged |
| `update_delivery_reexecution` | the same with 3 faults | README.md:186 is not what the code does once a lease lapses |
| `xp_transactions` | 5 transactions on one user in two groups with different local dates | caps, one award per message, no lost increment between locking writers, awards move totals by what they award |
| `xp_lost_increment` | a message and a weekly report | an award is lost |
| `xp_lock_order` | two messages of one group | a deadlock |
| `billing_trials` | two trial invoices and their charges, 2 workers, 1 desk, 1 request, 1 fault, one day; fair | types, one answer per charge, refinement of `Settlement` (one trial among the rest), every charge settled |
| `billing_renewals` | a subscription and its renewal, 2 workers, 1 desk, 1 request, 1 fault, two days | refunds recorded are refunds made |
| `billing_refund_recorded` | two one-time plans, 1 worker, 2 desks, 2 requests | a refund that the database never learns of |
| `billing_purchases_stack` | a subscription and two one-time plans, 2 workers, no requests | two purchases that overlap add the days of one |
| `billing_refund_keeps_gift` | one one-time plan, 1 worker, 1 desk, 2 requests | a refund that takes a gift away |
| `operations` | the five parts of `MCOperations`; fair | one run of a job per lease but for lapses, nobody releases another's lease, a report once per lapse, fault or lease, rewards with the mark, a due report arrives; current answers of the cache, loads that end; the rate and the promise of the limiter; one holder of a keyed lock; a clean life of a process |
| `members` | the nine parts of `MCMembers` | XP, streaks and their gaps, unlocks, selections, rights, the log, the owner, settings, and messages in private |

**Why the bounds suffice.**  For delivery: two requests on one instance compete for its
slot and a third one on another instance for the row; one connection lost lets the next
delivery of the same update run beside the first; two faults allow a lost connection
with a crash or a failing handler on top; a second update shows that updates do not keep
each other from being acknowledged.  Re-execution of a completed update needs three
faults, and so has its own run.  The proofs lift every bound for the safety properties.
For XP: a cap of 3 with awards of 2 and 3 is reached by the second award, the global
cap of 4 lies between one and two group caps, the second group has a local date of its
own while the UTC date is common, and each of the four kinds of writers is there.
For billing: every race is between two transactions, so two workers, or a worker and a
desk, are what it takes, and two charges are needed for two trials or for a subscription
and its renewal.  One fault puts a failure behind any single step, after which the update
comes back.  Days are few because only their order matters: a subscription lasts one,
what is paid once or given lasts two.  `billing_trials` stays within one day and covers
the trial claim and the refund by the bot; `billing_renewals` has the passing of a day,
the subscription requests and the renewal.

For `operations` and `members`: the parts share no state, so that the run is their sum:
each behaviour is one of one part, chosen at the start, and the others stay where they
began. Leases and reports have two calls, two weeks, a due day that spans both, one lapse
and one fault: what it takes for a report to be sent twice in each of the ways.  The cache
has room for one of its two keys, so that every store may evict, and lifetimes of one and
zero with a grace of one in four instants, so that an entry may be fresh, stale and
gone.  The limiter's tokens are three units and its refill two, so that fractions are left;
seven ticks let a bucket expire and a burst be spent twice.  Three tasks on one key let a
lock be woken, forgotten and asked for again.  A process sees three changes of its
dependencies: one may fail, return, and fail again. Streaks run over four days in two
months, so that the gap between the first and the last needs protections of both; one
reset, one transaction that aborts.  Unlocks have two transactions at once and three in
all, in two chats, with a level (live and global), a rank and a weekly code.  Selections
are three of up to two items.  Two handlers overlap in five writes on a status, two
requests at once on a user and three in all, with two tags of which one fits.  Reminders
have two senders, one user, three jobs over three hours with a cool-down of two, one
failure.  Staff have the owner and one other person, two requests at once and four in all,
claims included.  Settings have two requests at once and three in all.  Messages are five,
with copies among them, whose dates lie within and outside the cool-down (2) and the burst
window (3), two redeliveries and two adjustments or rewards, one at a time beside any
number of awards; the steps of the burst (1, 2, 3) and the cap of 8 are reached.  The runs
have 510,692 and 2,150,517 distinct states; that of `update_delivery` 93,762, of
`xp_transactions` 930,638, of `billing_trials` 187,133, of `billing_renewals` 58,395.

**Deadlock checking** is off in all runs: deliveries end when every update is acknowledged
and transactions end when all are done; parts of `operations` and `members` end at their
bounds.

**Fairness** in `update_delivery`.  Strong fairness of the delivery of each update:
Telegram keeps repeating what it has not read a 200 for, even if other updates take the
connection in between.  Strong fairness of `EnterSlot`: `asyncio.Semaphore` wakes waiters
in order.  Weak fairness of the steps of a request: the event loop runs what can run, and
handlers end.  Weak fairness of the lapse of a lease: the clock advances.  Faults are not
fair.  Nothing is assumed of `StorageError`, `Crash` and `ConnectionLost` except that they
are finitely many, without which no update need ever arrive.

In `billing_trials`: weak fairness of a handler's steps, and strong fairness of the delivery
of each charge, since Telegram repeats the update of a handler that failed even if the
workers are busy with others in between.  What that delivery rests on is what
`UpdateDelivery` shows.  Nothing is assumed of users, owners and administrators.

In `operations`: weak fairness of the steps of a job under way and of the end of a token in
Redis, strong fairness of the start of some weekly job (the cron calls again and again, and
what it needs may be taken in between), weak fairness of a load (Telegram answers or the
call times out) and of a caller that can go on.  Nothing is assumed of time, of faults, of
cancellation, nor of the switch of reports.  `DueReportArrives` so says that a report that
stays due is sent; a day that ends first ends the duty.

`members` states no liveness: a reminder or a VIP message may never arrive (it is claimed
before it is sent), and no document promises that it does.

`XpTransactions` is checked without fairness.  That every message is recorded in the end
needs PostgreSQL's queue of lock waiters, which the model does not have.

## 4. Findings

1. `update_delivery_reexecution`: README.md:186 says a completed update that is delivered
   again is not executed a second time.  `fail_update` does not check that it still owns
   the row, so a run that outlives its lease and then fails turns the completed row of the
   run that took over into a failed one, which the next delivery executes again.
2. `xp_lost_increment`: the architecture design
   (`docs/superpowers/specs/2026-07-26-chatpulse-architecture-2-0-design.md:118`) says
   parallel awards do not lose increments.  The rewards of a weekly report are computed from
   rows read before any lock, and overwrite an award that commits in between.
3. `xp_lock_order`: the same design (line 99) locks rows in one order.  The locks taken
   before `_lock_xp_context` (a user or member UPDATE, KEY SHARE on the group) come in
   another order, and two messages of one group can each hold KEY SHARE on the group
   that the other wants FOR UPDATE.  PostgreSQL breaks the deadlock; the update is
   delivered again.
4. `billing_refund_recorded`: the owner-revenue design
   (`docs/superpowers/specs/2026-07-23-owner-revenue-design.md:212`) marks the payment
   `refunded` when Telegram has refunded it.  `apply_refund` checks eligibility again, and
   a gift or a purchase in between makes it raise; the branch for that calls
   `mark_refund_required`, which `BillingRepository` does not define.  The payment stays
   `paid`, and asking again fails at Telegram.
5. `billing_purchases_stack`: the billing design
   (`docs/superpowers/specs/2026-07-23-vip-stars-billing-design.md:38`) adds a purchase to
   the current expiry.  `_grant_paid_vip` reads the grant without a lock; of two purchases
   that overlap while VIP runs, the later write drops the days of the other.  (Without a
   grant row both would insert it and the second fails, to be delivered again.)
6. `billing_refund_keeps_gift`: the same design (line 218) never lets a refund shorten a
   gift.  The grant row remembers one source only: a purchase on top of a gift clears
   `granted_by_owner_id`, and its refund then ends the whole grant.

Further sentences of the documents do not hold of the code either; these have no run of
their own.  But for the tags and the last, each is an exception that a property of a
passing run names: TLC finds the property violated if that exception is taken out of it.

* Architecture design, line 119: levels match final XP totals.  `adjust_xp` reads without a
  lock (`app/repositories/user_control/xp.py:33`), and its UPDATE names only what differs from
  the values it has read: with 90 XP at level 1, and an award to 102 and level 2 in between,
  an adjustment of 5 leaves 95 XP at level 2.  The rewards of a weekly report do the same
  (`gamification_v2.py:92`).  `XpIsEarned` excepts it (`levelMissed`).
* `group_status_sync.py:22`: a message refreshes a group "without downgrading known
  administrator privileges".  The status to keep is read in one session and written in another
  (39); a promotion that commits in between is overwritten with "member".  `PrivilegeKept`
  excepts a handler that has read what then changed (`doubtful`).
* Onboarding-retention plan (`docs/superpowers/plans/2026-07-23-onboarding-retention.md:14`):
  no more than one retention notification per user in 20 hours.  The life cycle and a weekly
  report claim under different keys and run under different leases, and the time of the last
  one is written only behind its sending (`retention_lifecycle.py:78`): where they overlap
  both write, with nothing failing.  `RemindersSpaced` counts such claims (`crowded`), and no
  others; what failed is counted apart.
* Owner-user-control design
  (`docs/superpowers/specs/2026-07-24-owner-user-control-design.md:123`): `OwnerAuditLog` is the
  canonical history.  Its entries are ordered by a time taken before the transaction opens
  (`base.py:103`; `restrictions.py:71`, `staff.py:14`, `notes_tags.py:49`): of two requests that
  overlap, the one that commits last may be shown first, and the log of a blocked user ends
  with "user.unblocked".  `AuditExplainsAccess` excepts it (`InOrder`).
* `staff.py:42` answers to `set_role` that the user is active.  An `is_active` that it has read
  as true is not written, and a `remove_role` that commits in between stays in force, with
  `role_set` last in the log.  `AuditExplainsAccess` excepts it (`stale`).
* The same design, line 93: at most 10 tags.  `add_tag` counts the rows of its own snapshot and
  locks nothing (`notes_tags.py:52`): two that overlap each find one place left.  `UserControl`
  has it, and no property speaks of the number of tags.
* Architecture design, line 72: a positive status is kept for 60 seconds.  Only the creator of a
  load takes it out of `_inflight` (`telegram_access_cache.py:115`).  If it is cancelled when
  the load has ended and it waits for the lock, the finished task stays: every later caller
  that misses joins it and stores its value, of whatever age, as fresh.  `AnswersCurrent` is
  about the time before anybody is cancelled.
* Billing design, line 61: duplicate trial charges are recorded as refunded and refunded.  A
  handler that fails between the refund (`payments.py:50`) and `mark_refunded` (54) comes back,
  asks Telegram for the refund again, and is refused every time: the Stars are given back, and
  the payment stays `refund_required` for good.  `ChargesSettled` holds of it, for the Stars
  are settled, and no property asks for the record.

## 5. Proofs

Checked by `tlapm` from nothing; the assumptions are the named `ASSUME`s on the
constants of each module, which TLC evaluates in the runs.

**UpdateDeliveryProofs**, for any finite set of workers and any number of updates,
instances, slots, connections and faults.  `ExecutionBudget` says that finished runs,
runs that could still finish and the run the row would allow next never exceed one plus
the lapsed leases.  `NoLostUpdate` needs more: that a completed row, a set `completed_at`
and a worker about to complete or to answer 200 all stand behind a finished run
(`RunsRecorded`).  `IInv == TypeOK /\ ExecutionBudget /\ RunsRecorded /\ NoLostUpdate` is
inductive.  `CompletedUnlessLapsed` follows: a completed update has a finished run, so with
no lapse the budget leaves no claim.  `Refinement` maps the steps to `AtLeastOnce`:
`HandlerSucceeds` to `Execute` (the budget is its guard), `LeaseLapses` to `Lapse`,
`Respond` with a 200 to `Acknowledge`, the rest to stuttering.

**XpTransactionsProofs**, for any chats, users, messages, days, transactions and jobs, any
caps and any number of faults.  The argument is that of two-phase locking: `Exclusion`
(no two transactions hold conflicting locks) and `LocksTaken` (a transaction that commits
has all its locks) give `ReadsCurrent` (what an awarding transaction has read is still
committed), since no transaction, of whatever kind, commits a change of a row without its
lock.  `DaysRecorded` ties the day rows to the ledger.  With `CapsHold`, `PaidOnce` and
`LockedWritersLoseNothing` they form `IInv`; TLC checks the same `IInv` holds on the
instance of `xp_transactions`.  `AwardsNeverUndo` follows from `ReadsCurrent`.

**BillingProofs**, for any invoices, plans, charges, workers and desks and any number of
faults and requests.  With no locks the argument is about keys.  `Alone`: open transactions
have inserted payments of different charges, and only one has inserted a trial claim.
`Fresh`: what such a transaction found absent is still absent when it commits.  From these
follows `Ledger`, what the rows of a charge say of its Stars (a payment that is recorded
was taken, one that is owed back was not granted, one that is refunded was returned, a
trial that was granted holds the claim), and `Standing`, what a worker or desk knows of the
charge it is about.  `IInv == TypeOK /\ Alone /\ Fresh /\ Ledger /\ Standing` is inductive;
`AnsweredOnce`, `OneTrial` and `RefundedIsReturned` follow from `Ledger`.  `Refinement` maps
`TakeStars` to `Take`, `CommitPayment` to `Grant`, `ReturnStars` and `OwnerReturnsStars` to
`GiveBack`, the rest to stuttering.

**WeeklyReportsProofs**, for any calls, groups, leases and weeks and without bounds on
lapses and faults.  `LeaseExcludes` and `LeaseKeepsTokens` are about `SchedulerLease` alone;
the invariant is `LeaseInv`: a token in Redis that belongs to a call at work names that
call's lease (`TokensAtWork`).  `WeeklyKeepsTheLease` shows that each step of the reports is
one of the lease or none, from which `WeeklyExcludes` has both for the reports.
`ReportsAreBudgeted` counts a call that has listed a due group as a report from then on
(`Budget`); where the report is still due nothing is marked, so that all is paid for but by
the one call that nobody has overtaken (`Spare`), and a mark set when the day is over makes
no group due again, since the times of a report are one interval (`DueDay`).
A report of which photo and text both arrive is paid for by the sending that failed
(`FailedCounts`).  `MarkedIsRewarded` is inductive with the types.

**OperationsProofs.**  `RateIsBounded`: what is left in the bucket is counted with what was
granted (`Conserved`); the key Redis forgets held a full burst by then, which is where the
assumption on `KeyTtl` comes in.  `RetryIsKept`: the promise holds for the moment it names
(`Promised`).  `OneTaskPerKey`: all the tasks that ask for a key ask for one lock, for its
entry stays while anybody has asked (`EntryStays`), which rests on the count of users
(`UsersCounted`).  `AnswersAreCurrent`: a result is used at the time it was loaded
(`CacheInv`: `LoadsShared`, `ResultsCurrent`, `AgesKnown`).  `LifespanStaysClean`: what is
open follows from where the process stands (`PoolsByPhase`: the database is opened behind
Redis and the bot behind the database, and closed the other way round), and a probe has seen
up whatever is up and was asked (`ProbeSees`).  `RateTypes`, `LocksAreTyped` and
`CacheIsTyped` are the types; in those of the lock and the cache is that a queue of waiters
names no task twice, and the order of use exactly the keys with an entry, which rest on
lemmas about appending to such a sequence and removing from it (`AppendTo`, `RemoveFirstOf`).

**AchievementsProofs**, for any transactions, groups and codes.  A commit pays for what its
transaction has inserted; that no other has inserted the same (`WrittenOnce`) is the doing
of the primary key.  `AchievementInv` adds it to the two properties, which are
`UnlocksPayOnce`, `UnlocksAreCelebrated` and, together, `UnlocksAreSettled`.
`AchievementsAreTyped` is its type invariant.

**EarningsProofs.**  For any days, thresholds, limits, calendar and number of resets:
`StreaksAreEarned` (`StreakInv` says of what an open message is about to write what
`StreakIsEarned` says of the row: `MessageFits`) and `GapsAreAlwaysPaid`.  The invariant of
the latter, `GapInv`, again says it of the row (`Charged`) and of what the open message will
have used by its commit (`MessageCounted`, `UsedAfter`): a message that goes on with a
streak reaches over the dates between the last one and its own, each in its month, which is
what `_consume_protections` asks of every month before it writes any; a streak that starts
again reaches over none.  A torn reset of the bot, which has deleted the protections and not
the member, is the exception that the property names.  `StreaksAreTyped` needs all of it:
that a streak fits into `0..LastDate` follows only from its being a number of dates.

For any messages, contents, cool-downs, windows, caps and redeliveries: `XpIsAlwaysEarned`.
A message that earns has found no award within the cool-down before its date
(`CooldownSeen`: the earliest awarded message since then, which exists because a set of
numbers has a least one, `Smallest`) and no copy in the burst window; and nobody's message
is awarded twice.  That the level fits the total is a matter of squares (`LevelOfFits`):
the corrected guess of a root is the root.  It fits behind each award, and behind an
adjustment or a reward unless it had read another level than it found (`levelMissed`): what
is under way would fit if nothing came between (`ChangesFit`), an equal level is then the one
that fits the total read, and where the total was written over too the new pair is the one
computed together (`ReadTotalStep`, `ChangeTotalStep`).  `RulesAreTyped` is its type invariant.

**MembersProofs**, each for any number of actors and steps.  `AccessIsExplained`
(`ControlInv`): a request carries what `Permitted` has checked (`RequestsPermitted`), so
that its commit writes the attribute it logs; and no two requests have one time, nor does
one have that of an entry on what it is about (`StampsFresh`), so that an entry is either
shown last and was committed last, or neither, and the exception of `InOrder` is in force
(`EntryAdded`).  `PrivilegeIsKept` (`StatusInv`): a handler that was not overtaken and is
`Informed` has read the row as it is (`UpToDate`).  `VipIsSentOnce` (`VipInv`) and
`UsersAreNotifiedOnce` (`NoteInv`, where a claim pays for the sending behind it:
`NotesPaid`) make `MessagesAreDeliveredOnce`.  `RemindersAreSpaced` (`SpacedInv`) counts the
reminders sent within a cool-down with those about to be sent in it.  They are as many as
crowded claims and failures, or one more; and with one more, that one is `Behind` whatever
comes next: every sender at work on the user (`AtWork`) started within the cool-down or
later, and where none is at work the user's last reminder is as late, so that the next claim
finds the cool-down or is crowded itself.  What dies on the way is a failure.
`PinnedIsWhole` (`FeaturedInv`): selections that are not empty all take the first slot and
collide there (`InsertsAlone`), and one that goes on has deleted all there was
(`DeletesAll`).  `OwnerIsUntouchable` (`StaffInv`): no one has a role before the claim
(`NobodyActs`), and a request that has checked its target has checked it against the owner
there is (`OthersTargeted`).  `SettingsDoAddUp` (`SettingsInv`): the changes under way are
well made, so that a commit moves the attributes it names and, where it was not outrun, to
what they would be one request after another.

The types of the parts are theorems too (`ControlIsTyped`, `StatusIsTyped`,
`RemindersAreTyped`, `PinnedIsTyped`, `StaffIsTyped`, `SettingsAreTyped`).  Some of them say
more than they seem to.  No slot of a profile is filled twice and no achievement pinned
twice, because what is pinned is one selection and names none twice (`SelectionsFit`).  The
counter of pending deliveries never falls below zero, because a call that has one under way
is counted in it (`StaffTyped`).  The clock of the reports stays within a day whatever a
button adds (`ShiftedIsTime`), and the menu goes round within the values it has
(`NextOffered`).

**The two compositions.**  A behaviour of `OperationsSpec` is one of each of its five parts,
and one of `MembersSpec` of each of its nine (`PartsRun`, `MembersPartsRun`): the step of
one is a stutter of the others.  So `OperationsAreTyped` and `MembersAreTyped` are the type
invariants that the runs check, and `OperationsAreSafe` and `MembersAreSafe` all of their
safety properties, for every value of the constants.

With these every invariant and every action property of a passing run is a theorem.

**Only model-checked:** liveness (`EveryUpdateAcknowledged`, `ChargesSettled`,
`DueReportArrives`, `InflightEnds`), for which the prover has no rules; `OperationsSpec`
is therefore without fairness, and `Operations.cfg` runs `FairOperationsSpec`, which adds
it.  The runs that expect a violation have nothing to prove.

What the prover can reason about has shaped a few definitions.  Sets stand for lists where
the order is fixed elsewhere (`todo` and `left` of a transaction of achievements), since
nothing can be shown of `SelectSeq` and `SetToSeq`; `RemoveFirst` removes from a sequence
without repetitions; a sum over months is a comparison month by month, which is stronger; and
no theorem is an induction over data, except that a least element of a set of numbers is
taken from the well-foundedness of `<`.

## 6. What the models leave out or add, and what they show beside the properties

**Left out, or more than the code does.**

* A restriction or a staff row that two requests insert at once is refused to the second by
  the code; `UserControl` refuses it too, `StaffActions` lets the second write.
* A note set to "" without a row, racing an insert, leaves the note; a block with the same
  reason as the one read does not write the reason.  Texts are left out.
* A PATCH of the Mini App with more than two settings, or of `report_time` with others, is
  not a request of its own; whoever is no administrator is turned away without a step.
* `ensure_group` of the bot's menu calls `upsert_group` only where it found no row.
* Branches for repositories without a session factory (`app/bot/routers/reactions.py`) are
  not production paths.
* Level formulas work on floating point in `app/repositories/user_control/base.py:62`; they
  are exact at thresholds, which `LevelOf` relies on.

**Seen while modelling; no document says otherwise, or the effect is outside the models.**

* A caller of the cache that joins a load whose creator was cancelled while the load was still
  running finds a cancelled task, which stays in `_inflight` for good: every later caller that
  misses on the key fails with it until the process ends, or is answered from a stale entry
  while there is one.  `InflightEnds` says of loads that nobody cancels that they end.
* The value of a load that began before an invalidation is stored behind it, and answered until
  its time to live is over.
* A reminder that was claimed by a process that died is not sent: the row stays claimed, and
  `claim_notification` refuses its key.
* A weekly reward that fails is swallowed behind the mark and not made up for
  (`RewardedUnlessFailed` excepts it).
* Two overlapping writers may leave `bot_status` "left" with `is_active` true; a late message
  reactivates a group the bot has left (`group_status_sync.py:39`).
* A toggle of the menu is computed from an earlier read and may be lost
  (`app/bot/routers/settings.py:316`); two overlapping changes of the report time may mix
  hour and minute.  `cycle_report_theme` and the owner panel give premium themes without
  asking for VIP, and PATCH of the settings refuses them with a `PermissionError` that
  nothing handles.
* Overlapping backfills can leave two unseen summaries; the backfill and a weekly report
  insert in opposite orders and may deadlock; a conflict in the import, which has no
  savepoint, ends the backfill.  Of two overlapping selections the loser gets an
  `IntegrityError`, a 500.
* The reset of a group keeps the canonical unlocks of achievements, which the text of the
  bot's confirmation (`app/bot/routers/settings.py:358`) does not say; the protections left
  are shown as 3 less those used also to VIP.
* README.md:89 and :91 (XP at most once in five seconds, none for copies) hold for messages
  processed in the order of their dates: a late message is compared only with earlier ones,
  which is what `XpIsEarned` says.
* Counters of messages and reactions count twice when an update is delivered again behind
  its commit.  A recurring payment may shorten a longer grant.
* `set_webhook` that fails leaves the session of the bot open; a close of Redis that fails
  skips the disposal of the engine, and ends the start-up of a process to which Redis is
  optional (`app/main.py:213`, `:238`).  A process started without its optional Redis does
  without it until it is restarted.
* Two first refused requests of a blocked user collide on
  `uq_blocked_access_events_window`, a 500 instead of a 403; `attempt_count` loses
  increments.
* `BlockedUserMiddleware` (`app/bot/middlewares/user_restrictions.py`) is registered outer to
  `dispatcher.update`, where its event is an Update, which has no `from_user`: it hands
  every update on, while `docs/superpowers/plans/2026-07-24-owner-user-control.md:57` says
  blocked users reach no handler.  This rests on aiogram and is in no run.

## 7. Not modelled

* The front end, rendering, exports, analytics queries and the read endpoints of the owner
  and the Mini App change nothing.
* Counters of messages and emoji rows (`app/repositories/activity/writes.py:127`): read
  without a lock and written back, with two baselines for reactions.  They are lost and
  counted twice in ways no document denies.
* Which achievements a metric satisfies (`app/achievements/catalog.py`), which reminder a
  user qualifies for, rank snapshots: choices in the models.
* `build_account_access` is a function of the grant and the time.
* Amounts, currencies, texts, formats, metrics, logs and values of the configuration.

## 8. Plan

The plan of the first version is done but for its first item: `WebhookEffects`, the
composition of the claims of `UpdateDelivery` with the transactions of a handler, to state
what redelivery does to the counters of messages and reactions (`docs/LOAD_TESTING.md:26`,
"no duplicate webhook side effects").  Next to it would come the queue of lock waiters of
PostgreSQL, for liveness of `XpTransactions`, and `VIP` of the owner panel as desks of
`Billing`.
