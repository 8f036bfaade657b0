------------------------------- MODULE Streaks -------------------------------
(***************************************************************************)
(* The streak of one member of one group, and the days a streak may miss:  *)
(* _apply_xp and _advance_streak (app/repositories/gamification.py),       *)
(* _consume_protections (gamification_v2.py), and the two ways to reset    *)
(* the group, that of the Mini App (app/services/group_settings.py) and    *)
(* that of the bot (bot/routers/settings.py).                              *)
(*                                                                         *)
(* Messages may be processed late, days after they were written.  Those of *)
(* one member are one after the other: the transaction holds the row of    *)
(* the member.  A reset takes no such lock: it is a sequence of DELETEs,   *)
(* each of which finds the rows committed by then, waits for those a       *)
(* message has locked, and overlooks those a message has inserted and not  *)
(* committed.  The bot's is two transactions, and may break off between.   *)
(*                                                                         *)
(* A day counts from Threshold XP on; totals and levels are left out.  A   *)
(* date is a number, in the zone of the group.                             *)
(***************************************************************************)
EXTENDS Integers, FiniteSets

CONSTANTS
    LastDate,           \* bound: the dates are 1..LastDate
    MonthOf(_),         \* the month of a date, a number that grows with it
    Threshold,          \* STREAK_XP_THRESHOLD
    DayCap,             \* GROUP_DAILY_XP_CAP
    FreeLimit,          \* MONTHLY_PROTECTION_DAYS
    VipLimit,           \* VIP_MONTHLY_PROTECTION_DAYS
    MaxResets,          \* bound: resets
    MaxAborts           \* bound: rollbacks other than of a deadlock

Dates == 1..LastDate
Months == {MonthOf(d) : d \in Dates}
NoDate == 0

ASSUME StreakAssumption ==
    /\ LastDate \in Nat \ {0}
    /\ \A d \in Dates : MonthOf(d) \in Nat
    /\ \A d, e \in Dates : d <= e => MonthOf(d) <= MonthOf(e)
    /\ Threshold \in Nat \ {0} /\ DayCap \in Nat /\ Threshold <= DayCap
    /\ FreeLimit \in Nat /\ VipLimit \in Nat /\ FreeLimit <= VipLimit
    /\ MaxResets \in Nat /\ MaxAborts \in Nat

VARIABLES
    today,
    vip,                \* whether the member is VIP or the owner
    member,             \* the row of the member: none, or one
    daily,              \* daily[d]: xp_earned of the rows of DailyActivity
    used,               \* used[m]: used_days of the rows of StreakProtectionUsage
    message,            \* the open transaction of a message
    reset,              \* the open reset
    counted,            \* history: the dates the streak is made of
    torn,               \* history: the bot has deleted the usage, and not the member
    resets, aborts      \* how often so far

streakVars == <<today, vip, member, daily, used, message, reset, counted, torn, resets, aborts>>

Exists == member # << >>

Rows(S, T) == UNION {[D -> T] : D \in SUBSET S}
MemberRows == [streak : 0..LastDate, longest : 0..LastDate, last : Dates \union {NoDate}]
NewMember == [streak |-> 0, longest |-> 0, last |-> NoDate]

\* locks: the member existed and its row is locked; member, xp, usage and counted:
\* what the transaction writes.
Messages == [at : {"none", "entered", "awarded"}, date : Dates \union {NoDate}, locks : BOOLEAN,
             member : MemberRows, xp : 0..DayCap, usage : Rows(Months, 0..VipLimit),
             counted : SUBSET Dates]
NoMessage == [at |-> "none", date |-> NoDate, locks |-> FALSE, member |-> NewMember, xp |-> 0,
              usage |-> << >>, counted |-> {}]

\* at: the statement that is next; daily and used: the rows deleted so far.
Resets == [by : {"none", "bot", "api"}, at : {"daily", "used", "member"},
           daily : SUBSET Dates, used : SUBSET Months]
NoReset == [by |-> "none", at |-> "daily", daily |-> {}, used |-> {}]

StreakTypeOK ==
    /\ today \in Dates
    /\ vip \in BOOLEAN
    /\ Exists => DOMAIN member = {1} /\ member[1] \in MemberRows
    /\ daily \in Rows(Dates, 0..DayCap)
    /\ used \in Rows(Months, 0..VipLimit)
    /\ message \in Messages
    /\ reset \in Resets
    /\ counted \subseteq Dates
    /\ torn \in BOOLEAN
    /\ resets \in 0..MaxResets /\ aborts \in 0..MaxAborts

StreakInit ==
    /\ today = 1
    /\ vip = FALSE
    /\ member = << >> /\ daily = << >> /\ used = << >>
    /\ message = NoMessage
    /\ reset = NoReset
    /\ counted = {}
    /\ torn = FALSE
    /\ resets = 0 /\ aborts = 0

Xp(rows, d) == IF d \in DOMAIN rows THEN rows[d] ELSE 0
Used(m) == IF m \in DOMAIN used THEN used[m] ELSE 0
Without(rows, S) == [k \in DOMAIN rows \ S |-> rows[k]]
Upserted(rows, new) ==
    [k \in DOMAIN rows \union DOMAIN new |-> IF k \in DOMAIN new THEN new[k] ELSE rows[k]]

-----------------------------------------------------------------------------
NextDate ==
    /\ today < LastDate
    /\ today' = today + 1
    /\ UNCHANGED <<vip, member, daily, used, message, reset, counted, torn, resets, aborts>>

\* VIP is bought, granted, revoked, or ends.
ChangeVip ==
    /\ vip' = ~vip
    /\ UNCHANGED <<today, member, daily, used, message, reset, counted, torn, resets, aborts>>

\* A message of day d: its transaction locks the member or inserts it.
Enter(d) ==
    /\ message.at = "none"
    /\ d <= today
    /\ message' = [NoMessage EXCEPT !.at = "entered", !.date = d, !.locks = Exists,
                     !.member = IF Exists THEN member[1] ELSE NewMember, !.counted = counted]
    /\ UNCHANGED <<today, vip, member, daily, used, reset, counted, torn, resets, aborts>>

Limit == IF vip THEN VipLimit ELSE FreeLimit

\* The dates between the last one of the streak and d.
Missing(d) == {e \in Dates : message.member.last < e /\ e < d}
Needed(S, m) == Cardinality({e \in S : MonthOf(e) = m})
Required(S) == {MonthOf(e) : e \in S}
Refused(S) == {m \in Required(S) : Used(m) + Needed(S, m) > Limit}

\* Faulty: nothing is charged.
ConsumeNothing(S) == << >>

\* _consume_protections: the rows it writes.  The months are tried in order, and
\* a row is made for each one tried; if one refuses, none is charged.
Consume(S) ==
    IF Refused(S) = {}
      THEN [m \in Required(S) |-> Used(m) + Needed(S, m)]
      ELSE [m \in {n \in Required(S) \ DOMAIN used : \A r \in Refused(S) : n <= r} |-> 0]

\* Faulty: a date before the last one counts too.
AdvanceAnyDate(d) ==
    LET m == message.member
        goesOn == m.last # NoDate /\ Refused(Missing(d)) = {}
        streak == IF goesOn THEN m.streak + 1 ELSE 1 IN
    [message EXCEPT
       !.member = [streak |-> streak, last |-> d,
                   longest |-> IF streak > m.longest THEN streak ELSE m.longest],
       !.counted = IF goesOn THEN message.counted \union {d} ELSE {d},
       !.usage = IF m.last = NoDate THEN << >> ELSE Consume(Missing(d))]

\* _advance_streak
Advance(d) ==
    LET m == message.member
        goesOn == m.last # NoDate /\ Refused(Missing(d)) = {}
        streak == IF goesOn THEN m.streak + 1 ELSE 1 IN
    IF m.last # NoDate /\ d <= m.last THEN message
    ELSE [message EXCEPT
            !.member = [streak |-> streak, last |-> d,
                        longest |-> IF streak > m.longest THEN streak ELSE m.longest],
            !.counted = IF goesOn THEN message.counted \union {d} ELSE {d},
            !.usage = IF m.last = NoDate THEN << >> ELSE Consume(Missing(d))]

\* The award would write a row that the reset has deleted: it waits for the end
\* of the reset.
AwardWaits ==
    /\ message.at = "entered"
    /\ \/ message.date \in reset.daily
       \/ DOMAIN Advance(message.date).usage \intersect reset.used # {}

\* _apply_xp: the day is XP's, and the streak advances when it comes to count.
Award(requested) ==
    LET d == message.date
        before == Xp(daily, d)
        after == IF before + requested > DayCap THEN DayCap ELSE before + requested
        advanced == IF before < Threshold /\ Threshold <= after THEN Advance(d) ELSE message IN
    /\ message.at = "entered"
    /\ ~AwardWaits
    /\ message' = [advanced EXCEPT !.at = "awarded", !.xp = after]
    /\ UNCHANGED <<today, vip, member, daily, used, reset, counted, torn, resets, aborts>>

Commit ==
    /\ message.at = "awarded"
    /\ member' = <<message.member>>
    /\ daily' = Upserted(daily, [d \in {message.date} |-> message.xp])
    /\ used' = Upserted(used, message.usage)
    /\ counted' = message.counted
    /\ torn' = (torn /\ message.locks)
    /\ message' = NoMessage
    /\ UNCHANGED <<today, vip, reset, resets, aborts>>

-----------------------------------------------------------------------------
(* Resets. *)

\* Deleting rows the message has locked waits for its end.
MemberLocked == message.at # "none" /\ message.locks
DailyLocked == message.at = "awarded" /\ message.date \in DOMAIN daily
UsageLocked == message.at = "awarded" /\ DOMAIN message.usage \intersect DOMAIN used # {}

\* settings:reset:confirm: reset_group_gamification, a transaction of its own.
BotReset ==
    /\ reset.by = "none"
    /\ resets < MaxResets
    /\ ~UsageLocked
    /\ used' = << >>
    /\ torn' = Exists
    /\ reset' = [NoReset EXCEPT !.by = "bot", !.at = "daily"]
    /\ resets' = resets + 1
    /\ UNCHANGED <<today, vip, member, daily, message, counted, aborts>>

\* reset_group of the Mini App begins.
ApiReset ==
    /\ reset.by = "none"
    /\ resets < MaxResets
    /\ reset' = [NoReset EXCEPT !.by = "api"]
    /\ resets' = resets + 1
    /\ UNCHANGED <<today, vip, member, daily, used, message, counted, torn, aborts>>

DeleteDaily ==
    /\ reset.by # "none" /\ reset.at = "daily"
    /\ ~DailyLocked
    /\ reset' = [reset EXCEPT !.daily = DOMAIN daily, !.at = IF reset.by = "api" THEN "used" ELSE "member"]
    /\ UNCHANGED <<today, vip, member, daily, used, message, counted, torn, resets, aborts>>

DeleteUsage ==
    /\ reset.by = "api" /\ reset.at = "used"
    /\ ~UsageLocked
    /\ reset' = [reset EXCEPT !.used = DOMAIN used, !.at = "member"]
    /\ UNCHANGED <<today, vip, member, daily, used, message, counted, torn, resets, aborts>>

\* The member is deleted last, and the transaction commits.
DeleteMember ==
    /\ reset.by # "none" /\ reset.at = "member"
    /\ ~MemberLocked
    /\ member' = << >>
    /\ daily' = Without(daily, reset.daily)
    /\ used' = Without(used, reset.used)
    /\ counted' = {}
    /\ torn' = FALSE
    /\ reset' = NoReset
    /\ UNCHANGED <<today, vip, message, resets, aborts>>

\* Each waits for the other: PostgreSQL rolls one of them back.
Deadlock == AwardWaits /\ reset.at = "member" /\ MemberLocked

Aborted == IF Deadlock THEN UNCHANGED aborts ELSE aborts < MaxAborts /\ aborts' = aborts + 1

AbortMessage ==
    /\ message.at # "none"
    /\ Aborted
    /\ message' = NoMessage
    /\ UNCHANGED <<today, vip, member, daily, used, reset, counted, torn, resets>>

\* Of the bot's reset only the second transaction is rolled back.
AbortReset ==
    /\ reset.by # "none"
    /\ Aborted
    /\ reset' = NoReset
    /\ UNCHANGED <<today, vip, member, daily, used, message, counted, torn, resets>>

StreakNext ==
    \/ NextDate
    \/ ChangeVip
    \/ \E d \in Dates : Enter(d)
    \/ \E requested \in 0..DayCap : Award(requested)
    \/ Commit
    \/ BotReset
    \/ ApiReset
    \/ DeleteDaily
    \/ DeleteUsage
    \/ DeleteMember
    \/ AbortMessage
    \/ AbortReset

StreakSpec == StreakInit /\ [][StreakNext]_streakVars

-----------------------------------------------------------------------------
(* Properties. *)

ActiveUpTo(d) == {e \in DOMAIN daily : daily[e] >= Threshold /\ e <= d}

\* A streak is no longer than the days its member was active on, whatever order
\* they were processed in and whatever a reset leaves behind: a date counts once
\* (gamification.py:718).
StreakIsEarned ==
    Exists => /\ member[1].streak <= Cardinality(ActiveUpTo(member[1].last))
              /\ member[1].last # NoDate => member[1].last \in ActiveUpTo(LastDate)

\* The days of month m that the streak of a row reaches over, without counting them.
ReachedOver(row, dates, m) ==
    {e \in Dates \ dates : MonthOf(e) = m /\ e < row.last /\ \E c \in dates : c < e}

\* A streak is as long as the dates it counts, and every day it reaches over is charged
\* to a protection of its own month and within the limit, unless a reset of the bot broke
\* off after deleting what had been used (gamification_v2.py:70,
\* bot/routers/settings.py:365).
GapsArePaid ==
    /\ \A m \in DOMAIN used : used[m] <= VipLimit
    /\ Exists => member[1].streak = Cardinality(counted)
    /\ Exists /\ ~torn => \A m \in Months : Cardinality(ReachedOver(member[1], counted, m)) <= Used(m)

=============================================================================
