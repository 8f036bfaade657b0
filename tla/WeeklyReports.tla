---------------------------- MODULE WeeklyReports ----------------------------
(***************************************************************************)
(* Weekly reports to groups (app/services/weekly_reports.py): the job that *)
(* the scheduler calls, under a lease of the week (app/main.py), and the   *)
(* report that an administrator asks for in the Mini App                   *)
(* (app/api/miniapp/groups.py), under none.                                *)
(*                                                                         *)
(* A sending answers, or fails with or without having reached the group.   *)
(* A call ends early when its process dies, or by an exception of the      *)
(* database that nothing catches.  The private notices behind a report are *)
(* in Reminders: their failures are swallowed.                             *)
(*                                                                         *)
(* The lease is named after the ISO week in UTC, a report is due in the    *)
(* time of the group, so that one due day may see two leases.              *)
(***************************************************************************)
EXTENDS SchedulerLease

CONSTANTS
    Groups,
    DueAt,              \* DueAt[g]: the times of g's report day, from the report's time on
    WeekOf,             \* WeekOf[t]: the lease of the week at time t
    Horizon,            \* bound: the last time
    MaxLapses,          \* bound: leases that expire under a call at work
    MaxFaults,          \* bound: no call dies, sending or call of Redis fails behind so many
    Never, NoGroup

Times == 0..Horizon

ASSUME WeeklyAssumption ==
    /\ IsFiniteSet(Groups) /\ NoGroup \notin Groups
    /\ Horizon \in Nat /\ MaxLapses \in Nat /\ MaxFaults \in Nat
    /\ DueAt \in [Groups -> SUBSET Times]
    /\ \A g \in Groups : \A s, t \in DueAt[g] : s..t \subseteq DueAt[g]    \* one day
    /\ WeekOf \in [Times -> Leases]
    /\ Never \notin Times

VARIABLES
    now,
    open,               \* groups that are active, not paused, and have reports enabled
    marked,             \* marked[g]: last_weekly_report_at
    rewarded,           \* the groups whose weekly achievements were evaluated
    pc,                 \* pc[p]: where call p stands
    todo,               \* todo[p]: the groups p listed and has still to serve
    group,              \* group[p]: the group at work
    faults,             \* faults so far (a step that fails has fewer than MaxFaults)
    reports,            \* history: reports of the job that reached a group
    overtaken,          \* history: calls at the job when another began it
    overlaps            \* history: how many calls have been overtaken

reportVars == <<pc, todo, group>>
histories == <<reports, overtaken, overlaps>>
weeklyVars == <<leaseVars, now, open, marked, rewarded, reportVars, faults, histories>>

WeeklyTypeOK ==
    /\ LeaseTypeOK
    /\ now \in Times
    /\ open \subseteq Groups /\ rewarded \subseteq Groups
    /\ marked \in [Groups -> Times \union {Never}]
    /\ pc \in [Calls -> {"idle", "groups", "mark", "rewards"}]
    /\ todo \in [Calls -> SUBSET Groups]
    /\ group \in [Calls -> Groups \union {NoGroup}]
    /\ faults \in Nat
    /\ reports \in [Groups -> Nat]
    /\ overtaken \subseteq Calls /\ overlaps \in Nat
    /\ \A p \in Calls : pc[p] \in {"mark", "rewards"} => group[p] \in Groups
    /\ \A p \in Calls : lease[p] # NoLease => pc[p] # "idle"

WeeklyInit ==
    /\ LeaseInit
    /\ now = 0
    /\ open \in SUBSET Groups
    /\ marked = [g \in Groups |-> Never]
    /\ rewarded = {}
    /\ pc = [p \in Calls |-> "idle"]
    /\ todo = [p \in Calls |-> {}]
    /\ group = [p \in Calls |-> NoGroup]
    /\ faults = 0
    /\ reports = [g \in Groups |-> 0]
    /\ overtaken = {}
    /\ overlaps = 0

Fault == faults < MaxFaults /\ faults' = faults + 1

WeeklyTick ==
    /\ now < Horizon
    /\ now' = now + 1
    /\ UNCHANGED <<leaseVars, open, marked, rewarded, reportVars, faults, histories>>

\* set_paused and the switch for weekly reports.
SwitchReports(g) ==
    /\ open' = IF g \in open THEN open \ {g} ELSE open \union {g}
    /\ UNCHANGED <<leaseVars, now, marked, rewarded, reportVars, faults, histories>>

\* Faulty: a group is due although its week is marked.
DueEveryHour == {g \in open : now \in DueAt[g]}

\* list_due_weekly_reports: all times of the report's day have the same date.
Due == {g \in open : now \in DueAt[g] /\ marked[g] \notin DueAt[g]}

Begin(p, groups) ==
    /\ pc[p] = "idle"
    /\ pc' = [pc EXCEPT ![p] = "groups"]
    /\ todo' = [todo EXCEPT ![p] = groups]
    /\ UNCHANGED <<now, open, marked, rewarded, group, faults, reports>>

Working == {q \in Calls : lease[q] # NoLease}

StartWeekly(p) ==
    /\ Acquire(p, WeekOf[now])
    /\ Begin(p, Due)
    /\ overtaken' = Working
    /\ overlaps' = overlaps + Cardinality(Working \ overtaken)

\* send_group_report_now, which asks neither whether the group is paused nor marks it.
StartNow(p) ==
    /\ \E g \in Groups : Begin(p, {g})
    /\ UNCHANGED <<leaseVars, overtaken, overlaps>>

Scheduled(p) == lease[p] # NoLease

\* What fails of a report that reaches its group so many times: every sending but one
\* that is answered.
Failed(times, answered) == IF answered THEN times - 1 ELSE IF times = 0 THEN 1 ELSE times

\* send_weekly_report: a photo, and when that fails a text.  A sending that failed may be
\* there all the same.  If the text fails too, the job goes on to the next group.
SendReport(p) ==
    /\ pc[p] = "groups"
    /\ \E g \in todo[p], times \in 0..2, answered \in BOOLEAN :
          /\ answered => times > 0
          /\ Failed(times, answered) > 0 => faults < MaxFaults
          /\ faults' = faults + Failed(times, answered)
          /\ reports' = IF Scheduled(p) THEN [reports EXCEPT ![g] = @ + times] ELSE reports
          /\ pc' = [pc EXCEPT ![p] = IF ~answered THEN @
                                     ELSE IF Scheduled(p) THEN "mark" ELSE "rewards"]
          /\ group' = IF answered THEN [group EXCEPT ![p] = g] ELSE group
          /\ todo' = [todo EXCEPT ![p] = @ \ {g}]
    /\ UNCHANGED <<leaseVars, now, open, marked, rewarded, overtaken, overlaps>>

\* Faulty: the job goes on to the next group without giving the rewards.
MarkAndReturn(p) ==
    /\ pc[p] = "mark"
    /\ marked' = [marked EXCEPT ![group[p]] = now]
    /\ pc' = [pc EXCEPT ![p] = "groups"]
    /\ group' = [group EXCEPT ![p] = NoGroup]
    /\ UNCHANGED <<leaseVars, now, open, rewarded, todo, faults, histories>>

\* mark_weekly_report_sent, with the time at which it is called.
Mark(p) ==
    /\ pc[p] = "mark"
    /\ marked' = [marked EXCEPT ![group[p]] = now]
    /\ pc' = [pc EXCEPT ![p] = "rewards"]
    /\ UNCHANGED <<leaseVars, now, open, rewarded, todo, group, faults, histories>>

\* evaluate_weekly_achievements, whose failure is swallowed.
Reward(p) ==
    /\ pc[p] = "rewards"
    /\ \/ rewarded' = rewarded \union {group[p]} /\ UNCHANGED faults
       \/ Fault /\ UNCHANGED rewarded
    /\ pc' = [pc EXCEPT ![p] = "groups"]
    /\ group' = [group EXCEPT ![p] = NoGroup]
    /\ UNCHANGED <<leaseVars, now, open, marked, todo, histories>>

\* Leaving the "async with lease" of the job; a report asked for has no lease.
Leave(p, answered) ==
    /\ IF Scheduled(p) THEN Release(p, answered) ELSE UNCHANGED leaseVars
    /\ pc' = [pc EXCEPT ![p] = "idle"]
    /\ todo' = [todo EXCEPT ![p] = {}]
    /\ group' = [group EXCEPT ![p] = NoGroup]
    /\ overtaken' = overtaken \ {p}
    /\ UNCHANGED <<now, open, marked, rewarded, reports, overlaps>>

Finish(p) ==
    /\ pc[p] = "groups" /\ todo[p] = {}
    /\ \/ Leave(p, TRUE) /\ UNCHANGED faults
       \/ Leave(p, FALSE) /\ Fault

\* The process dies, or an exception ends the job.
Die(p) ==
    /\ pc[p] # "idle"
    /\ Fault
    /\ \E answered \in BOOLEAN : Leave(p, answered)

\* An answer of Redis is lost, a renewal fails, or the TTL ends.
RedisStep ==
    /\ \/ Fault /\ \E l \in Leases : AcquireUnanswered(l)
       \/ Fault /\ \E p \in Calls : RenewFails(p)
       \/ \E l \in Leases :
             /\ key[l] \in Calls => lapses[l] < MaxLapses
             /\ Expire(l) /\ UNCHANGED faults
    /\ UNCHANGED <<now, open, marked, rewarded, reportVars, histories>>

TokenEnds(l) ==
    /\ key[l] = Gone /\ Expire(l)
    /\ UNCHANGED <<now, open, marked, rewarded, reportVars, faults, histories>>

WeeklyStep(p) == SendReport(p) \/ Mark(p) \/ Reward(p) \/ Finish(p)

WeeklyNext ==
    \/ WeeklyTick \/ RedisStep
    \/ \E g \in Groups : SwitchReports(g)
    \/ \E p \in Calls : StartWeekly(p) \/ StartNow(p) \/ WeeklyStep(p) \/ Die(p)

WeeklySpec == WeeklyInit /\ [][WeeklyNext]_weeklyVars

-----------------------------------------------------------------------------

\* A due report reaches its group once.  Each further time something failed, as
\* between sending and marking (weekly_reports.py:114), or a call was overtaken by
\* another start of the job: a lease had lapsed (leases.py:68), or the week of the lease had
\* ended within the day of the group (main.py:108).
ReportBudget == \A g \in Groups : reports[g] <= 1 + faults + overlaps

\* A group that is marked has had its weekly rewards, unless something failed: nothing
\* makes up for them later (weekly_reports.py:120).
RewardedUnlessFailed ==
    \A g \in Groups :
       marked[g] # Never /\ faults = 0 =>
          g \in rewarded \/ \E p \in Calls : pc[p] = "rewards" /\ group[p] = g

\* A report that stays due is sent, whatever call died or lost its lease before
\* (main.py:509): a lease left behind ends, and an unmarked group is due again.
DueReportArrives == \A g \in Groups : []<>(g \notin Due)
===============================================================================
