---------------------------- MODULE XpTransactions ----------------------------
(***************************************************************************)
(* The PostgreSQL transactions that write XP, statement by statement where *)
(* they lock rows: messages and reactions (app/services/activity_writes.py *)
(* over app/repositories/activity/writes.py and                            *)
(* app/repositories/gamification.py), the rewards of a weekly report       *)
(* (gamification_v2.py) and the adjustments of an administrator            *)
(* (user_control/xp.py).                                                   *)
(*                                                                         *)
(* db is the committed database.  A transaction computes what it writes    *)
(* from seen, the rows as it read them, and its writes reach db when it    *)
(* commits: READ COMMITTED shows them to nobody earlier.  Messages and     *)
(* reactions read the XP rows after SELECT ... FOR UPDATE has locked them; *)
(* the other two read them first and lock them only by writing them.       *)
(*                                                                         *)
(* PostgreSQL's lock modes are named after what takes them: "share" is the *)
(* KEY SHARE lock an INSERT puts on the rows its foreign keys name,        *)
(* "update" the lock of an UPDATE, "exclusive" that of FOR UPDATE.         *)
(*                                                                         *)
(* That locked rows are read as they are committed is a fact about the     *)
(* ORM session: FOR UPDATE does not refresh an object the session knows,   *)
(* and the objects of the first statements are known only as long as some  *)
(* variable refers to them.  None does when _lock_xp_context runs.         *)
(*                                                                         *)
(* Left out: levels, which MessageRules has with what overlaps with them,  *)
(* streaks and the counters of messages.  The groups are active, not       *)
(* paused, and track everything.  The daily rows are not lockable rows     *)
(* here: a transaction locks them behind the member and user rows it       *)
(* already holds.                                                          *)
(***************************************************************************)
EXTENDS Integers, Sequences, FiniteSets

CONSTANTS
    Chats, Users, Messages, Days,
    Txns,               \* the transactions
    Job,                \* Job[t]: what transaction t is for
    NoChat,             \* the chat of an adjustment of global XP
    GroupCap,           \* GROUP_DAILY_XP_CAP
    GlobalCap,          \* GLOBAL_DAILY_XP_CAP
    Requests,           \* what a message may ask for after cooldown, duplicate and burst
    ReactionXp,         \* XP of one reaction
    Reward,             \* XP of an achievement
    MaxFaults           \* bound: rollbacks other than of a deadlock, and redeliveries

Members == Chats \X Users
Kinds == {"message", "reaction", "weekly", "adjust"}

\* user is the author of the message, or who is adjusted; a weekly report rewards
\* the members in earners; delta is the change of a reaction; day and gday are
\* the date in the zone of the group and in UTC.
JobType == [kind : Kinds, chat : Chats \union {NoChat}, user : Users, msg : Messages,
            day : Days, gday : Days, delta : Int, earners : Seq(Users)]

ASSUME XpAssumption ==
    /\ Job \in [Txns -> JobType]
    /\ NoChat \notin Chats
    /\ \A t \in Txns : Job[t].kind # "adjust" => Job[t].chat \in Chats
    /\ GroupCap \in Nat /\ GlobalCap \in Nat
    /\ Requests \subseteq Nat
    /\ ReactionXp \in Nat /\ Reward \in Nat
    /\ MaxFaults \in Nat

VARIABLES
    db,                 \* the committed rows
    pc,                 \* pc[t]: where transaction t stands
    next,               \* next[t]: the statement of t that locks next
    held,               \* held[t]: the row locks of t
    seen,               \* seen[t]: the rows as t has read them
    due,                \* history: what the totals are if no increment is lost
    payments,           \* history: how often a message has been given XP
    faults              \* faults so far (bounded by MaxFaults)

vars == <<db, pc, next, held, seen, due, payments, faults>>

\* xp and gxp are GroupMember.xp_total and User.global_xp_total; day and gday the
\* xp_earned of DailyActivity and GlobalDailyXP; paid and reactions the xp_awarded
\* and reactions_count of MessageAuthor, which exists for the messages in
\* recorded; received is GroupMember.reactions_received; unlocked the members
\* that have their achievement.
Database ==
    [xp : [Members -> Int], gxp : [Users -> Int],
     day : [Members \X Days -> Nat], gday : [Users \X Days -> Nat],
     recorded : SUBSET Messages, paid : [Messages -> Nat], reactions : [Messages -> Nat],
     received : [Members -> Nat], unlocked : SUBSET Members]

EmptyDb ==
    [xp |-> [k \in Members |-> 0], gxp |-> [u \in Users |-> 0],
     day |-> [k \in Members \X Days |-> 0], gday |-> [k \in Users \X Days |-> 0],
     recorded |-> {}, paid |-> [m \in Messages |-> 0], reactions |-> [m \in Messages |-> 0],
     received |-> [k \in Members |-> 0], unlocked |-> {}]

Totals == [xp : [Members -> Int], gxp : [Users -> Int],
           day : [Members \X Days -> Nat], gday : [Users \X Days -> Nat]]

NoTotals == [xp |-> EmptyDb.xp, gxp |-> EmptyDb.gxp, day |-> EmptyDb.day, gday |-> EmptyDb.gday]

MemberOf(t) == <<Job[t].chat, Job[t].user>>
DayOf(t) == <<MemberOf(t), Job[t].day>>
GlobalDayOf(t) == <<Job[t].user, Job[t].gday>>

LockingReader(t) == Job[t].kind \in {"message", "reaction"}

Least(a, b) == IF a < b THEN a ELSE b
AtLeastZero(n) == IF n < 0 THEN 0 ELSE n

-----------------------------------------------------------------------------
(* Row locks. *)

Modes == {"share", "update", "exclusive"}

GroupRow(c) == <<"group", c>>
UserRow(u) == <<"user", u>>
MemberRow(c, u) == <<"member", c, u>>
MessageRow(m) == <<"message", m>>

Conflict(a, b) == {a, b} \notin {{"share"}, {"share", "update"}}

\* Faulty: the rows are read without FOR UPDATE.
LockNothing(c, u, m) == << >>

\* Faulty: the row of the user is left out.
LockXpContextWithoutUser(c, u, m) ==
    << <<GroupRow(c), "exclusive">>, <<MemberRow(c, u), "exclusive">>,
       <<MessageRow(m), "exclusive">> >>

\* _lock_xp_context, in the order the design lists the tables.
LockXpContext(c, u, m) ==
    << <<GroupRow(c), "exclusive">>, <<UserRow(u), "exclusive">>,
       <<MemberRow(c, u), "exclusive">>, <<MessageRow(m), "exclusive">> >>

\* The locks a transaction takes, in order.  Before _lock_xp_context a message
\* has updated its user and its member and inserted its MessageAuthor, and a
\* reaction has updated the member, inserted the day's rows and locked the
\* message.  A weekly report inserts the unlock of each earner and updates the
\* earner's rows; an adjustment updates one row and inserts its record.
Statements == [t \in Txns |->
    LET j == Job[t] c == j.chat u == j.user IN
    CASE j.kind = "message" ->
           << <<UserRow(u), "update">>, <<MemberRow(c, u), "update">>,
              <<GroupRow(c), "share">> >> \o LockXpContext(c, u, j.msg)
      [] j.kind = "reaction" ->
           << <<MemberRow(c, u), "update">>, <<GroupRow(c), "share">>,
              <<MessageRow(j.msg), "exclusive">> >>
           \o (IF j.delta > 0 THEN LockXpContext(c, u, j.msg) ELSE << >>)
      [] j.kind = "weekly" ->
           [i \in 1..4 * Len(j.earners) |->
              LET e == j.earners[(i + 3) \div 4] IN
              CASE i % 4 = 1 -> <<GroupRow(c), "share">>
                [] i % 4 = 2 -> <<UserRow(e), "share">>
                [] i % 4 = 3 -> <<MemberRow(c, e), "update">>
                [] OTHER -> <<UserRow(e), "update">>]
      [] j.kind = "adjust" ->
           IF c = NoChat THEN << <<UserRow(u), "update">> >>
           ELSE << <<MemberRow(c, u), "update">>, <<UserRow(u), "share">>,
                   <<GroupRow(c), "share">> >>]

Request(t) == Statements[t][next[t]]
Locking(t) == pc[t] = "locking" /\ next[t] <= Len(Statements[t])

\* t waits for a lock that o holds in a conflicting mode.
WaitsFor(t, o) ==
    /\ t # o
    /\ Locking(t)
    /\ \E l \in held[o] : l[1] = Request(t)[1] /\ Conflict(l[2], Request(t)[2])

\* A cycle of transactions that wait for each other: each for another one of S,
\* and no part of S for itself.
WaitsForItself(S) == S # {} /\ \A t \in S : \E o \in S : WaitsFor(t, o)
Deadlocked(S) == WaitsForItself(S) /\ \A t \in S : ~\E R \in SUBSET (S \ {t}) : WaitsForItself(R)

-----------------------------------------------------------------------------
Init ==
    /\ db = EmptyDb
    /\ pc = [t \in Txns |-> "idle"]
    /\ next = [t \in Txns |-> 1]
    /\ held = [t \in Txns |-> {}]
    /\ seen = [t \in Txns |-> EmptyDb]
    /\ due = NoTotals
    /\ payments = [m \in Messages |-> 0]
    /\ faults = 0

\* Faulty: the session of a transaction that has ended is not closed.
EndHoldingLocks(t, where) ==
    /\ pc' = [pc EXCEPT ![t] = where]
    /\ next' = [next EXCEPT ![t] = 1]
    /\ seen' = [seen EXCEPT ![t] = EmptyDb]
    /\ UNCHANGED held

\* A transaction ends, releases its locks and forgets what it has read.
End(t, where) ==
    /\ pc' = [pc EXCEPT ![t] = where]
    /\ next' = [next EXCEPT ![t] = 1]
    /\ held' = [held EXCEPT ![t] = {}]
    /\ seen' = [seen EXCEPT ![t] = EmptyDb]

\* The row an adjustment changes, and whether the change would make it negative.
Adjusted(t, rows) == IF Job[t].chat = NoChat THEN rows.gxp[Job[t].user] ELSE rows.xp[MemberOf(t)]
Refused(t) ==
    \/ Job[t].kind = "reaction" /\ Job[t].msg \notin db.recorded
    \/ Job[t].kind = "adjust" /\ Adjusted(t, db) + Job[t].delta < 0

\* What t reads before it locks anything and computes with later.
FirstRead(t) ==
    CASE Job[t].kind = "message" -> EmptyDb
      [] Job[t].kind = "reaction" -> [EmptyDb EXCEPT !.received = db.received]
      [] OTHER -> [EmptyDb EXCEPT !.xp = db.xp, !.gxp = db.gxp]

Begin(t) ==
    /\ pc[t] = "idle"
    /\ IF Refused(t)
         THEN End(t, "done")
         ELSE /\ pc' = [pc EXCEPT ![t] = "locking"]
              /\ seen' = [seen EXCEPT ![t] = FirstRead(t)]
              /\ UNCHANGED <<next, held>>
    /\ UNCHANGED <<db, due, payments, faults>>

Lock(t) ==
    /\ Locking(t)
    /\ \A o \in Txns : ~WaitsFor(t, o)
    /\ held' = [held EXCEPT ![t] = @ \union {Request(t)}]
    /\ next' = [next EXCEPT ![t] = @ + 1]
    /\ UNCHANGED <<db, pc, seen, due, payments, faults>>

\* The rows are there already, so nothing is inserted and the group not locked.
SkipInsert(t) ==
    /\ Locking(t)
    /\ \/ Job[t].kind = "message" /\ next[t] = 3 /\ Job[t].msg \in db.recorded
       \/ Job[t].kind = "reaction" /\ next[t] = 2
    /\ next' = [next EXCEPT ![t] = @ + 1]
    /\ UNCHANGED <<db, pc, held, seen, due, payments, faults>>

\* All locks are held.  A message or reaction has read the rows it locked; only
\* reactions_received is still the value of the first reads.
ReadLocked(t) ==
    /\ pc[t] = "locking"
    /\ next[t] > Len(Statements[t])
    /\ pc' = [pc EXCEPT ![t] = "commit"]
    /\ seen' = IF LockingReader(t)
                 THEN [seen EXCEPT ![t] = [db EXCEPT !.received = seen[t].received]]
                 ELSE seen
    /\ UNCHANGED <<db, next, held, due, payments, faults>>

-----------------------------------------------------------------------------
(* _apply_xp: what is left of the caps, and the achievement it may unlock. *)

GroupAward(t, requested) ==
    Least(AtLeastZero(requested), AtLeastZero(GroupCap - seen[t].day[DayOf(t)]))

\* Faulty: the global cap is taken as the cap of what one message may bring.
GlobalAwardPerMessage(t, requested) == Least(GroupAward(t, requested), GlobalCap)

GlobalAward(t, requested) ==
    Least(GroupAward(t, requested), AtLeastZero(GlobalCap - seen[t].gday[GlobalDayOf(t)]))

\* The member's totals behind the award of t; rows are those it read, or those
\* of the ledger.
AwardTo(rows, t, group, global, reward) ==
    [rows EXCEPT !.xp[MemberOf(t)] = seen[t].xp[MemberOf(t)] + group + reward,
                 !.gxp[Job[t].user] = seen[t].gxp[Job[t].user] + global + reward,
                 !.day[DayOf(t)] = seen[t].day[DayOf(t)] + group,
                 !.gday[GlobalDayOf(t)] = seen[t].gday[GlobalDayOf(t)] + global]

AddTo(rows, t, group, global, reward) ==
    [rows EXCEPT !.xp[MemberOf(t)] = @ + group + reward,
                 !.gxp[Job[t].user] = @ + global + reward,
                 !.day[DayOf(t)] = @ + group,
                 !.gday[GlobalDayOf(t)] = @ + global]

ApplyXp(t, requested, rows) ==
    \E reward \in (IF MemberOf(t) \in seen[t].unlocked THEN {0} ELSE {0, Reward}) :
       LET group == GroupAward(t, requested)
           global == GlobalAward(t, requested) IN
       /\ db' = [AwardTo(rows, t, group, global, reward) EXCEPT
                   !.unlocked = IF reward > 0 THEN @ \union {MemberOf(t)} ELSE @,
                   !.paid = IF Job[t].kind = "message"
                              THEN [@ EXCEPT ![Job[t].msg] = group] ELSE @]
       /\ due' = AddTo(due, t, group, global, reward)
       /\ payments' = IF Job[t].kind = "message" /\ group > 0
                        THEN [payments EXCEPT ![Job[t].msg] = @ + 1] ELSE payments

\* Faulty: a message that has been given XP is given XP again.
CommitMessageAgain(t) ==
    /\ pc[t] = "commit" /\ Job[t].kind = "message"
    /\ \E r \in Requests :
          ApplyXp(t, r, [db EXCEPT !.recorded = @ \union {Job[t].msg}])
    /\ End(t, "done")
    /\ UNCHANGED faults

CommitMessage(t) ==
    /\ pc[t] = "commit" /\ Job[t].kind = "message"
    /\ LET rows == [db EXCEPT !.recorded = @ \union {Job[t].msg}] IN
       \/ /\ seen[t].paid[Job[t].msg] > 0
          /\ db' = rows
          /\ UNCHANGED <<due, payments>>
       \/ /\ seen[t].paid[Job[t].msg] = 0
          /\ \E r \in Requests : ApplyXp(t, r, rows)
    /\ End(t, "done")
    /\ UNCHANGED faults

CommitReaction(t) ==
    /\ pc[t] = "commit" /\ Job[t].kind = "reaction"
    /\ LET m == Job[t].msg
           count == AtLeastZero(seen[t].reactions[m] + Job[t].delta)
           gained == count - seen[t].reactions[m]
           rows == [db EXCEPT
                      !.reactions[m] = count,
                      !.received[MemberOf(t)] = AtLeastZero(seen[t].received[MemberOf(t)]
                                                              + Job[t].delta)] IN
       IF gained > 0 THEN ApplyXp(t, ReactionXp * gained, rows)
                     ELSE db' = rows /\ UNCHANGED <<due, payments>>
    /\ End(t, "done")
    /\ UNCHANGED faults

\* _apply_achievement_rewards over the members read in Begin.
CommitWeekly(t) ==
    /\ pc[t] = "commit" /\ Job[t].kind = "weekly"
    /\ LET earners == {Job[t].earners[i] : i \in DOMAIN Job[t].earners}
           earned == {<<Job[t].chat, u>> : u \in earners} IN
       /\ db' = [db EXCEPT
                   !.xp = [k \in Members |-> IF k \in earned THEN seen[t].xp[k] + Reward ELSE @[k]],
                   !.gxp = [u \in Users |-> IF u \in earners THEN seen[t].gxp[u] + Reward ELSE @[u]]]
       /\ due' = [due EXCEPT
                   !.xp = [k \in Members |-> IF k \in earned THEN @[k] + Reward ELSE @[k]],
                   !.gxp = [u \in Users |-> IF u \in earners THEN @[u] + Reward ELSE @[u]]]
    /\ End(t, "done")
    /\ UNCHANGED <<payments, faults>>

\* adjust_xp.
CommitAdjust(t) ==
    /\ pc[t] = "commit" /\ Job[t].kind = "adjust"
    /\ LET result == Adjusted(t, seen[t]) + Job[t].delta IN
       IF Job[t].chat = NoChat
         THEN /\ db' = [db EXCEPT !.gxp[Job[t].user] = result]
              /\ due' = [due EXCEPT !.gxp[Job[t].user] = @ + Job[t].delta]
         ELSE /\ db' = [db EXCEPT !.xp[MemberOf(t)] = result]
              /\ due' = [due EXCEPT !.xp[MemberOf(t)] = @ + Job[t].delta]
    /\ End(t, "done")
    /\ UNCHANGED <<payments, faults>>

-----------------------------------------------------------------------------
\* The update of a message or a reaction that was rolled back is delivered again;
\* a weekly report drops its rewards and an administrator is told of the error.
RollBack(t) == End(t, IF LockingReader(t) THEN "idle" ELSE "done")

\* PostgreSQL rolls a transaction back that has waited and is part of a deadlock.
DeadlockDetected(t) ==
    /\ \E o \in Txns : WaitsFor(t, o)
    /\ \E S \in SUBSET Txns : t \in S /\ Deadlocked(S)
    /\ RollBack(t)
    /\ UNCHANGED <<db, due, payments, faults>>

\* A lost connection or a dying instance.
TransactionFails(t) ==
    /\ pc[t] \in {"locking", "commit"}
    /\ faults < MaxFaults
    /\ faults' = faults + 1
    /\ RollBack(t)
    /\ UNCHANGED <<db, due, payments>>

\* The handler fails behind the commit, as when Telegram refuses the
\* announcement it sends, and the whole update is delivered again.
DeliveredAgain(t) ==
    /\ pc[t] = "done"
    /\ LockingReader(t)
    /\ faults < MaxFaults
    /\ faults' = faults + 1
    /\ pc' = [pc EXCEPT ![t] = "idle"]
    /\ UNCHANGED <<db, next, held, seen, due, payments>>

Commit(t) == CommitMessage(t) \/ CommitReaction(t) \/ CommitWeekly(t) \/ CommitAdjust(t)
Advance(t) == Lock(t) \/ SkipInsert(t)

Next ==
    \E t \in Txns :
       \/ Begin(t) \/ Advance(t) \/ ReadLocked(t) \/ Commit(t)
       \/ DeadlockDetected(t) \/ TransactionFails(t) \/ DeliveredAgain(t)

Spec == Init /\ [][Next]_vars

-----------------------------------------------------------------------------
(* Properties. *)

\* Every variable has its type, and only a running transaction holds locks and
\* remembers rows.
TypeOK ==
    /\ db \in Database
    /\ pc \in [Txns -> {"idle", "locking", "commit", "done"}]
    /\ next \in [Txns -> Nat \ {0}]
    /\ DOMAIN held = Txns
    /\ \A t \in Txns : held[t] \subseteq {Statements[t][i] : i \in DOMAIN Statements[t]}
    /\ seen \in [Txns -> Database]
    /\ due \in Totals
    /\ payments \in [Messages -> Nat]
    /\ faults \in 0..MaxFaults
    /\ \A t \in Txns : pc[t] \in {"idle", "done"} =>
          held[t] = {} /\ next[t] = 1 /\ seen[t] = EmptyDb

\* What all transactions together add to a day, whichever way they overlap, fail
\* and are delivered again, never exceeds the cap of a member's day in a group
\* nor the cap of a user's day over all groups.
CapsHold ==
    /\ \A k \in Members \X Days : due.day[k] <= GroupCap
    /\ \A k \in Users \X Days : due.gday[k] <= GlobalCap

\* A message gives XP at most once, however often its update is delivered.
PaidOnce == \A m \in Messages : payments[m] <= 1

\* No total of a member or a user misses an increment, as long as only
\* transactions that lock what they read have written it.
LockedWritersLoseNothing ==
    (\A t \in Txns : ~LockingReader(t) => pc[t] = "idle")
        => db.xp = due.xp /\ db.gxp = due.gxp /\ db.day = due.day /\ db.gday = due.gday

\* A message or a reaction never undoes what another transaction has written to
\* the totals it writes: its commit moves them by what it awards.
AwardsAreIncrements ==
    [][\A t \in Txns : LockingReader(t) /\ pc[t] = "commit" /\ pc'[t] = "done" =>
          /\ \A k \in Members : db'.xp[k] - db.xp[k] = due'.xp[k] - due.xp[k]
          /\ \A u \in Users : db'.gxp[u] - db.gxp[u] = due'.gxp[u] - due.gxp[u]]_vars

\* docs/superpowers/specs/2026-07-26-chatpulse-architecture-2-0-design.md:118
\* without that condition: parallel awards do not lose increments.
NoIncrementLost == db.xp = due.xp /\ db.gxp = due.gxp

\* Line 99 of the same design locks the rows in one order, so that no two
\* transactions can wait for each other.
NoDeadlock == \A S \in SUBSET Txns : ~Deadlocked(S)
=============================================================================
