---------------------------- MODULE Achievements ----------------------------
(***************************************************************************)
(* The achievements of one user and the XP they pay: record_events         *)
(* (app/repositories/achievements.py) within the transaction of a message  *)
(* or reaction, within the weekly evaluation of a group                    *)
(* (gamification_v2.py), and within the backfill                           *)
(* (app/services/achievement_backfill.py); and the reset of a group, which *)
(* deletes the rows of MemberAchievement but not the unlocks.              *)
(*                                                                         *)
(* Each is one transaction, and sees what others have committed by the     *)
(* time of a statement.  Inserting an identity another has inserted and    *)
(* not committed waits for its end.  A message holds the row of the user   *)
(* FOR UPDATE; an insert shares that row by its foreign key, so that the   *)
(* two exclude each other.                                                 *)
(*                                                                         *)
(* An identity is a scope key and a code; which thresholds a snapshot      *)
(* reaches is left open.                                                   *)
(***************************************************************************)
EXTENDS Naturals, FiniteSets, Sequences, SequencesExt

CONSTANTS
    Transactions,
    Chats,              \* the groups, in the order of their ids
    LiveCodes,          \* codes of the catalog by trigger: of messages and reactions,
    RankingCodes,       \* ranking_calculated,
    WeeklyCodes,        \* weekly_report_created
    GlobalCodes,        \* the codes of scope "global"
    Global,             \* the scope key of those
    MaxStarted            \* bound: transactions

Groups == ToSet(Chats)
Codes == ToSet(LiveCodes) \union ToSet(RankingCodes) \union ToSet(WeeklyCodes)
Identity(g, c) == IF c \in GlobalCodes THEN <<Global, c>> ELSE <<g, c>>
Identities == {Identity(g, c) : g \in Groups, c \in Codes}
GroupIdentities == {i \in Identities : i[1] # Global}

ASSUME AchievementAssumption ==
    /\ Chats \in Seq(Groups) /\ Groups # {} /\ Global \notin Groups
    /\ Cardinality(Codes) = Len(LiveCodes) + Len(RankingCodes) + Len(WeeklyCodes)
    /\ MaxStarted \in Nat

VARIABLES
    members,            \* the groups in which the user has a row of GroupMember
    unlocks,            \* identities in achievement_unlocks
    legacy,             \* identities in member_achievements
    events,             \* identities with an event "unlock"
    summary,            \* how many events "collection_update" are unseen
    tx,                 \* the open transactions
    started,              \* transactions so far
    paid                \* history: how often an identity was paid for

achievementVars == <<members, unlocks, legacy, events, summary, tx, started, paid>>

\* todo: the identities to insert; written, rows: those inserted into either table;
\* left: the groups the backfill has not recalculated.
Transaction == [kind : {"none", "live", "weekly", "backfill"}, chat : Groups,
                at : {"record", "import"}, todo : SUBSET Identities,
                written : SUBSET Identities, rows : SUBSET GroupIdentities, left : SUBSET Groups]
NoTransaction == [kind |-> "none", chat |-> CHOOSE g \in Groups : TRUE, at |-> "record",
                  todo |-> {}, written |-> {}, rows |-> {}, left |-> {}]

AchievementTypeOK ==
    /\ members \subseteq Groups
    /\ unlocks \subseteq Identities /\ legacy \subseteq GroupIdentities
    /\ events \subseteq Identities
    /\ summary \in Nat
    /\ tx \in [Transactions -> Transaction]
    /\ \A t \in Transactions : tx[t].kind = "none" => tx[t] = NoTransaction
    /\ started \in 0..MaxStarted
    /\ paid \in [Identities -> Nat]

\* Achievements from before there were identities have a row in member_achievements only.
AchievementInit ==
    /\ members = Groups
    /\ legacy \in {{}} \union {{i} : i \in GroupIdentities}
    /\ unlocks = {} /\ events = {}
    /\ summary = 0
    /\ tx = [t \in Transactions |-> NoTransaction]
    /\ started = 0
    /\ paid = [i \in Identities |-> 0]

Open(kind) == {t \in Transactions : tx[t].kind = kind}

\* The order in which the events of a transaction are evaluated.
Order(kind) ==
    CASE kind = "live" -> LiveCodes
      [] kind = "weekly" -> WeeklyCodes \o RankingCodes
      [] kind = "backfill" -> LiveCodes \o RankingCodes \o WeeklyCodes

\* existing_codes of record_events: a code counts in either table.
Existing(t, g) ==
    {c \in Codes : \/ Identity(g, c) \in unlocks \union tx[t].written
                   \/ <<g, c>> \in legacy \union tx[t].rows}

\* evaluate_event, for all events: the codes reached that are not there yet.
Evaluate(t, g, reached) == {Identity(g, c) : c \in reached \ Existing(t, g)}

\* x comes before all others of S in s.
IsFirst(x, S, s) == \E n \in DOMAIN s : s[n] = x /\ \A m \in 1..(n - 1) : s[m] \notin S

-----------------------------------------------------------------------------

Begin(t, transaction) ==
    /\ tx[t].kind = "none"
    /\ started < MaxStarted
    /\ started' = started + 1
    /\ tx' = [tx EXCEPT ![t] = transaction]

\* _award_new_achievements: the row of the user is locked, the member is there.
BeginLive(t, g) ==
    /\ Open("live") = {}
    /\ \A o \in Transactions : tx[o].written = {}
    /\ \E reached \in SUBSET ToSet(LiveCodes) :
          Begin(t, [NoTransaction EXCEPT !.kind = "live", !.chat = g,
                                         !.todo = Evaluate(t, g, reached)])
    /\ members' = members \union {g}
    /\ UNCHANGED <<unlocks, legacy, events, summary, paid>>

\* evaluate_weekly_achievements
BeginWeekly(t, g) ==
    /\ g \in members
    /\ \E reached \in SUBSET (ToSet(WeeklyCodes) \union ToSet(RankingCodes)) :
          Begin(t, [NoTransaction EXCEPT !.kind = "weekly", !.chat = g,
                                         !.todo = Evaluate(t, g, reached)])
    /\ UNCHANGED <<members, unlocks, legacy, events, summary, paid>>

\* run, and _import_legacy_unlocks: the rows that have no unlock yet.
BeginBackfill(t) ==
    /\ Begin(t, [NoTransaction EXCEPT !.kind = "backfill", !.at = "import",
                                      !.todo = legacy \ unlocks, !.left = members])
    /\ UNCHANGED <<members, unlocks, legacy, events, summary, paid>>

\* The identity that t is to insert next: events are evaluated in their order, and the
\* import follows earned_at, which is not modelled.
Upcoming(t, i) ==
    /\ i \in tx[t].todo
    /\ tx[t].at = "record" =>
          \E c \in Codes : /\ i = Identity(tx[t].chat, c)
                          /\ IsFirst(c, {d \in Codes : Identity(tx[t].chat, d) \in tx[t].todo},
                                     Order(tx[t].kind))

\* An insert waits for the same row of another, and for the row of the user.
InsertWaits(t, i) ==
    \/ \E o \in Transactions \ {t} : i \in tx[o].written
    \/ Open("live") \notin {{}, {t}}

Inserted(t, i) == [tx[t] EXCEPT !.todo = @ \ {i}, !.written = @ \union {i}]
WithRow(t, i) == [Inserted(t, i) EXCEPT !.rows = @ \union ({i} \intersect (GroupIdentities \ legacy))]

\* Faulty: what another has inserted meanwhile counts as earned all the same.
RecordAnyway(t, i) == WithRow(t, i)

\* One identity in a savepoint: on a conflict with what is there it is passed over.
Record(t, i) == IF i \in unlocks THEN [tx[t] EXCEPT !.todo = @ \ {i}] ELSE WithRow(t, i)

RecordNext(t, i) ==
    /\ tx[t].at = "record" /\ Upcoming(t, i)
    /\ ~InsertWaits(t, i)
    /\ tx' = [tx EXCEPT ![t] = Record(t, i)]
    /\ UNCHANGED <<members, unlocks, legacy, events, summary, started, paid>>

\* The import has no savepoints: a conflict ends the backfill, see Rollback.
ImportNext(t, i) ==
    /\ tx[t].at = "import" /\ Upcoming(t, i)
    /\ ~InsertWaits(t, i)
    /\ i \notin unlocks
    /\ tx' = [tx EXCEPT ![t] = Inserted(t, i)]
    /\ UNCHANGED <<members, unlocks, legacy, events, summary, started, paid>>

\* _recalculate_members, for the next group.
Recalculate(t, g) ==
    /\ tx[t].todo = {} /\ g \in tx[t].left /\ IsFirst(g, tx[t].left, Chats)
    /\ \E reached \in SUBSET Codes :
          tx' = [tx EXCEPT ![t] = [tx[t] EXCEPT !.at = "record", !.chat = g, !.left = @ \ {g},
                                                !.todo = Evaluate(t, g, reached)]]
    /\ UNCHANGED <<members, unlocks, legacy, events, summary, started, paid>>

\* Faulty: everything is celebrated.
CelebrateAll(t) == tx[t].written

\* Which unlocks are celebrated: the backfill says create_events=False.
NewEvents(t) == IF tx[t].kind = "backfill" THEN {} ELSE tx[t].written

\* A reward in the group is written to the row of the member that was read.
MemberGone(t) ==
    /\ tx[t].kind = "weekly" /\ tx[t].chat \notin members
    /\ tx[t].written \intersect GroupIdentities # {}

\* _apply_achievement_rewards or _create_summary_events, and the commit.
CommitUnlocks(t) ==
    /\ tx[t].kind # "none" /\ tx[t].todo = {} /\ tx[t].left = {}
    /\ ~MemberGone(t)
    /\ unlocks' = unlocks \union tx[t].written
    /\ legacy' = legacy \union tx[t].rows
    /\ events' = events \union NewEvents(t)
    /\ summary' = IF tx[t].kind = "backfill" /\ tx[t].written # {} /\ summary = 0 THEN 1 ELSE summary
    /\ paid' = IF tx[t].kind = "backfill" THEN paid
               ELSE [i \in Identities |-> paid[i] + IF i \in tx[t].written THEN 1 ELSE 0]
    /\ tx' = [tx EXCEPT ![t] = NoTransaction]
    /\ UNCHANGED <<members, started>>

\* The process dies, a statement fails, or two wait for each other and PostgreSQL
\* chooses one: the weekly evaluation and the backfill insert in opposite orders.
Rollback(t) ==
    /\ tx[t].kind # "none"
    /\ tx' = [tx EXCEPT ![t] = NoTransaction]
    /\ UNCHANGED <<members, unlocks, legacy, events, summary, started, paid>>

\* reset_group: the rows of the members wait for a message that has locked one.
ResetGroup(g) ==
    /\ g \in members
    /\ \A t \in Open("live") : tx[t].chat # g
    /\ members' = members \ {g}
    /\ legacy' = {i \in legacy : i[1] # g}
    /\ UNCHANGED <<unlocks, events, summary, tx, started, paid>>

\* mark_seen, for the summary
MarkSeen ==
    /\ summary > 0
    /\ summary' = summary - 1
    /\ UNCHANGED <<members, unlocks, legacy, events, tx, started, paid>>

AchievementNext ==
    \/ \E t \in Transactions :
          \/ \E g \in Groups : BeginLive(t, g) \/ BeginWeekly(t, g) \/ Recalculate(t, g)
          \/ BeginBackfill(t)
          \/ \E i \in Identities : RecordNext(t, i) \/ ImportNext(t, i)
          \/ CommitUnlocks(t) \/ Rollback(t)
    \/ \E g \in Groups : ResetGroup(g)
    \/ MarkSeen

AchievementSpec == AchievementInit /\ [][AchievementNext]_achievementVars

-----------------------------------------------------------------------------
(* Properties. *)

\* The reward of an achievement is paid once for its identity, however the message,
\* two weekly evaluations and the backfill overlap and whatever a reset deletes in
\* between, and only for one that is recorded (achievements.py:112).
PaidOnce == \A i \in Identities : paid[i] <= 1 /\ (paid[i] = 1 => i \in unlocks)

\* The Mini App celebrates the unlocks that paid, one by one, and no others: those of
\* the backfill come in a summary (achievement_backfill.py:165).
CelebratedIffPaid == \A i \in Identities : (i \in events) = (paid[i] > 0)

\* Both: each reward is given once and celebrated once.
UnlocksSettled == PaidOnce /\ CelebratedIffPaid

=============================================================================
