-------------------------- MODULE XpTransactionsProofs -------------------------
(***************************************************************************)
(* Theorems of XpTransactions, for any sets of chats, users, messages and  *)
(* days, any finite or infinite set of transactions with any jobs, and any *)
(* caps.                                                                   *)
(*                                                                         *)
(* The argument is that of two-phase locking.  No two transactions hold    *)
(* conflicting locks (Exclusion) and a transaction that is ready to commit *)
(* has every lock its statements ask for (LocksTaken), so the rows a       *)
(* message or a reaction has read are still the committed ones when it     *)
(* writes them (ReadsCurrent).                                             *)
(***************************************************************************)
EXTENDS XpTransactions, TLAPS

\* The statement whose row may be there already.
Skippable(t) ==
    CASE Job[t].kind = "message" -> {3} [] Job[t].kind = "reaction" -> {2} [] OTHER -> {}

LocksTaken ==
    \A t \in Txns :
       /\ pc[t] \in {"locking", "commit"} =>
             \A i \in 1..Len(Statements[t]) :
                i < next[t] /\ i \notin Skippable(t) => Statements[t][i] \in held[t]
       /\ pc[t] = "commit" => next[t] > Len(Statements[t])

Exclusion ==
    \A t, o \in Txns : t # o =>
       \A l \in held[t], k \in held[o] : l[1] = k[1] => ~Conflict(l[2], k[2])

\* The transactions that may award XP to the member they are for.
Awarding(t) ==
    \/ Job[t].kind = "message"
    \/ Job[t].kind = "reaction" /\ Job[t].delta > 0

ReadsCurrent ==
    \A t \in Txns : pc[t] = "commit" /\ Awarding(t) =>
       /\ seen[t].xp[MemberOf(t)] = db.xp[MemberOf(t)]
       /\ seen[t].gxp[Job[t].user] = db.gxp[Job[t].user]
       /\ seen[t].day[DayOf(t)] = db.day[DayOf(t)]
       /\ seen[t].gday[GlobalDayOf(t)] = db.gday[GlobalDayOf(t)]
       /\ seen[t].paid[Job[t].msg] = db.paid[Job[t].msg]

\* The days of the database are those of the ledger, and a message that has been
\* given XP has it on record.
DaysRecorded ==
    /\ db.day = due.day
    /\ db.gday = due.gday
    /\ \A m \in Messages : payments[m] > 0 => db.paid[m] > 0

IInv ==
    /\ TypeOK
    /\ LocksTaken
    /\ Exclusion
    /\ ReadsCurrent
    /\ DaysRecorded
    /\ CapsHold
    /\ PaidOnce
    /\ LockedWritersLoseNothing

-----------------------------------------------------------------------------
(* The statements of each kind of transaction. *)

LEMMA JobTyped ==
    ASSUME NEW t \in Txns
    PROVE  /\ Job[t].kind \in Kinds
           /\ Job[t].chat \in Chats \union {NoChat}
           /\ Job[t].kind # "adjust" => Job[t].chat \in Chats
           /\ Job[t].user \in Users
           /\ Job[t].msg \in Messages
           /\ Job[t].day \in Days
           /\ Job[t].gday \in Days
           /\ Job[t].delta \in Int
           /\ Job[t].earners \in Seq(Users)
BY XpAssumption DEF JobType

\* The locks that the award of a message or a reaction stands on.
LEMMA AwardLocks ==
    ASSUME NEW t \in Txns, Awarding(t)
    PROVE  /\ Len(Statements[t]) = 7
           /\ Skippable(t) \subseteq {2, 3}
           /\ Statements[t][5] = <<UserRow(Job[t].user), "exclusive">>
           /\ Statements[t][6] = <<MemberRow(Job[t].chat, Job[t].user), "exclusive">>
           /\ Statements[t][7] = <<MessageRow(Job[t].msg), "exclusive">>
<1>1. CASE Job[t].kind = "message"
  BY <1>1 DEF Statements, LockXpContext, Skippable
<1>2. CASE Job[t].kind = "reaction" /\ Job[t].delta > 0
  BY <1>2 DEF Statements, LockXpContext, Skippable
<1>. QED  BY <1>1, <1>2 DEF Awarding

\* The locks of the rows a weekly report writes.
LEMMA WeeklyLocks ==
    ASSUME NEW t \in Txns, Job[t].kind = "weekly", NEW n \in DOMAIN Job[t].earners
    PROVE  /\ Skippable(t) = {}
           /\ 4 * n - 1 \in 1..Len(Statements[t])
           /\ 4 * n \in 1..Len(Statements[t])
           /\ Statements[t][4 * n - 1]
                = <<MemberRow(Job[t].chat, Job[t].earners[n]), "update">>
           /\ Statements[t][4 * n] = <<UserRow(Job[t].earners[n]), "update">>
<1>1. Len(Job[t].earners) \in Nat /\ n \in 1..Len(Job[t].earners)
  BY JobTyped
<1>2. Statements[t] = [i \in 1..4 * Len(Job[t].earners) |->
              LET e == Job[t].earners[(i + 3) \div 4] IN
              CASE i % 4 = 1 -> <<GroupRow(Job[t].chat), "share">>
                [] i % 4 = 2 -> <<UserRow(e), "share">>
                [] i % 4 = 3 -> <<MemberRow(Job[t].chat, e), "update">>
                [] OTHER -> <<UserRow(e), "update">>]
  BY DEF Statements
<1>3. Len(Statements[t]) = 4 * Len(Job[t].earners)
  BY <1>1, <1>2
<1>4. 4 * n - 1 \in 1..4 * Len(Job[t].earners) /\ 4 * n \in 1..4 * Len(Job[t].earners)
  BY <1>1
<1>5. (4 * n - 1) % 4 = 3 /\ (4 * n - 1 + 3) \div 4 = n
  BY <1>1
<1>6. (4 * n) % 4 = 0
  BY <1>1
<1>7. (4 * n + 3) \div 4 = n
  BY <1>1
<1>8. Statements[t][4 * n - 1] = <<MemberRow(Job[t].chat, Job[t].earners[n]), "update">>
  BY <1>2, <1>4, <1>5
<1>9. Statements[t][4 * n] = <<UserRow(Job[t].earners[n]), "update">>
  BY <1>2, <1>4, <1>6, <1>7
<1>10. Skippable(t) = {}
  BY DEF Skippable
<1>. QED  BY <1>3, <1>4, <1>8, <1>9, <1>10

\* The lock of the row an adjustment writes.
LEMMA AdjustLocks ==
    ASSUME NEW t \in Txns, Job[t].kind = "adjust"
    PROVE  /\ Skippable(t) = {}
           /\ Len(Statements[t]) \in Nat \ {0}
           /\ Statements[t][1] = IF Job[t].chat = NoChat
                                   THEN <<UserRow(Job[t].user), "update">>
                                   ELSE <<MemberRow(Job[t].chat, Job[t].user), "update">>
<1>1. Statements[t] = IF Job[t].chat = NoChat
        THEN << <<UserRow(Job[t].user), "update">> >>
        ELSE << <<MemberRow(Job[t].chat, Job[t].user), "update">>,
                <<UserRow(Job[t].user), "share">>, <<GroupRow(Job[t].chat), "share">> >>
  BY DEF Statements
<1>. QED  BY <1>1 DEF Skippable

-----------------------------------------------------------------------------
(* Types. *)

LEMMA EmptyTyped == EmptyDb \in Database /\ NoTotals \in Totals
BY DEF EmptyDb, Database, NoTotals, Totals

LEMMA KeysTyped ==
    ASSUME NEW t \in Txns
    PROVE  /\ Job[t].user \in Users
           /\ Job[t].kind # "adjust" \/ Job[t].chat # NoChat =>
                 MemberOf(t) \in Members /\ DayOf(t) \in Members \X Days
           /\ GlobalDayOf(t) \in Users \X Days
BY JobTyped DEF MemberOf, DayOf, GlobalDayOf, Members

LEMMA AwardTyped ==
    ASSUME NEW t \in Txns, LockingReader(t), seen[t] \in Database, NEW requested \in Int
    PROVE  GroupAward(t, requested) \in Nat /\ GlobalAward(t, requested) \in Nat
<1>1. seen[t].day[DayOf(t)] \in Nat /\ seen[t].gday[GlobalDayOf(t)] \in Nat
  BY KeysTyped DEF LockingReader, Database
<1>2. GroupCap \in Nat /\ GlobalCap \in Nat
  BY XpAssumption
<1>3. GroupAward(t, requested) \in Nat
  BY <1>1, <1>2 DEF GroupAward, Least, AtLeastZero
<1>. QED  BY <1>1, <1>2, <1>3 DEF GlobalAward, Least, AtLeastZero

LEMMA AwardToTyped ==
    ASSUME NEW t \in Txns, LockingReader(t), seen[t] \in Database, due \in Totals,
           NEW rows \in Database, NEW group \in Nat, NEW global \in Nat, NEW reward \in Nat
    PROVE  /\ AwardTo(rows, t, group, global, reward) \in Database
           /\ AddTo(due, t, group, global, reward) \in Totals
<1>1. /\ Job[t].user \in Users /\ MemberOf(t) \in Members
      /\ DayOf(t) \in Members \X Days /\ GlobalDayOf(t) \in Users \X Days
  BY KeysTyped DEF LockingReader
<1>2. /\ seen[t].xp[MemberOf(t)] + group + reward \in Int
      /\ seen[t].gxp[Job[t].user] + global + reward \in Int
      /\ seen[t].day[DayOf(t)] + group \in Nat
      /\ seen[t].gday[GlobalDayOf(t)] + global \in Nat
  BY <1>1 DEF Database
<1>3. /\ due.xp[MemberOf(t)] + group + reward \in Int
      /\ due.gxp[Job[t].user] + global + reward \in Int
      /\ due.day[DayOf(t)] + group \in Nat
      /\ due.gday[GlobalDayOf(t)] + global \in Nat
  BY <1>1 DEF Totals
<1>4. AwardTo(rows, t, group, global, reward) \in Database
  <2>. DEFINE xp == [rows.xp EXCEPT ![MemberOf(t)] = seen[t].xp[MemberOf(t)] + group + reward]
              gxp == [rows.gxp EXCEPT ![Job[t].user] = seen[t].gxp[Job[t].user] + global + reward]
              day == [rows.day EXCEPT ![DayOf(t)] = seen[t].day[DayOf(t)] + group]
              gday == [rows.gday EXCEPT ![GlobalDayOf(t)] = seen[t].gday[GlobalDayOf(t)] + global]
  <2>1. AwardTo(rows, t, group, global, reward) =
          [rows EXCEPT !.xp = xp, !.gxp = gxp, !.day = day, !.gday = gday]
    BY DEF AwardTo, Database
  <2>2. xp \in [Members -> Int] /\ gxp \in [Users -> Int]
    BY <1>2 DEF Database
  <2>3. day \in [Members \X Days -> Nat] /\ gday \in [Users \X Days -> Nat]
    BY <1>2 DEF Database
  <2>. HIDE DEF xp, gxp, day, gday
  <2>. QED  BY <2>1, <2>2, <2>3 DEF Database
<1>5. AddTo(due, t, group, global, reward) \in Totals
  <2>. DEFINE xp == [due.xp EXCEPT ![MemberOf(t)] = due.xp[MemberOf(t)] + group + reward]
              gxp == [due.gxp EXCEPT ![Job[t].user] = due.gxp[Job[t].user] + global + reward]
              day == [due.day EXCEPT ![DayOf(t)] = due.day[DayOf(t)] + group]
              gday == [due.gday EXCEPT ![GlobalDayOf(t)] = due.gday[GlobalDayOf(t)] + global]
  <2>1. AddTo(due, t, group, global, reward) =
          [due EXCEPT !.xp = xp, !.gxp = gxp, !.day = day, !.gday = gday]
    BY <1>1 DEF AddTo, Totals
  <2>2. xp \in [Members -> Int] /\ gxp \in [Users -> Int]
    BY <1>3 DEF Totals
  <2>3. day \in [Members \X Days -> Nat] /\ gday \in [Users \X Days -> Nat]
    BY <1>3 DEF Totals
  <2>. HIDE DEF xp, gxp, day, gday
  <2>. QED  BY <2>1, <2>2, <2>3 DEF Totals
<1>. QED  BY <1>4, <1>5

LEMMA ApplyTyped ==
    ASSUME TypeOK, NEW t \in Txns, LockingReader(t), NEW requested \in Int,
           NEW rows \in Database, ApplyXp(t, requested, rows)
    PROVE  db' \in Database /\ due' \in Totals /\ payments' \in [Messages -> Nat]
<1>. DEFINE group == GroupAward(t, requested)
            global == GlobalAward(t, requested)
<1>1. PICK reward \in {0, Reward} :
        /\ db' = [AwardTo(rows, t, group, global, reward) EXCEPT
                    !.unlocked = IF reward > 0 THEN @ \union {MemberOf(t)} ELSE @,
                    !.paid = IF Job[t].kind = "message"
                               THEN [@ EXCEPT ![Job[t].msg] = group] ELSE @]
        /\ due' = AddTo(due, t, group, global, reward)
        /\ payments' = IF Job[t].kind = "message" /\ group > 0
                         THEN [payments EXCEPT ![Job[t].msg] = @ + 1] ELSE payments
  BY DEF ApplyXp
<1>2. group \in Nat /\ global \in Nat /\ reward \in Nat
  BY AwardTyped, XpAssumption DEF TypeOK
<1>. HIDE DEF group, global
<1>3. /\ AwardTo(rows, t, group, global, reward) \in Database
      /\ AddTo(due, t, group, global, reward) \in Totals
  BY <1>2, AwardToTyped DEF TypeOK
<1>4. MemberOf(t) \in Members /\ Job[t].msg \in Messages
  BY KeysTyped, JobTyped DEF LockingReader
<1>5. db' \in Database
  BY <1>1, <1>2, <1>3, <1>4 DEF Database
<1>. QED  BY <1>1, <1>2, <1>3, <1>4, <1>5 DEF TypeOK

\* The part of TypeOK that is about the progress of the transactions.
ControlTyped ==
    /\ pc \in [Txns -> {"idle", "locking", "commit", "done"}]
    /\ next \in [Txns -> Nat \ {0}]
    /\ DOMAIN held = Txns
    /\ \A t \in Txns : held[t] \subseteq {Statements[t][i] : i \in DOMAIN Statements[t]}
    /\ seen \in [Txns -> Database]
    /\ \A t \in Txns : pc[t] \in {"idle", "done"} =>
          held[t] = {} /\ next[t] = 1 /\ seen[t] = EmptyDb

LEMMA EndTyped ==
    ASSUME ControlTyped, NEW t \in Txns, NEW where \in {"idle", "done"}, End(t, where)
    PROVE  ControlTyped'
BY EmptyTyped DEF ControlTyped, End

LEMMA RollBackEnds ==
    ASSUME NEW t, RollBack(t)
    PROVE  \E where \in {"idle", "done"} : End(t, where)
BY DEF RollBack

LEMMA TypeInit == Init => TypeOK
BY EmptyTyped, XpAssumption DEF Init, TypeOK, Totals

LEMMA TypeStep == TypeOK /\ [Next]_vars => TypeOK'
<1>. SUFFICES ASSUME TypeOK, [Next]_vars PROVE TypeOK'
  OBVIOUS
<1>0. ControlTyped /\ db \in Database /\ due \in Totals /\ payments \in [Messages -> Nat]
      /\ faults \in 0..MaxFaults
  BY DEF TypeOK, ControlTyped
<1>1. ASSUME NEW t \in Txns, Begin(t) PROVE ControlTyped'
  <2>1. FirstRead(t) \in Database
    BY <1>0, EmptyTyped, JobTyped DEF FirstRead, Database, Kinds
  <2>2. CASE End(t, "done")
    BY <1>0, <2>2, EndTyped
  <2>3. CASE /\ pc' = [pc EXCEPT ![t] = "locking"]
             /\ seen' = [seen EXCEPT ![t] = FirstRead(t)]
             /\ UNCHANGED <<next, held>>
    BY <1>0, <2>1, <2>3 DEF ControlTyped
  <2>. QED  BY <1>1, <2>2, <2>3 DEF Begin
<1>2. ASSUME NEW t \in Txns, Lock(t) PROVE ControlTyped'
  <2>1. next[t] \in DOMAIN Statements[t]
    BY <1>0, <1>2 DEF Lock, Locking, ControlTyped
  <2>. QED  BY <1>0, <1>2, <2>1 DEF Lock, Locking, Request, ControlTyped
<1>3. ASSUME NEW t \in Txns, SkipInsert(t) PROVE ControlTyped'
  BY <1>0, <1>3 DEF SkipInsert, Locking, ControlTyped
<1>4. ASSUME NEW t \in Txns, ReadLocked(t) PROVE ControlTyped'
  <2>1. [db EXCEPT !.received = seen[t].received] \in Database
    BY <1>0 DEF ControlTyped, Database
  <2>. QED  BY <1>0, <1>4, <2>1 DEF ReadLocked, ControlTyped
<1>5. ASSUME NEW t \in Txns, CommitMessage(t) PROVE TypeOK'
  <2>. DEFINE rows == [db EXCEPT !.recorded = @ \union {Job[t].msg}]
  <2>1. rows \in Database
    BY <1>0, JobTyped DEF Database
  <2>. HIDE DEF rows
  <2>2. LockingReader(t)
    BY <1>5 DEF CommitMessage, LockingReader
  <2>3. CASE db' = rows /\ UNCHANGED <<due, payments>>
    BY <1>0, <1>5, <2>1, <2>3, EndTyped DEF CommitMessage, TypeOK, ControlTyped
  <2>4. ASSUME NEW r \in Requests, ApplyXp(t, r, rows) PROVE TypeOK'
    <3>1. db' \in Database /\ due' \in Totals /\ payments' \in [Messages -> Nat]
      BY <2>1, <2>2, <2>4, ApplyTyped, XpAssumption
    <3>. QED  BY <1>0, <1>5, <3>1, EndTyped DEF CommitMessage, TypeOK, ControlTyped
  <2>. QED  BY <1>5, <2>3, <2>4 DEF CommitMessage, rows
<1>6. ASSUME NEW t \in Txns, CommitReaction(t) PROVE TypeOK'
  <2>. DEFINE count == AtLeastZero(seen[t].reactions[Job[t].msg] + Job[t].delta)
              gained == count - seen[t].reactions[Job[t].msg]
              received == AtLeastZero(seen[t].received[MemberOf(t)] + Job[t].delta)
              rows == [db EXCEPT !.reactions[Job[t].msg] = count,
                                 !.received[MemberOf(t)] = received]
  <2>1. LockingReader(t) /\ seen[t] \in Database /\ Job[t].msg \in Messages
        /\ MemberOf(t) \in Members
    BY <1>0, <1>6, JobTyped, KeysTyped DEF CommitReaction, LockingReader, ControlTyped
  <2>2. count \in Nat /\ received \in Nat /\ gained \in Int
    BY <2>1, JobTyped DEF Database, AtLeastZero
  <2>3. rows \in Database
    <3>. HIDE DEF count, received
    <3>. QED  BY <1>0, <2>1, <2>2 DEF Database
  <2>4. IF gained > 0 THEN ApplyXp(t, ReactionXp * gained, rows)
                      ELSE db' = rows /\ UNCHANGED <<due, payments>>
    BY <1>6 DEF CommitReaction
  <2>. HIDE DEF rows, gained
  <2>5. db' \in Database /\ due' \in Totals /\ payments' \in [Messages -> Nat]
    <3>1. CASE gained > 0
      <4>1. ReactionXp * gained \in Int
        BY <2>2, XpAssumption
      <4>. QED  BY <2>1, <2>3, <2>4, <3>1, <4>1, ApplyTyped
    <3>2. CASE ~(gained > 0)
      BY <1>0, <2>3, <2>4, <3>2
    <3>. QED  BY <3>1, <3>2
  <2>. QED  BY <1>0, <1>6, <2>5, EndTyped DEF CommitReaction, TypeOK, ControlTyped
<1>7. ASSUME NEW t \in Txns, CommitWeekly(t) PROVE TypeOK'
  <2>. DEFINE earners == {Job[t].earners[i] : i \in DOMAIN Job[t].earners}
              earned == {<<Job[t].chat, u>> : u \in earners}
              xp == [k \in Members |-> IF k \in earned THEN seen[t].xp[k] + Reward ELSE db.xp[k]]
              gxp == [u \in Users |-> IF u \in earners THEN seen[t].gxp[u] + Reward ELSE db.gxp[u]]
              dxp == [k \in Members |-> IF k \in earned THEN due.xp[k] + Reward ELSE due.xp[k]]
              dgxp == [u \in Users |-> IF u \in earners THEN due.gxp[u] + Reward ELSE due.gxp[u]]
  <2>1. seen[t] \in Database /\ Reward \in Int
    BY <1>0, XpAssumption DEF ControlTyped
  <2>2. xp \in [Members -> Int] /\ gxp \in [Users -> Int]
    BY <1>0, <2>1 DEF Database
  <2>3. dxp \in [Members -> Int] /\ dgxp \in [Users -> Int]
    BY <1>0, <2>1 DEF Totals
  <2>4. db' = [db EXCEPT !.xp = xp, !.gxp = gxp] /\ due' = [due EXCEPT !.xp = dxp, !.gxp = dgxp]
    BY <1>0, <1>7 DEF CommitWeekly, Database, Totals
  <2>. HIDE DEF xp, gxp, dxp, dgxp
  <2>5. db' \in Database /\ due' \in Totals
    BY <1>0, <2>2, <2>3, <2>4 DEF Database, Totals
  <2>. QED  BY <1>0, <1>7, <2>5, EndTyped DEF CommitWeekly, TypeOK, ControlTyped
<1>8. ASSUME NEW t \in Txns, CommitAdjust(t) PROVE TypeOK'
  <2>. DEFINE result == Adjusted(t, seen[t]) + Job[t].delta
  <2>1. seen[t] \in Database /\ Job[t].delta \in Int /\ Job[t].user \in Users
    BY <1>0, JobTyped DEF ControlTyped
  <2>2. CASE Job[t].chat = NoChat
    <3>1. result \in Int
      BY <2>1, <2>2 DEF Adjusted, Database
    <3>2. db' = [db EXCEPT !.gxp[Job[t].user] = result]
          /\ due' = [due EXCEPT !.gxp[Job[t].user] = @ + Job[t].delta]
      BY <1>8, <2>2 DEF CommitAdjust
    <3>. HIDE DEF result
    <3>3. due.gxp[Job[t].user] + Job[t].delta \in Int
      BY <1>0, <2>1 DEF Totals
    <3>4. db' \in Database
      BY <1>0, <2>1, <3>1, <3>2 DEF Database
    <3>5. due' \in Totals
      BY <1>0, <2>1, <3>2, <3>3 DEF Totals
    <3>. QED  BY <1>0, <1>8, <3>4, <3>5, EndTyped DEF CommitAdjust, TypeOK, ControlTyped
  <2>3. CASE Job[t].chat # NoChat
    <3>0. MemberOf(t) \in Members
      BY <2>3, KeysTyped
    <3>1. result \in Int
      BY <2>1, <2>3, <3>0 DEF Adjusted, Database
    <3>2. db' = [db EXCEPT !.xp[MemberOf(t)] = result]
          /\ due' = [due EXCEPT !.xp[MemberOf(t)] = @ + Job[t].delta]
      BY <1>8, <2>3 DEF CommitAdjust
    <3>. HIDE DEF result
    <3>3. due.xp[MemberOf(t)] + Job[t].delta \in Int
      BY <1>0, <2>1, <3>0 DEF Totals
    <3>4. db' \in Database
      BY <1>0, <2>1, <3>0, <3>1, <3>2 DEF Database
    <3>5. due' \in Totals
      BY <1>0, <2>1, <3>0, <3>2, <3>3 DEF Totals
    <3>. QED  BY <1>0, <1>8, <3>4, <3>5, EndTyped DEF CommitAdjust, TypeOK, ControlTyped
  <2>. QED  BY <2>2, <2>3
<1>9. ASSUME NEW t \in Txns, DeadlockDetected(t) PROVE TypeOK'
  BY <1>0, <1>9, RollBackEnds, EndTyped DEF DeadlockDetected, TypeOK, ControlTyped
<1>10. ASSUME NEW t \in Txns, TransactionFails(t) PROVE TypeOK'
  <2>1. ControlTyped' /\ faults' \in 0..MaxFaults
    BY <1>0, <1>10, RollBackEnds, EndTyped, XpAssumption DEF TransactionFails
  <2>. QED  BY <1>0, <1>10, <2>1 DEF TransactionFails, TypeOK, ControlTyped
<1>11. ASSUME NEW t \in Txns, DeliveredAgain(t) PROVE TypeOK'
  BY <1>0, <1>11, XpAssumption DEF DeliveredAgain, TypeOK, ControlTyped
<1>12. CASE UNCHANGED vars
  BY <1>12 DEF vars, TypeOK
<1>. QED
  BY <1>1, <1>2, <1>3, <1>4, <1>5, <1>6, <1>7, <1>8, <1>9, <1>10, <1>11, <1>12
     DEF Next, Advance, Commit, Begin, Lock, SkipInsert, ReadLocked, TypeOK, ControlTyped

\* Every variable keeps its type, and a transaction that is not running holds no
\* lock and remembers no row.
THEOREM TypeCorrect == Spec => []TypeOK
BY TypeInit, TypeStep, PTL DEF Spec

-----------------------------------------------------------------------------
(* Locks. *)

LEMMA ConflictSymmetric ==
    ASSUME NEW a, NEW b, Conflict(a, b)
    PROVE  Conflict(b, a)
<1>1. {a, b} = {b, a}
  OBVIOUS
<1>. QED  BY <1>1 DEF Conflict

LEMMA EndLocks ==
    ASSUME TypeOK, LocksTaken, Exclusion, NEW t \in Txns, NEW where \in {"idle", "done"},
           End(t, where)
    PROVE  LocksTaken' /\ Exclusion'
<1>1. LocksTaken'
  BY DEF LocksTaken, End, TypeOK, Skippable
<1>2. Exclusion'
  BY DEF Exclusion, End, TypeOK
<1>. QED  BY <1>1, <1>2

LEMMA LockStep ==
    ASSUME TypeOK, LocksTaken, Exclusion, [Next]_vars
    PROVE  LocksTaken' /\ Exclusion'
<1>1. ASSUME NEW t \in Txns, Begin(t) PROVE LocksTaken' /\ Exclusion'
  <2>1. CASE End(t, "done")
    BY <2>1, EndLocks
  <2>2. CASE pc' = [pc EXCEPT ![t] = "locking"] /\ UNCHANGED <<next, held>>
    <3>1. next[t] = 1
      BY <1>1 DEF Begin, TypeOK
    <3>2. LocksTaken'
      BY <2>2, <3>1 DEF LocksTaken, TypeOK, Skippable
    <3>3. Exclusion'
      BY <2>2 DEF Exclusion
    <3>. QED  BY <3>2, <3>3
  <2>. QED  BY <1>1, <2>1, <2>2 DEF Begin
<1>2. ASSUME NEW t \in Txns, Lock(t) PROVE LocksTaken' /\ Exclusion'
  <2>1. LocksTaken'
    <3>. SUFFICES ASSUME NEW o \in Txns
                  PROVE  /\ pc'[o] \in {"locking", "commit"} =>
                               \A i \in 1..Len(Statements[o]) :
                                  i < next'[o] /\ i \notin Skippable(o)
                                     => Statements[o][i] \in held'[o]
                         /\ pc'[o] = "commit" => next'[o] > Len(Statements[o])
      BY DEF LocksTaken, Skippable
    <3>1. CASE o # t
      BY <1>2, <3>1 DEF Lock, LocksTaken, TypeOK
    <3>2. CASE o = t
      <4>1. /\ pc'[t] = "locking" /\ pc[t] = "locking"
            /\ next'[t] = next[t] + 1
            /\ held'[t] = held[t] \union {Statements[t][next[t]]}
        BY <1>2 DEF Lock, Locking, Request, TypeOK
      <4>2. next[t] \in Nat
        BY DEF TypeOK
      <4>. QED  BY <3>2, <4>1, <4>2 DEF LocksTaken
    <3>. QED  BY <3>1, <3>2
  <2>2. Exclusion'
    <3>. SUFFICES ASSUME NEW o \in Txns, NEW p \in Txns, o # p,
                         NEW l \in held'[o], NEW k \in held'[p], l[1] = k[1],
                         Conflict(l[2], k[2])
                  PROVE  FALSE
      BY DEF Exclusion
    <3>1. held' = [held EXCEPT ![t] = @ \union {Request(t)}]
      BY <1>2 DEF Lock
    <3>2. ASSUME NEW q \in Txns, q # t, NEW m \in held[q],
                 m[1] = Request(t)[1], Conflict(m[2], Request(t)[2])
          PROVE  FALSE
      BY <1>2, <3>2 DEF Lock, WaitsFor
    <3>3. CASE o = t /\ l = Request(t)
      BY <3>1, <3>2, <3>3, ConflictSymmetric DEF TypeOK
    <3>4. CASE p = t /\ k = Request(t)
      BY <3>1, <3>2, <3>4 DEF TypeOK
    <3>5. CASE l \in held[o] /\ k \in held[p]
      BY <3>5 DEF Exclusion
    <3>. QED  BY <3>1, <3>3, <3>4, <3>5 DEF TypeOK
  <2>. QED  BY <2>1, <2>2
<1>3. ASSUME NEW t \in Txns, SkipInsert(t) PROVE LocksTaken' /\ Exclusion'
  <2>1. next[t] \in Skippable(t)
    BY <1>3 DEF SkipInsert, Skippable
  <2>2. LocksTaken'
    <3>. SUFFICES ASSUME NEW o \in Txns
                  PROVE  /\ pc'[o] \in {"locking", "commit"} =>
                               \A i \in 1..Len(Statements[o]) :
                                  i < next'[o] /\ i \notin Skippable(o)
                                     => Statements[o][i] \in held'[o]
                         /\ pc'[o] = "commit" => next'[o] > Len(Statements[o])
      BY DEF LocksTaken, Skippable
    <3>1. CASE o # t
      BY <1>3, <3>1 DEF SkipInsert, LocksTaken, TypeOK
    <3>2. CASE o = t
      <4>1. pc'[t] = "locking" /\ pc[t] = "locking" /\ next'[t] = next[t] + 1 /\ held' = held
        BY <1>3 DEF SkipInsert, Locking, TypeOK
      <4>2. next[t] \in Nat
        BY DEF TypeOK
      <4>. QED  BY <2>1, <3>2, <4>1, <4>2 DEF LocksTaken
    <3>. QED  BY <3>1, <3>2
  <2>3. Exclusion'
    BY <1>3 DEF SkipInsert, Exclusion
  <2>. QED  BY <2>2, <2>3
<1>4. ASSUME NEW t \in Txns, ReadLocked(t) PROVE LocksTaken' /\ Exclusion'
  <2>1. LocksTaken'
    BY <1>4 DEF ReadLocked, LocksTaken, TypeOK, Skippable
  <2>2. Exclusion'
    BY <1>4 DEF ReadLocked, Exclusion
  <2>. QED  BY <2>1, <2>2
<1>5. ASSUME NEW t \in Txns, Commit(t) PROVE LocksTaken' /\ Exclusion'
  <2>1. End(t, "done")
    BY <1>5 DEF Commit, CommitMessage, CommitReaction, CommitWeekly, CommitAdjust
  <2>. QED  BY <2>1, EndLocks
<1>6. ASSUME NEW t \in Txns, DeadlockDetected(t) \/ TransactionFails(t)
      PROVE  LocksTaken' /\ Exclusion'
  BY <1>6, RollBackEnds, EndLocks DEF DeadlockDetected, TransactionFails
<1>7. ASSUME NEW t \in Txns, DeliveredAgain(t) PROVE LocksTaken' /\ Exclusion'
  <2>1. LocksTaken'
    BY <1>7 DEF DeliveredAgain, LocksTaken, TypeOK, Skippable
  <2>2. Exclusion'
    BY <1>7 DEF DeliveredAgain, Exclusion
  <2>. QED  BY <2>1, <2>2
<1>8. CASE UNCHANGED vars
  BY <1>8 DEF vars, LocksTaken, Exclusion, Skippable
<1>. QED
  BY <1>1, <1>2, <1>3, <1>4, <1>5, <1>6, <1>7, <1>8 DEF Next, Advance

\* An award is computed under exclusive locks of the rows it reads.
LEMMA AwardHolds ==
    ASSUME TypeOK, LocksTaken, NEW t \in Txns, pc[t] = "commit", Awarding(t)
    PROVE  /\ <<UserRow(Job[t].user), "exclusive">> \in held[t]
           /\ <<MemberRow(Job[t].chat, Job[t].user), "exclusive">> \in held[t]
           /\ <<MessageRow(Job[t].msg), "exclusive">> \in held[t]
<1>1. next[t] > 7 /\ next[t] \in Nat
  BY AwardLocks DEF LocksTaken, TypeOK
<1>2. \A i \in {5, 6, 7} : Statements[t][i] \in held[t]
  <2>1. \A i \in {5, 6, 7} : i \in 1..Len(Statements[t]) /\ i < next[t]
    BY <1>1, AwardLocks
  <2>2. \A i \in {5, 6, 7} : i \notin Skippable(t)
    BY AwardLocks
  <2>. QED  BY <2>1, <2>2 DEF LocksTaken
<1>. QED  BY <1>2, AwardLocks

\* Nobody else holds a lock of a row that is locked exclusively.
LEMMA Exclusive ==
    ASSUME Exclusion, NEW t \in Txns, NEW o \in Txns, t # o, NEW r, NEW mode,
           <<r, "exclusive">> \in held[t], <<r, mode>> \in held[o]
    PROVE  FALSE
<1>1. <<r, "exclusive">>[1] = <<r, mode>>[1]
  OBVIOUS
<1>2. ~Conflict("exclusive", mode)
  BY <1>1 DEF Exclusion
<1>3. {"exclusive", mode} \notin {{"share"}, {"share", "update"}}
  OBVIOUS
<1>. QED  BY <1>2, <1>3 DEF Conflict

\* Two awards that are ready to commit at the same time are for two users and two
\* messages.
LEMMA AwardsApart ==
    ASSUME TypeOK, LocksTaken, Exclusion, NEW t \in Txns, NEW o \in Txns, t # o,
           pc[t] = "commit", Awarding(t), pc[o] = "commit", Awarding(o)
    PROVE  Job[t].user # Job[o].user /\ Job[t].msg # Job[o].msg
BY AwardHolds, Exclusive

\* The same of an award and a weekly report.
LEMMA WeeklyApart ==
    ASSUME TypeOK, LocksTaken, Exclusion, NEW t \in Txns, NEW o \in Txns, t # o,
           pc[t] = "commit", Awarding(t), pc[o] = "commit", Job[o].kind = "weekly",
           NEW n \in DOMAIN Job[o].earners
    PROVE  Job[t].user # Job[o].earners[n]
<1>1. next[o] > Len(Statements[o]) /\ next[o] \in Nat
  BY DEF LocksTaken, TypeOK
<1>2. Len(Job[o].earners) \in Nat /\ n \in Nat
  BY JobTyped
<1>3. <<UserRow(Job[o].earners[n]), "update">> \in held[o]
  <2>1. 4 * n < next[o]
    BY <1>1, <1>2, WeeklyLocks
  <2>. QED  BY <2>1, WeeklyLocks DEF LocksTaken
<1>. QED  BY <1>3, AwardHolds, Exclusive

\* The same of an award and an adjustment.
LEMMA AdjustApart ==
    ASSUME TypeOK, LocksTaken, Exclusion, NEW t \in Txns, NEW o \in Txns, t # o,
           pc[t] = "commit", Awarding(t), pc[o] = "commit", Job[o].kind = "adjust"
    PROVE  IF Job[o].chat = NoChat THEN Job[t].user # Job[o].user
                                   ELSE MemberOf(t) # MemberOf(o)
<1>1. next[o] > Len(Statements[o]) /\ next[o] \in Nat
  BY DEF LocksTaken, TypeOK
<1>2. Skippable(o) = {} /\ Len(Statements[o]) \in Nat \ {0}
  BY AdjustLocks
<1>3. 1 \in 1..Len(Statements[o]) /\ 1 < next[o]
  BY <1>1, <1>2
<1>4. Statements[o][1] \in held[o]
  BY <1>2, <1>3 DEF LocksTaken
<1>5. CASE Job[o].chat = NoChat
  <2>1. <<UserRow(Job[o].user), "update">> \in held[o]
    BY <1>4, <1>5, AdjustLocks
  <2>2. Job[t].user # Job[o].user
    BY <2>1, AwardHolds, Exclusive
  <2>. QED  BY <1>5, <2>2
<1>6. CASE Job[o].chat # NoChat
  <2>1. <<MemberRow(Job[o].chat, Job[o].user), "update">> \in held[o]
    BY <1>4, <1>6, AdjustLocks
  <2>2. MemberOf(t) # MemberOf(o)
    <3>1. SUFFICES ASSUME MemberOf(t) = MemberOf(o) PROVE FALSE
      OBVIOUS
    <3>2. Job[t].chat = Job[o].chat /\ Job[t].user = Job[o].user
      BY <3>1 DEF MemberOf
    <3>. QED  BY <2>1, <3>2, AwardHolds, Exclusive
  <2>. QED  BY <1>6, <2>2
<1>. QED  BY <1>5, <1>6

-----------------------------------------------------------------------------
(* What a commit does to the totals. *)

\* The totals and the payments stay as they are.
NoAward ==
    /\ db'.xp = db.xp /\ db'.gxp = db.gxp /\ db'.day = db.day /\ db'.gday = db.gday
    /\ db'.paid = db.paid
    /\ UNCHANGED <<due, payments>>

\* t is awarded what is left of requested, and reward for an achievement.
Award(t, requested, reward) ==
    LET m == MemberOf(t) u == Job[t].user d == DayOf(t) g == GlobalDayOf(t)
        group == GroupAward(t, requested)
        global == GlobalAward(t, requested) IN
    /\ db'.xp = [db.xp EXCEPT ![m] = seen[t].xp[m] + group + reward]
    /\ db'.gxp = [db.gxp EXCEPT ![u] = seen[t].gxp[u] + global + reward]
    /\ db'.day = [db.day EXCEPT ![d] = seen[t].day[d] + group]
    /\ db'.gday = [db.gday EXCEPT ![g] = seen[t].gday[g] + global]
    /\ due'.xp = [due.xp EXCEPT ![m] = due.xp[m] + group + reward]
    /\ due'.gxp = [due.gxp EXCEPT ![u] = due.gxp[u] + global + reward]
    /\ due'.day = [due.day EXCEPT ![d] = due.day[d] + group]
    /\ due'.gday = [due.gday EXCEPT ![g] = due.gday[g] + global]
    /\ db'.paid = IF Job[t].kind = "message" THEN [db.paid EXCEPT ![Job[t].msg] = group]
                                             ELSE db.paid
    /\ payments' = IF Job[t].kind = "message" /\ group > 0
                     THEN [payments EXCEPT ![Job[t].msg] = payments[Job[t].msg] + 1]
                     ELSE payments

LEMMA ApplyAwards ==
    ASSUME TypeOK, NEW t \in Txns, LockingReader(t), NEW requested \in Int,
           NEW rows \in Database, ApplyXp(t, requested, rows),
           rows.xp = db.xp, rows.gxp = db.gxp, rows.day = db.day, rows.gday = db.gday,
           rows.paid = db.paid
    PROVE  \E reward \in Nat : Award(t, requested, reward)
<1>. DEFINE group == GroupAward(t, requested)
            global == GlobalAward(t, requested)
<1>1. PICK reward \in {0, Reward} :
        /\ db' = [AwardTo(rows, t, group, global, reward) EXCEPT
                    !.unlocked = IF reward > 0 THEN @ \union {MemberOf(t)} ELSE @,
                    !.paid = IF Job[t].kind = "message"
                               THEN [@ EXCEPT ![Job[t].msg] = group] ELSE @]
        /\ due' = AddTo(due, t, group, global, reward)
        /\ payments' = IF Job[t].kind = "message" /\ group > 0
                         THEN [payments EXCEPT ![Job[t].msg] = @ + 1] ELSE payments
  BY DEF ApplyXp
<1>2. reward \in Nat
  BY XpAssumption
<1>3. /\ MemberOf(t) \in Members /\ Job[t].user \in Users /\ Job[t].msg \in Messages
      /\ DayOf(t) \in Members \X Days /\ GlobalDayOf(t) \in Users \X Days
  BY KeysTyped, JobTyped DEF LockingReader
<1>. HIDE DEF group, global
<1>4. /\ db'.xp = [db.xp EXCEPT ![MemberOf(t)] = seen[t].xp[MemberOf(t)] + group + reward]
      /\ db'.gxp = [db.gxp EXCEPT ![Job[t].user] = seen[t].gxp[Job[t].user] + global + reward]
      /\ db'.day = [db.day EXCEPT ![DayOf(t)] = seen[t].day[DayOf(t)] + group]
      /\ db'.gday = [db.gday EXCEPT ![GlobalDayOf(t)] = seen[t].gday[GlobalDayOf(t)] + global]
  BY <1>1 DEF AwardTo, Database
<1>5. db'.paid = IF Job[t].kind = "message" THEN [db.paid EXCEPT ![Job[t].msg] = group]
                                            ELSE db.paid
  BY <1>1 DEF AwardTo, Database
<1>6. /\ due'.xp = [due.xp EXCEPT ![MemberOf(t)] = due.xp[MemberOf(t)] + group + reward]
      /\ due'.gxp = [due.gxp EXCEPT ![Job[t].user] = due.gxp[Job[t].user] + global + reward]
      /\ due'.day = [due.day EXCEPT ![DayOf(t)] = due.day[DayOf(t)] + group]
      /\ due'.gday = [due.gday EXCEPT ![GlobalDayOf(t)] = due.gday[GlobalDayOf(t)] + global]
  BY <1>1, <1>3 DEF AddTo, Totals, TypeOK
<1>7. payments' = IF Job[t].kind = "message" /\ group > 0
                    THEN [payments EXCEPT ![Job[t].msg] = payments[Job[t].msg] + 1]
                    ELSE payments
  BY <1>1, <1>3 DEF TypeOK
<1>8. Award(t, requested, reward)
  BY <1>4, <1>5, <1>6, <1>7 DEF Award, group, global
<1>. QED  BY <1>2, <1>8

LEMMA AwardEffect ==
    ASSUME TypeOK, NEW t \in Txns, CommitMessage(t) \/ CommitReaction(t)
    PROVE  \/ NoAward
           \/ /\ Awarding(t)
              /\ Job[t].kind = "message" => seen[t].paid[Job[t].msg] = 0
              /\ \E requested \in Int, reward \in Nat : Award(t, requested, reward)
<1>1. CASE CommitMessage(t)
  <2>. DEFINE rows == [db EXCEPT !.recorded = @ \union {Job[t].msg}]
  <2>1. /\ rows \in Database /\ rows.xp = db.xp /\ rows.gxp = db.gxp /\ rows.day = db.day
        /\ rows.gday = db.gday /\ rows.paid = db.paid
    BY JobTyped DEF TypeOK, Database
  <2>2. Awarding(t) /\ LockingReader(t)
    BY <1>1 DEF CommitMessage, Awarding, LockingReader
  <2>. HIDE DEF rows
  <2>3. CASE db' = rows /\ UNCHANGED <<due, payments>>
    BY <2>1, <2>3 DEF NoAward
  <2>4. ASSUME NEW r \in Requests, ApplyXp(t, r, rows), seen[t].paid[Job[t].msg] = 0
        PROVE  /\ Awarding(t)
               /\ Job[t].kind = "message" => seen[t].paid[Job[t].msg] = 0
               /\ \E requested \in Int, reward \in Nat : Award(t, requested, reward)
    <3>1. r \in Int
      BY XpAssumption
    <3>. QED  BY <2>1, <2>2, <2>4, <3>1, ApplyAwards
  <2>. QED  BY <1>1, <2>3, <2>4 DEF CommitMessage, rows
<1>2. CASE CommitReaction(t)
  <2>. DEFINE count == AtLeastZero(seen[t].reactions[Job[t].msg] + Job[t].delta)
              gained == count - seen[t].reactions[Job[t].msg]
              received == AtLeastZero(seen[t].received[MemberOf(t)] + Job[t].delta)
              rows == [db EXCEPT !.reactions[Job[t].msg] = count,
                                 !.received[MemberOf(t)] = received]
  <2>1. /\ LockingReader(t) /\ Job[t].kind = "reaction" /\ seen[t] \in Database
        /\ Job[t].msg \in Messages /\ MemberOf(t) \in Members /\ Job[t].delta \in Int
    BY <1>2, JobTyped, KeysTyped DEF CommitReaction, LockingReader, TypeOK
  <2>2. count \in Nat /\ received \in Nat /\ gained \in Int
    BY <2>1 DEF Database, AtLeastZero
  <2>3. gained > 0 => Job[t].delta > 0
    BY <2>1 DEF Database, AtLeastZero
  <2>4. rows \in Database
    <3>. HIDE DEF count, received
    <3>. QED  BY <2>1, <2>2 DEF TypeOK, Database
  <2>5. /\ rows.xp = db.xp /\ rows.gxp = db.gxp /\ rows.day = db.day
        /\ rows.gday = db.gday /\ rows.paid = db.paid
    <3>. HIDE DEF count, received
    <3>. QED  BY DEF TypeOK, Database
  <2>6. IF gained > 0 THEN ApplyXp(t, ReactionXp * gained, rows)
                      ELSE db' = rows /\ UNCHANGED <<due, payments>>
    BY <1>2 DEF CommitReaction
  <2>. HIDE DEF rows, gained
  <2>7. CASE gained > 0
    <3>1. ReactionXp * gained \in Int
      BY <2>2, XpAssumption
    <3>2. Awarding(t)
      BY <2>1, <2>3, <2>7 DEF Awarding
    <3>3. ApplyXp(t, ReactionXp * gained, rows)
      BY <2>6, <2>7
    <3>4. \E reward \in Nat : Award(t, ReactionXp * gained, reward)
      BY <2>1, <2>4, <2>5, <3>1, <3>3, ApplyAwards
    <3>. QED  BY <2>1, <3>1, <3>2, <3>4
  <2>8. CASE ~(gained > 0)
    BY <2>5, <2>6, <2>8 DEF NoAward
  <2>. QED  BY <2>7, <2>8
<1>. QED  BY <1>1, <1>2

LEMMA WeeklyEffect ==
    ASSUME TypeOK, NEW t \in Txns, CommitWeekly(t)
    PROVE  /\ \A k \in Members :
                 (\A n \in DOMAIN Job[t].earners : k # <<Job[t].chat, Job[t].earners[n]>>)
                    => db'.xp[k] = db.xp[k]
           /\ \A u \in Users :
                 (\A n \in DOMAIN Job[t].earners : u # Job[t].earners[n])
                    => db'.gxp[u] = db.gxp[u]
           /\ db'.day = db.day /\ db'.gday = db.gday /\ db'.paid = db.paid
           /\ due'.day = due.day /\ due'.gday = due.gday /\ payments' = payments
BY DEF CommitWeekly, TypeOK, Database, Totals

LEMMA AdjustEffect ==
    ASSUME TypeOK, NEW t \in Txns, CommitAdjust(t)
    PROVE  /\ \A k \in Members :
                 Job[t].chat = NoChat \/ k # MemberOf(t) => db'.xp[k] = db.xp[k]
           /\ \A u \in Users :
                 Job[t].chat # NoChat \/ u # Job[t].user => db'.gxp[u] = db.gxp[u]
           /\ db'.day = db.day /\ db'.gday = db.gday /\ db'.paid = db.paid
           /\ due'.day = due.day /\ due'.gday = due.gday /\ payments' = payments
<1>. DEFINE result == Adjusted(t, seen[t]) + Job[t].delta
<1>1. CASE Job[t].chat = NoChat
  <2>1. /\ db' = [db EXCEPT !.gxp[Job[t].user] = result]
        /\ due' = [due EXCEPT !.gxp[Job[t].user] = @ + Job[t].delta]
        /\ payments' = payments
    BY <1>1 DEF CommitAdjust
  <2>. HIDE DEF result
  <2>. QED  BY <1>1, <2>1 DEF TypeOK, Database, Totals
<1>2. CASE Job[t].chat # NoChat
  <2>1. /\ db' = [db EXCEPT !.xp[MemberOf(t)] = result]
        /\ due' = [due EXCEPT !.xp[MemberOf(t)] = @ + Job[t].delta]
        /\ payments' = payments
    BY <1>2 DEF CommitAdjust
  <2>. HIDE DEF result
  <2>. QED  BY <1>2, <2>1 DEF TypeOK, Database, Totals
<1>. QED  BY <1>1, <1>2

-----------------------------------------------------------------------------
(* Reads. *)

\* A commit leaves alone what another transaction's award has read.
LEMMA ReadsKept ==
    ASSUME TypeOK, LocksTaken, Exclusion, NEW t \in Txns, NEW o \in Txns, t # o,
           pc[t] = "commit", Awarding(t), Commit(o)
    PROVE  /\ db'.xp[MemberOf(t)] = db.xp[MemberOf(t)]
           /\ db'.gxp[Job[t].user] = db.gxp[Job[t].user]
           /\ db'.day[DayOf(t)] = db.day[DayOf(t)]
           /\ db'.gday[GlobalDayOf(t)] = db.gday[GlobalDayOf(t)]
           /\ db'.paid[Job[t].msg] = db.paid[Job[t].msg]
<1>1. /\ MemberOf(t) \in Members /\ Job[t].user \in Users
      /\ DayOf(t) \in Members \X Days /\ GlobalDayOf(t) \in Users \X Days
      /\ Job[t].msg \in Messages
  BY KeysTyped, JobTyped DEF Awarding
<1>2. CASE CommitMessage(o) \/ CommitReaction(o)
  <2>1. pc[o] = "commit"
    BY <1>2 DEF CommitMessage, CommitReaction
  <2>2. CASE NoAward
    BY <2>2 DEF NoAward
  <2>3. ASSUME Awarding(o), NEW requested \in Int, NEW reward \in Nat,
               Award(o, requested, reward)
        PROVE  /\ db'.xp[MemberOf(t)] = db.xp[MemberOf(t)]
               /\ db'.gxp[Job[t].user] = db.gxp[Job[t].user]
               /\ db'.day[DayOf(t)] = db.day[DayOf(t)]
               /\ db'.gday[GlobalDayOf(t)] = db.gday[GlobalDayOf(t)]
               /\ db'.paid[Job[t].msg] = db.paid[Job[t].msg]
    <3>1. Job[t].user # Job[o].user /\ Job[t].msg # Job[o].msg
      BY <2>1, <2>3, AwardsApart
    <3>2. MemberOf(t) # MemberOf(o) /\ DayOf(t) # DayOf(o) /\ GlobalDayOf(t) # GlobalDayOf(o)
      BY <3>1 DEF MemberOf, DayOf, GlobalDayOf
    <3>. DEFINE group == GroupAward(o, requested)
                global == GlobalAward(o, requested)
    <3>3. /\ db'.xp = [db.xp EXCEPT ![MemberOf(o)] = seen[o].xp[MemberOf(o)] + group + reward]
          /\ db'.gxp = [db.gxp EXCEPT ![Job[o].user] = seen[o].gxp[Job[o].user] + global + reward]
          /\ db'.day = [db.day EXCEPT ![DayOf(o)] = seen[o].day[DayOf(o)] + group]
          /\ db'.gday = [db.gday EXCEPT ![GlobalDayOf(o)] = seen[o].gday[GlobalDayOf(o)] + global]
          /\ db'.paid = IF Job[o].kind = "message" THEN [db.paid EXCEPT ![Job[o].msg] = group]
                                                   ELSE db.paid
      BY <2>3 DEF Award
    <3>. HIDE DEF group, global
    <3>. QED  BY <1>1, <3>1, <3>2, <3>3 DEF TypeOK, Database
  <2>. QED  BY <1>2, <2>2, <2>3, AwardEffect
<1>3. CASE CommitWeekly(o)
  <2>1. pc[o] = "commit" /\ Job[o].kind = "weekly"
    BY <1>3 DEF CommitWeekly
  <2>2. \A n \in DOMAIN Job[o].earners : Job[t].user # Job[o].earners[n]
    BY <2>1, WeeklyApart
  <2>3. \A n \in DOMAIN Job[o].earners : MemberOf(t) # <<Job[o].chat, Job[o].earners[n]>>
    BY <2>2 DEF MemberOf
  <2>. QED  BY <1>1, <1>3, <2>2, <2>3, WeeklyEffect
<1>4. CASE CommitAdjust(o)
  <2>1. pc[o] = "commit" /\ Job[o].kind = "adjust"
    BY <1>4 DEF CommitAdjust
  <2>2. /\ Job[o].chat = NoChat => Job[t].user # Job[o].user
        /\ Job[o].chat # NoChat => MemberOf(t) # MemberOf(o)
    BY <2>1, AdjustApart
  <2>. QED  BY <1>1, <1>4, <2>2, AdjustEffect
<1>. QED  BY <1>2, <1>3, <1>4 DEF Commit

\* A step other than ReadLocked makes nobody ready to commit.
LEMMA ReadsStep ==
    ASSUME TypeOK, LocksTaken, Exclusion, ReadsCurrent, [Next]_vars
    PROVE  ReadsCurrent'
<1>. DEFINE Reads(t) ==
              /\ seen[t].xp[MemberOf(t)] = db.xp[MemberOf(t)]
              /\ seen[t].gxp[Job[t].user] = db.gxp[Job[t].user]
              /\ seen[t].day[DayOf(t)] = db.day[DayOf(t)]
              /\ seen[t].gday[GlobalDayOf(t)] = db.gday[GlobalDayOf(t)]
              /\ seen[t].paid[Job[t].msg] = db.paid[Job[t].msg]
<1>. SUFFICES ASSUME NEW t \in Txns, pc'[t] = "commit", Awarding(t)
              PROVE  Reads(t)'
  BY DEF ReadsCurrent, Awarding, MemberOf, DayOf, GlobalDayOf
<1>0. pc[t] = "commit" => Reads(t)
  BY DEF ReadsCurrent
<1>1. ASSUME NEW o \in Txns, ReadLocked(o) PROVE Reads(t)'
  <2>1. CASE o = t
    <3>1. seen'[t] = [db EXCEPT !.received = seen[t].received] /\ db' = db
      BY <1>1, <2>1 DEF ReadLocked, LockingReader, Awarding, TypeOK
    <3>. QED  BY <3>1 DEF TypeOK, Database, MemberOf, DayOf, GlobalDayOf
  <2>2. CASE o # t
    <3>1. pc[t] = "commit" /\ seen'[t] = seen[t] /\ db' = db
      BY <1>1, <2>2 DEF ReadLocked, TypeOK
    <3>. QED  BY <1>0, <3>1 DEF MemberOf, DayOf, GlobalDayOf
  <2>. QED  BY <2>1, <2>2
<1>2. ASSUME NEW o \in Txns, Commit(o) PROVE Reads(t)'
  <2>1. End(o, "done")
    BY <1>2 DEF Commit, CommitMessage, CommitReaction, CommitWeekly, CommitAdjust
  <2>2. o # t /\ pc[t] = "commit" /\ seen'[t] = seen[t]
    BY <2>1 DEF End, TypeOK
  <2>. QED  BY <1>0, <1>2, <2>2, ReadsKept DEF MemberOf, DayOf, GlobalDayOf
<1>3. ASSUME NEW o \in Txns, \E where \in {"idle", "done"} : End(o, where), db' = db
      PROVE  Reads(t)'
  <2>1. o # t /\ pc[t] = "commit" /\ seen'[t] = seen[t]
    BY <1>3 DEF End, TypeOK
  <2>. QED  BY <1>0, <1>3, <2>1 DEF MemberOf, DayOf, GlobalDayOf
<1>4. ASSUME NEW o \in Txns, Begin(o) PROVE Reads(t)'
  <2>1. CASE End(o, "done")
    BY <1>3, <1>4, <2>1 DEF Begin
  <2>2. CASE /\ pc' = [pc EXCEPT ![o] = "locking"]
             /\ seen' = [seen EXCEPT ![o] = FirstRead(o)]
    <3>1. pc[t] = "commit" /\ seen'[t] = seen[t] /\ db' = db
      BY <1>4, <2>2 DEF Begin, TypeOK
    <3>. QED  BY <1>0, <3>1 DEF MemberOf, DayOf, GlobalDayOf
  <2>. QED  BY <1>4, <2>1, <2>2 DEF Begin
<1>5. ASSUME NEW o \in Txns, DeadlockDetected(o) \/ TransactionFails(o) PROVE Reads(t)'
  BY <1>3, <1>5, RollBackEnds DEF DeadlockDetected, TransactionFails
<1>6. ASSUME NEW o \in Txns, Advance(o) \/ DeliveredAgain(o) \/ UNCHANGED vars
      PROVE  Reads(t)'
  <2>1. pc[t] = "commit" /\ seen'[t] = seen[t] /\ db' = db
    BY <1>6 DEF Advance, Lock, SkipInsert, DeliveredAgain, vars, TypeOK
  <2>. QED  BY <1>0, <2>1 DEF MemberOf, DayOf, GlobalDayOf
<1>. QED  BY <1>1, <1>2, <1>4, <1>5, <1>6 DEF Next

-----------------------------------------------------------------------------
(* Writes. *)

\* The committed totals and those of the ledger move by the same award, within
\* the caps of the day.
Increment(t, group, global, reward) ==
    /\ group <= AtLeastZero(GroupCap - db.day[DayOf(t)])
    /\ global <= AtLeastZero(GlobalCap - db.gday[GlobalDayOf(t)])
    /\ db'.xp = [db.xp EXCEPT ![MemberOf(t)] = db.xp[MemberOf(t)] + group + reward]
    /\ db'.gxp = [db.gxp EXCEPT ![Job[t].user] = db.gxp[Job[t].user] + global + reward]
    /\ db'.day = [db.day EXCEPT ![DayOf(t)] = db.day[DayOf(t)] + group]
    /\ db'.gday = [db.gday EXCEPT ![GlobalDayOf(t)] = db.gday[GlobalDayOf(t)] + global]
    /\ due'.xp = [due.xp EXCEPT ![MemberOf(t)] = due.xp[MemberOf(t)] + group + reward]
    /\ due'.gxp = [due.gxp EXCEPT ![Job[t].user] = due.gxp[Job[t].user] + global + reward]
    /\ due'.day = [due.day EXCEPT ![DayOf(t)] = due.day[DayOf(t)] + group]
    /\ due'.gday = [due.gday EXCEPT ![GlobalDayOf(t)] = due.gday[GlobalDayOf(t)] + global]

LEMMA AwardIsIncrement ==
    ASSUME TypeOK, ReadsCurrent, NEW t \in Txns, pc[t] = "commit", Awarding(t),
           NEW requested \in Int, NEW reward \in Nat, Award(t, requested, reward)
    PROVE  /\ GroupAward(t, requested) \in Nat /\ GlobalAward(t, requested) \in Nat
           /\ Increment(t, GroupAward(t, requested), GlobalAward(t, requested), reward)
<1>. DEFINE group == GroupAward(t, requested)
            global == GlobalAward(t, requested)
<1>1. LockingReader(t) /\ seen[t] \in Database
  BY DEF Awarding, LockingReader, TypeOK
<1>2. group \in Nat /\ global \in Nat
  BY <1>1, AwardTyped
<1>3. /\ seen[t].xp[MemberOf(t)] = db.xp[MemberOf(t)]
      /\ seen[t].gxp[Job[t].user] = db.gxp[Job[t].user]
      /\ seen[t].day[DayOf(t)] = db.day[DayOf(t)]
      /\ seen[t].gday[GlobalDayOf(t)] = db.gday[GlobalDayOf(t)]
  BY DEF ReadsCurrent
<1>4. seen[t].day[DayOf(t)] \in Nat /\ seen[t].gday[GlobalDayOf(t)] \in Nat
  BY <1>1, KeysTyped DEF LockingReader, Database
<1>5. GroupCap \in Nat /\ GlobalCap \in Nat
  BY XpAssumption
<1>6. group <= AtLeastZero(GroupCap - db.day[DayOf(t)])
  BY <1>3, <1>4, <1>5 DEF GroupAward, Least, AtLeastZero
<1>7. global <= AtLeastZero(GlobalCap - db.gday[GlobalDayOf(t)])
  <2>. HIDE DEF group
  <2>1. global = Least(group, AtLeastZero(GlobalCap - seen[t].gday[GlobalDayOf(t)]))
    BY DEF GlobalAward, group
  <2>2. group \in Nat
    BY <1>2
  <2>. QED  BY <1>3, <1>4, <1>5, <2>1, <2>2 DEF Least, AtLeastZero
<1>. HIDE DEF group, global
<1>8. /\ db'.xp = [db.xp EXCEPT ![MemberOf(t)] = seen[t].xp[MemberOf(t)] + group + reward]
      /\ db'.gxp = [db.gxp EXCEPT ![Job[t].user] = seen[t].gxp[Job[t].user] + global + reward]
      /\ db'.day = [db.day EXCEPT ![DayOf(t)] = seen[t].day[DayOf(t)] + group]
      /\ db'.gday = [db.gday EXCEPT ![GlobalDayOf(t)] = seen[t].gday[GlobalDayOf(t)] + global]
      /\ due'.xp = [due.xp EXCEPT ![MemberOf(t)] = due.xp[MemberOf(t)] + group + reward]
      /\ due'.gxp = [due.gxp EXCEPT ![Job[t].user] = due.gxp[Job[t].user] + global + reward]
      /\ due'.day = [due.day EXCEPT ![DayOf(t)] = due.day[DayOf(t)] + group]
      /\ due'.gday = [due.gday EXCEPT ![GlobalDayOf(t)] = due.gday[GlobalDayOf(t)] + global]
  BY DEF Award, group, global
<1>9. Increment(t, group, global, reward)
  BY <1>3, <1>6, <1>7, <1>8 DEF Increment
<1>. QED  BY <1>2, <1>9 DEF group, global

LEMMA DaysStep ==
    ASSUME TypeOK, ReadsCurrent, DaysRecorded, CapsHold, PaidOnce, [Next]_vars
    PROVE  DaysRecorded' /\ CapsHold' /\ PaidOnce'
<1>1. ASSUME NEW t \in Txns, CommitMessage(t) \/ CommitReaction(t)
      PROVE  DaysRecorded' /\ CapsHold' /\ PaidOnce'
  <2>1. CASE NoAward
    BY <2>1 DEF NoAward, DaysRecorded, CapsHold, PaidOnce
  <2>2. ASSUME Awarding(t), Job[t].kind = "message" => seen[t].paid[Job[t].msg] = 0,
               NEW requested \in Int, NEW reward \in Nat, Award(t, requested, reward)
        PROVE  DaysRecorded' /\ CapsHold' /\ PaidOnce'
    <3>1. pc[t] = "commit"
      BY <1>1 DEF CommitMessage, CommitReaction
    <3>. DEFINE group == GroupAward(t, requested)
                global == GlobalAward(t, requested)
    <3>2. group \in Nat /\ global \in Nat /\ Increment(t, group, global, reward)
      BY <2>2, <3>1, AwardIsIncrement
    <3>paid. Job[t].kind = "message" =>
             /\ db'.paid = [db.paid EXCEPT ![Job[t].msg] = group]
             /\ payments' = IF group > 0
                              THEN [payments EXCEPT ![Job[t].msg] = payments[Job[t].msg] + 1]
                              ELSE payments
      BY <2>2 DEF Award
    <3>. HIDE DEF group, global
    <3>3. /\ DayOf(t) \in Members \X Days /\ GlobalDayOf(t) \in Users \X Days
          /\ Job[t].msg \in Messages
      BY <2>2, KeysTyped, JobTyped DEF Awarding
    <3>4. /\ db.day = due.day /\ db.gday = due.gday
          /\ due.day \in [Members \X Days -> Nat] /\ due.gday \in [Users \X Days -> Nat]
      BY DEF DaysRecorded, TypeOK, Totals
    <3>5. db'.day = due'.day /\ db'.gday = due'.gday
      BY <3>2, <3>4 DEF Increment
    <3>6. CapsHold'
      <4>1. due.day[DayOf(t)] + group <= GroupCap /\ due.gday[GlobalDayOf(t)] + global <= GlobalCap
        BY <3>2, <3>3, <3>4, XpAssumption DEF CapsHold, AtLeastZero, Increment
      <4>. QED  BY <3>2, <3>3, <3>4, <4>1 DEF CapsHold, Increment
    <3>7. CASE Job[t].kind = "message"
      <4>1. db'.paid = [db.paid EXCEPT ![Job[t].msg] = group]
            /\ payments' = IF group > 0
                             THEN [payments EXCEPT ![Job[t].msg] = payments[Job[t].msg] + 1]
                             ELSE payments
        BY <3>paid, <3>7
      <4>2. db.paid[Job[t].msg] = 0
        BY <2>2, <3>1, <3>7 DEF ReadsCurrent
      <4>3. db.paid \in [Messages -> Nat] /\ payments \in [Messages -> Nat]
        BY DEF TypeOK, Database
      <4>unpaid. payments[Job[t].msg] = 0
        BY <3>3, <4>2, <4>3 DEF DaysRecorded
      <4>4. (\A m \in Messages : payments[m] > 0 => db.paid[m] > 0)' /\ PaidOnce'
        BY <3>2, <3>3, <4>1, <4>3, <4>unpaid DEF DaysRecorded, PaidOnce
      <4>. QED  BY <3>5, <3>6, <4>4 DEF DaysRecorded
    <3>8. CASE Job[t].kind # "message"
      <4>1. db'.paid = db.paid /\ payments' = payments
        BY <2>2, <3>8 DEF Award
      <4>. QED  BY <3>5, <3>6, <4>1 DEF DaysRecorded, PaidOnce
    <3>. QED  BY <3>7, <3>8
  <2>. QED  BY <1>1, <2>1, <2>2, AwardEffect
<1>2. ASSUME NEW t \in Txns, CommitWeekly(t) PROVE DaysRecorded' /\ CapsHold' /\ PaidOnce'
  BY <1>2, WeeklyEffect DEF DaysRecorded, CapsHold, PaidOnce
<1>3. ASSUME NEW t \in Txns, CommitAdjust(t) PROVE DaysRecorded' /\ CapsHold' /\ PaidOnce'
  BY <1>3, AdjustEffect DEF DaysRecorded, CapsHold, PaidOnce
<1>4. CASE UNCHANGED <<db, due, payments>>
  BY <1>4 DEF DaysRecorded, CapsHold, PaidOnce
<1>. QED
  BY <1>1, <1>2, <1>3, <1>4
     DEF Next, Begin, Advance, Lock, SkipInsert, ReadLocked, Commit, DeadlockDetected,
         TransactionFails, DeliveredAgain, vars

\* While only locking readers have run, the totals are those of the ledger.
LEMMA TotalsStep ==
    ASSUME TypeOK, ReadsCurrent, LockedWritersLoseNothing, DaysRecorded', [Next]_vars
    PROVE  LockedWritersLoseNothing'
<1>. SUFFICES ASSUME \A t \in Txns : ~LockingReader(t) => pc'[t] = "idle"
              PROVE  db'.xp = due'.xp /\ db'.gxp = due'.gxp
  BY DEF LockedWritersLoseNothing, LockingReader, DaysRecorded
<1>1. ASSUME NEW t \in Txns, ~LockingReader(t) PROVE pc[t] = "idle"
  <2>1. pc'[t] = "idle"
    BY <1>1
  <2>2. ASSUME NEW o \in Txns, End(o, "done") PROVE pc[t] = "idle"
    BY <2>1, <2>2 DEF End, TypeOK
  <2>3. ASSUME NEW o \in Txns, RollBack(o) PROVE pc[t] = "idle"
    BY <1>1, <2>1, <2>3 DEF RollBack, End, TypeOK
  <2>4. ASSUME NEW o \in Txns, Commit(o) PROVE pc[t] = "idle"
    BY <2>2, <2>4 DEF Commit, CommitMessage, CommitReaction, CommitWeekly, CommitAdjust
  <2>5. ASSUME NEW o \in Txns, Begin(o) PROVE pc[t] = "idle"
    BY <2>1, <2>2, <2>5 DEF Begin, TypeOK
  <2>6. ASSUME NEW o \in Txns, ReadLocked(o) PROVE pc[t] = "idle"
    BY <2>1, <2>6 DEF ReadLocked, TypeOK
  <2>7. ASSUME NEW o \in Txns, DeliveredAgain(o) PROVE pc[t] = "idle"
    BY <1>1, <2>1, <2>7 DEF DeliveredAgain, TypeOK
  <2>8. CASE UNCHANGED pc
    BY <2>1, <2>8
  <2>. QED
    BY <2>3, <2>4, <2>5, <2>6, <2>7, <2>8
       DEF Next, Advance, Lock, SkipInsert, DeadlockDetected, TransactionFails, vars
<1>2. db.xp = due.xp /\ db.gxp = due.gxp
  BY <1>1 DEF LockedWritersLoseNothing
<1>3. ASSUME NEW t \in Txns, CommitMessage(t) \/ CommitReaction(t)
      PROVE  db'.xp = due'.xp /\ db'.gxp = due'.gxp
  <2>1. CASE NoAward
    BY <1>2, <2>1 DEF NoAward
  <2>2. ASSUME Awarding(t), NEW requested \in Int, NEW reward \in Nat,
               Award(t, requested, reward)
        PROVE  db'.xp = due'.xp /\ db'.gxp = due'.gxp
    <3>1. pc[t] = "commit"
      BY <1>3 DEF CommitMessage, CommitReaction
    <3>2. Increment(t, GroupAward(t, requested), GlobalAward(t, requested), reward)
      BY <2>2, <3>1, AwardIsIncrement
    <3>. QED  BY <1>2, <3>2 DEF Increment
  <2>. QED  BY <1>3, <2>1, <2>2, AwardEffect
<1>4. ASSUME NEW t \in Txns, CommitWeekly(t) \/ CommitAdjust(t) PROVE FALSE
  BY <1>1, <1>4 DEF CommitWeekly, CommitAdjust, LockingReader
<1>5. CASE UNCHANGED <<db, due>>
  BY <1>2, <1>5
<1>. QED
  BY <1>3, <1>4, <1>5
     DEF Next, Begin, Advance, Lock, SkipInsert, ReadLocked, Commit, DeadlockDetected,
         TransactionFails, DeliveredAgain, vars

-----------------------------------------------------------------------------
(* The inductive invariant and what follows from it. *)

LEMMA IInvInit == Init => IInv
<1>. SUFFICES ASSUME Init PROVE IInv
  OBVIOUS
<1>1. TypeOK
  BY TypeInit
<1>2. LocksTaken /\ Exclusion /\ ReadsCurrent
  BY DEF Init, LocksTaken, Exclusion, ReadsCurrent
<1>3. DaysRecorded /\ CapsHold /\ PaidOnce /\ LockedWritersLoseNothing
  BY XpAssumption DEF Init, EmptyDb, NoTotals, DaysRecorded, CapsHold, PaidOnce,
     LockedWritersLoseNothing
<1>. QED  BY <1>1, <1>2, <1>3 DEF IInv

LEMMA IInvStep == IInv /\ [Next]_vars => IInv'
BY TypeStep, LockStep, ReadsStep, DaysStep, TotalsStep DEF IInv

THEOREM Invariance == Spec => []IInv
BY IInvInit, IInvStep, PTL DEF Spec

\* What all transactions together add to a day never exceeds the caps, whatever
\* the transactions, the caps and the faults.
THEOREM CapsAreKept == Spec => []CapsHold
<1>1. IInv => CapsHold
  BY DEF IInv
<1>. QED  BY <1>1, Invariance, PTL

\* A message gives XP at most once, however often its update is delivered.
THEOREM MessagesPaidOnce == Spec => []PaidOnce
<1>1. IInv => PaidOnce
  BY DEF IInv
<1>. QED  BY <1>1, Invariance, PTL

\* While only transactions that lock what they read have written, no total misses
\* an increment.
THEOREM LockingSuffices == Spec => []LockedWritersLoseNothing
<1>1. IInv => LockedWritersLoseNothing
  BY DEF IInv
<1>. QED  BY <1>1, Invariance, PTL

\* A message or a reaction never undoes what another transaction, locking reader
\* or not, has written.
THEOREM AwardsNeverUndo == Spec => AwardsAreIncrements
<1>. DEFINE Moves == \A t \in Txns : LockingReader(t) /\ pc[t] = "commit" /\ pc'[t] = "done" =>
               /\ \A k \in Members : db'.xp[k] - db.xp[k] = due'.xp[k] - due.xp[k]
               /\ \A u \in Users : db'.gxp[u] - db.gxp[u] = due'.gxp[u] - due.gxp[u]
<1>1. ASSUME IInv, [Next]_vars PROVE [Moves]_vars
  <2>. SUFFICES ASSUME Next, NEW t \in Txns, LockingReader(t), pc[t] = "commit", pc'[t] = "done"
                PROVE  /\ \A k \in Members : db'.xp[k] - db.xp[k] = due'.xp[k] - due.xp[k]
                       /\ \A u \in Users : db'.gxp[u] - db.gxp[u] = due'.gxp[u] - due.gxp[u]
    BY <1>1
  <2>1. TypeOK /\ ReadsCurrent
    BY <1>1 DEF IInv
  <2>2. PICK o \in Txns :
          \/ Begin(o) \/ Advance(o) \/ ReadLocked(o) \/ Commit(o)
          \/ DeadlockDetected(o) \/ TransactionFails(o) \/ DeliveredAgain(o)
    BY DEF Next
  <2>3. CASE Commit(o)
    <3>1. o = t
      BY <2>1, <2>3
         DEF Commit, CommitMessage, CommitReaction, CommitWeekly, CommitAdjust, End, TypeOK
    <3>2. CommitMessage(t) \/ CommitReaction(t)
      BY <2>3, <3>1 DEF Commit, CommitWeekly, CommitAdjust, LockingReader
    <3>3. CASE NoAward
      <4>1. /\ \A k \in Members : db.xp[k] \in Int /\ due.xp[k] \in Int
            /\ \A u \in Users : db.gxp[u] \in Int /\ due.gxp[u] \in Int
        BY <2>1 DEF TypeOK, Database, Totals
      <4>. QED  BY <3>3, <4>1 DEF NoAward
    <3>4. ASSUME Awarding(t), NEW requested \in Int, NEW reward \in Nat,
                 Award(t, requested, reward)
          PROVE  /\ \A k \in Members : db'.xp[k] - db.xp[k] = due'.xp[k] - due.xp[k]
                 /\ \A u \in Users : db'.gxp[u] - db.gxp[u] = due'.gxp[u] - due.gxp[u]
      <4>. DEFINE group == GroupAward(t, requested)
                  global == GlobalAward(t, requested)
      <4>1. group \in Nat /\ global \in Nat /\ Increment(t, group, global, reward)
        BY <2>1, <3>4, AwardIsIncrement
      <4>. HIDE DEF group, global
      <4>2. /\ db.xp \in [Members -> Int] /\ due.xp \in [Members -> Int]
            /\ db.gxp \in [Users -> Int] /\ due.gxp \in [Users -> Int]
        BY <2>1 DEF TypeOK, Database, Totals
      <4>. QED  BY <4>1, <4>2 DEF Increment
    <3>. QED  BY <2>1, <3>2, <3>3, <3>4, AwardEffect
  <2>4. CASE ~Commit(o)
    BY <2>1, <2>2, <2>4
       DEF Begin, Advance, Lock, SkipInsert, ReadLocked, DeadlockDetected, TransactionFails,
           RollBack, DeliveredAgain, End, TypeOK
  <2>. QED  BY <2>3, <2>4
<1>. QED  BY <1>1, Invariance, PTL DEF Spec, AwardsAreIncrements

=============================================================================
