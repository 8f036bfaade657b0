---------------------------- MODULE EarningsProofs ----------------------------
(***************************************************************************)
(* What a member earns: StreakIsEarned and GapsArePaid for any number of   *)
(* days, any thresholds and limits, any calendar, and however often the    *)
(* group is reset; XpIsEarned for any messages, rules and redeliveries;    *)
(* and the types of both components.                                       *)
(*                                                                         *)
(* The streak of the row is covered by active days up to its last date.    *)
(* The invariant says the same of what an open message is about to write   *)
(* (MessageFits): it starts from the row it has locked, or from none if    *)
(* there was none, and adds one to the streak only with a date behind the  *)
(* last one that its own XP makes active.  A reset deletes active days,    *)
(* but the row with them, and no row that a message has locked.            *)
(***************************************************************************)
EXTENDS Streaks, MessageRules, FiniteSetTheorems, WellFoundedInduction, TLAPS

WeakRows == [streak : Nat, longest : Nat, last : Dates \union {NoDate}]

StreakShape ==
    /\ today \in Dates
    /\ Exists => member = <<member[1]>> /\ member[1] \in WeakRows
    /\ DOMAIN daily \subseteq Dates /\ \A d \in DOMAIN daily : daily[d] \in 0..DayCap
    /\ message \in [at : {"none", "entered", "awarded"}, date : Dates \union {NoDate},
                    locks : BOOLEAN, member : WeakRows, xp : 0..DayCap,
                    usage : {message.usage}, counted : {message.counted}]

\* The row a message started from.
Old == IF message.locks THEN member[1] ELSE NewMember

\* What an open message has read and writes.
MessageFits ==
    /\ message.at # "none" => message.date \in Dates /\ message.locks = Exists
    /\ message.at = "entered" => message.member = Old
    /\ message.at = "awarded" =>
          /\ message.locks => message.xp >= Xp(daily, message.date)
          /\ \/ message.member = Old
             \/ /\ message.xp >= Threshold
                /\ message.member.last = message.date /\ message.date > Old.last
                /\ message.member.streak <= Old.streak + 1

StreakInv == StreakShape /\ MessageFits /\ StreakIsEarned

-----------------------------------------------------------------------------
(* Active days. *)

LEMMA ActiveFinite ==
    ASSUME DOMAIN daily \subseteq Dates, NEW d
    PROVE  IsFiniteSet(ActiveUpTo(d)) /\ Cardinality(ActiveUpTo(d)) \in Nat
<1>1. IsFiniteSet(Dates)
  BY StreakAssumption, FS_Interval DEF Dates
<1>2. ActiveUpTo(d) \subseteq Dates
  BY DEF ActiveUpTo
<1>. QED  BY <1>1, <1>2, FS_Subset, FS_CardinalityType

LEMMA NewMemberRow == NewMember \in WeakRows /\ NewMember.streak = 0 /\ NewMember.last = NoDate
BY DEF NewMember, WeakRows

\* A row that is covered before a message writes a day is covered after it.
LEMMA DayWritten ==
    ASSUME DOMAIN daily \subseteq Dates, \A e \in DOMAIN daily : daily[e] \in 0..DayCap,
           NEW d \in Dates, NEW xp \in 0..DayCap,
           daily' = Upserted(daily, [e \in {d} |-> xp])
    PROVE  /\ DOMAIN daily' = DOMAIN daily \union {d}
           /\ \A e \in DOMAIN daily' : daily'[e] = IF e = d THEN xp ELSE daily[e]
           /\ DOMAIN daily' \subseteq Dates /\ \A e \in DOMAIN daily' : daily'[e] \in 0..DayCap
BY DEF Upserted

LEMMA StreakInvInit == StreakInit => StreakInv
<1>. SUFFICES ASSUME StreakInit PROVE StreakInv
  OBVIOUS
<1>. USE StreakAssumption
<1>1. StreakShape
  <2>1. today \in Dates
    BY DEF StreakInit, Dates
  <2>2. 0 \in 0..DayCap
    OBVIOUS
  <2>3. message.date \in Dates \union {NoDate} /\ message.locks \in BOOLEAN
        /\ message = NoMessage /\ member = << >> /\ daily = << >>
    BY DEF StreakInit, NoMessage
  <2>. QED  BY <2>1, <2>2, <2>3, NewMemberRow DEF StreakShape, Exists, NoMessage
<1>2. MessageFits
  BY DEF StreakInit, MessageFits, NoMessage
<1>3. StreakIsEarned
  BY DEF StreakInit, StreakIsEarned, Exists
<1>. QED  BY <1>1, <1>2, <1>3 DEF StreakInv

-----------------------------------------------------------------------------
(* Steps of the service. *)

\* A step that leaves the rows of the member and the message alone.
LEMMA RowsUntouched ==
    ASSUME StreakInv, today' \in Dates, UNCHANGED <<member, daily, message>>
    PROVE  StreakInv'
BY DEF StreakInv, StreakShape, MessageFits, StreakIsEarned, Exists, Old, ActiveUpTo, Xp

LEMMA EnterKeeps ==
    ASSUME StreakInv, NEW d \in Dates, Enter(d)
    PROVE  StreakInv'
<1>. USE StreakAssumption DEF StreakInv
<1>1. /\ UNCHANGED <<today, member, daily>>
      /\ message' = [NoMessage EXCEPT !.at = "entered", !.date = d, !.locks = Exists,
                       !.member = IF Exists THEN member[1] ELSE NewMember, !.counted = counted]
  BY DEF Enter
<1>2. /\ message'.at = "entered" /\ message'.date = d /\ message'.locks = Exists
      /\ message'.member = IF Exists THEN member[1] ELSE NewMember
  BY <1>1 DEF NoMessage
<1>3. StreakShape'
  <2>1. 0 \in 0..DayCap /\ Exists \in BOOLEAN
    BY DEF Exists
  <2>2. message'.member \in WeakRows
    BY <1>2, NewMemberRow DEF StreakShape
  <2>. QED  BY <1>1, <1>2, <2>1, <2>2 DEF StreakShape, NoMessage, Exists
<1>4. MessageFits'
  <2>1. Exists' = Exists /\ Old' = IF Exists THEN member[1] ELSE NewMember
    BY <1>1, <1>2 DEF Old, Exists
  <2>. QED  BY <1>2, <2>1 DEF MessageFits
<1>5. StreakIsEarned'
  BY <1>1 DEF StreakIsEarned, Exists, ActiveUpTo
<1>. QED  BY <1>3, <1>4, <1>5

\* What _advance_streak makes of the row of the message.
LEMMA AdvanceRow ==
    ASSUME StreakInv, message.at = "entered"
    PROVE  LET d == message.date IN
           /\ Advance(d).member \in WeakRows
           /\ \/ Advance(d).member = Old
              \/ /\ Advance(d).member.last = d /\ d > Old.last
                 /\ Advance(d).member.streak <= Old.streak + 1
           /\ Advance(d) \in [at : {"entered"}, date : {d}, locks : {message.locks},
                              member : WeakRows, xp : {message.xp},
                              usage : {Advance(d).usage}, counted : {Advance(d).counted}]
<1>. DEFINE d == message.date
            m == message.member
            goesOn == m.last # NoDate /\ Refused(Missing(d)) = {}
            streak == IF goesOn THEN m.streak + 1 ELSE 1
            row == [streak |-> streak, last |-> d,
                    longest |-> IF streak > m.longest THEN streak ELSE m.longest]
            dates == IF goesOn THEN message.counted \union {d} ELSE {d}
            usage == IF m.last = NoDate THEN << >> ELSE Consume(Missing(d))
<1>1. m \in WeakRows /\ m = Old /\ d \in Dates
  BY DEF StreakInv, StreakShape, MessageFits
<1>2. streak \in Nat /\ streak <= m.streak + 1 /\ row \in WeakRows
  BY <1>1 DEF WeakRows
<1>3. CASE m.last # NoDate /\ d <= m.last
  <2>1. Advance(d) = message
    BY <1>3 DEF Advance
  <2>. QED  BY <1>1, <2>1 DEF StreakInv, StreakShape
<1>4. CASE ~(m.last # NoDate /\ d <= m.last)
  <2>1. Advance(d) = [message EXCEPT !.member = row, !.counted = dates, !.usage = usage]
    BY <1>4 DEF Advance
  <2>2. d > m.last
    BY <1>1, <1>4, StreakAssumption DEF WeakRows, Dates, NoDate
  <2>. HIDE DEF row, dates, usage, m, d
  <2>3. /\ Advance(message.date).member = row
        /\ Advance(message.date) \in [at : {"entered"}, date : {message.date},
                  locks : {message.locks}, member : WeakRows, xp : {message.xp},
                  usage : {Advance(message.date).usage}, counted : {Advance(message.date).counted}]
    BY <1>2, <2>1 DEF StreakInv, StreakShape, d
  <2>4. row.last = d /\ row.streak = streak
    BY DEF row
  <2>. QED  BY <1>1, <1>2, <2>2, <2>3, <2>4 DEF d
<1>. QED  BY <1>3, <1>4

LEMMA AwardKeeps ==
    ASSUME StreakInv, NEW requested \in 0..DayCap, Award(requested)
    PROVE  StreakInv'
<1>. DEFINE d == message.date
            before == Xp(daily, d)
            after == IF before + requested > DayCap THEN DayCap ELSE before + requested
            advanced == IF before < Threshold /\ Threshold <= after THEN Advance(d) ELSE message
<1>. USE StreakAssumption
<1>1. /\ message.at = "entered" /\ UNCHANGED <<today, member, daily>>
      /\ message' = [advanced EXCEPT !.at = "awarded", !.xp = after]
  BY DEF Award
<1>2. d \in Dates /\ message.member = Old /\ message.locks = Exists
  BY <1>1 DEF StreakInv, MessageFits
<1>3. before \in 0..DayCap
  BY DEF StreakInv, StreakShape, Xp
<1>4. after \in 0..DayCap /\ after >= before
  BY <1>3
<1>. HIDE DEF before, after
<1>5. /\ advanced \in [at : {"entered"}, date : {d}, locks : {message.locks}, member : WeakRows,
                       xp : {message.xp}, usage : {advanced.usage}, counted : {advanced.counted}]
      /\ \/ advanced.member = Old
         \/ /\ after >= Threshold
            /\ advanced.member.last = d /\ d > Old.last
            /\ advanced.member.streak <= Old.streak + 1
  <2>1. CASE before < Threshold /\ Threshold <= after
    <3>1. advanced = Advance(d)
      BY <2>1
    <3>. QED  BY <1>1, <1>4, <2>1, <3>1, AdvanceRow
  <2>2. CASE ~(before < Threshold /\ Threshold <= after)
    <3>1. advanced = message
      BY <2>2
    <3>. QED  BY <1>1, <1>2, <3>1 DEF StreakInv, StreakShape
  <2>. QED  BY <2>1, <2>2
<1>. HIDE DEF advanced
<1>6. /\ message'.at = "awarded" /\ message'.date = d /\ message'.locks = message.locks
      /\ message'.member = advanced.member /\ message'.xp = after
      /\ message' \in [at : {"awarded"}, date : {d}, locks : {message.locks}, member : WeakRows,
                       xp : {after}, usage : {message'.usage}, counted : {message'.counted}]
  BY <1>1, <1>5
<1>7. StreakShape'
  BY <1>1, <1>2, <1>4, <1>6 DEF StreakInv, StreakShape, Exists
<1>8. Old' = Old
  BY <1>1, <1>6 DEF Old
<1>9. MessageFits'
  BY <1>1, <1>2, <1>4, <1>5, <1>6, <1>8 DEF MessageFits, Exists, before
<1>10. StreakIsEarned'
  BY <1>1 DEF StreakInv, StreakIsEarned, Exists, ActiveUpTo
<1>. QED  BY <1>7, <1>9, <1>10 DEF StreakInv

LEMMA CommitKeeps ==
    ASSUME StreakInv, Commit
    PROVE  StreakInv'
<1>. USE StreakAssumption
<1>0. PICK d \in Dates, xp \in 0..DayCap, row \in WeakRows, old \in WeakRows :
        d = message.date /\ xp = message.xp /\ row = message.member /\ old = Old
  <2>1. message.date \in Dates /\ message.locks = Exists
    BY DEF StreakInv, MessageFits, Commit
  <2>2. Old \in WeakRows
    BY <2>1, NewMemberRow DEF StreakInv, StreakShape, Old
  <2>. QED  BY <2>1, <2>2 DEF StreakInv, StreakShape
<1>1. /\ message.at = "awarded" /\ member' = <<row>> /\ message' = NoMessage
      /\ daily' = Upserted(daily, [e \in {d} |-> xp]) /\ UNCHANGED today
  BY <1>0 DEF Commit
<1>2. /\ DOMAIN daily \subseteq Dates /\ \A e \in DOMAIN daily : daily[e] \in 0..DayCap
  BY DEF StreakInv, StreakShape
<1>3. /\ DOMAIN daily' = DOMAIN daily \union {d}
      /\ \A e \in DOMAIN daily' : daily'[e] = IF e = d THEN xp ELSE daily[e]
      /\ DOMAIN daily' \subseteq Dates /\ \A e \in DOMAIN daily' : daily'[e] \in 0..DayCap
  BY <1>1, <1>2, DayWritten
<1>4. Exists' /\ member'[1] = row
  BY <1>1 DEF Exists
<1>5. StreakShape'
  <2>1. member' = <<member'[1]>> /\ member'[1] \in WeakRows
    BY <1>1, <1>2, <1>4
  <2>2. 0 \in 0..DayCap
    OBVIOUS
  <2>3. today' \in Dates
    BY <1>1 DEF StreakInv, StreakShape
  <2>. QED  BY <1>1, <1>3, <2>1, <2>2, <2>3, NewMemberRow DEF StreakShape, NoMessage
<1>6. MessageFits'
  BY <1>1 DEF MessageFits, NoMessage
<1>7. /\ row.streak <= Cardinality(ActiveUpTo(row.last)')
      /\ row.last # NoDate => row.last \in ActiveUpTo(LastDate)'
  <2>0. /\ message.locks = Exists
        /\ message.locks => xp >= Xp(daily, d)
        /\ \/ row = old
           \/ xp >= Threshold /\ row.last = d /\ d > old.last /\ row.streak <= old.streak + 1
    BY <1>0, <1>1 DEF StreakInv, MessageFits
  <2>2. \A e : IsFiniteSet(ActiveUpTo(e)') /\ Cardinality(ActiveUpTo(e)') \in Nat
    <3>. SUFFICES ASSUME NEW e
                  PROVE  IsFiniteSet(ActiveUpTo(e)') /\ Cardinality(ActiveUpTo(e)') \in Nat
      OBVIOUS
    <3>1. ActiveUpTo(e)' \subseteq Dates
      BY <1>3 DEF ActiveUpTo
    <3>2. IsFiniteSet(Dates)
      BY FS_Interval DEF Dates
    <3>. QED  BY <3>1, <3>2, FS_Subset, FS_CardinalityType
  <2>3. ASSUME message.locks, NEW e PROVE ActiveUpTo(e) \subseteq ActiveUpTo(e)'
    <3>. SUFFICES ASSUME NEW x \in ActiveUpTo(e) PROVE x \in ActiveUpTo(e)'
      OBVIOUS
    <3>1. x \in DOMAIN daily /\ daily[x] >= Threshold /\ x <= e /\ x \in DOMAIN daily'
      BY <1>3 DEF ActiveUpTo
    <3>2. daily'[x] >= Threshold
      <4>1. CASE x = d
        <5>1. xp >= daily[x]
          <6>1. message.locks
            BY <2>3
          <6>2. Xp(daily, d) = daily[d]
            BY <3>1, <4>1 DEF Xp
          <6>. QED  BY <2>0, <4>1, <6>1, <6>2
        <5>2. daily'[x] = xp /\ daily[x] \in Nat /\ xp \in Nat
          BY <1>2, <1>3, <3>1, <4>1
        <5>. QED  BY <3>1, <5>1, <5>2
      <4>2. CASE x # d
        BY <1>3, <3>1, <4>2
      <4>. QED  BY <4>1, <4>2
    <3>. QED  BY <3>1, <3>2 DEF ActiveUpTo
  \* The days that cover the row the message started from are still there.
  <2>4. /\ old.streak <= Cardinality(ActiveUpTo(old.last)')
        /\ old.last # NoDate => old.last \in ActiveUpTo(LastDate)'
    <3>1. CASE message.locks
      <4>1. old = member[1] /\ Exists
        BY <1>0, <2>0, <3>1 DEF Old
      <4>2. old.streak <= Cardinality(ActiveUpTo(old.last))
            /\ (old.last # NoDate => old.last \in ActiveUpTo(LastDate))
        BY <4>1 DEF StreakInv, StreakIsEarned
      <4>3. ActiveUpTo(old.last) \subseteq ActiveUpTo(old.last)'
            /\ ActiveUpTo(LastDate) \subseteq ActiveUpTo(LastDate)'
        BY <2>3, <3>1
      <4>4. Cardinality(ActiveUpTo(old.last)) <= Cardinality(ActiveUpTo(old.last)')
        BY <2>2, <4>3, FS_Subset
      <4>5. Cardinality(ActiveUpTo(old.last)) \in Nat /\ old.streak \in Nat
        BY <1>2, ActiveFinite DEF WeakRows
      <4>. QED  BY <2>2, <4>2, <4>3, <4>4, <4>5
    <3>2. CASE ~message.locks
      <4>1. old.streak = 0 /\ old.last = NoDate
        BY <1>0, <3>2, NewMemberRow DEF Old
      <4>. QED  BY <2>2, <4>1
    <3>. QED  BY <3>1, <3>2 DEF StreakInv, StreakShape
  <2>5. CASE row = old
    BY <2>4, <2>5
  <2>6. CASE xp >= Threshold /\ row.last = d /\ d > old.last /\ row.streak <= old.streak + 1
    <3>1. /\ d \in Nat /\ d <= LastDate /\ old.last \in Nat
          /\ old.streak \in Nat /\ row.streak \in Nat
      BY DEF WeakRows, Dates, NoDate
    <3>2. d \in ActiveUpTo(d)' /\ d \in ActiveUpTo(LastDate)' /\ d \notin ActiveUpTo(old.last)'
      BY <1>3, <2>6, <3>1 DEF ActiveUpTo
    <3>3. ActiveUpTo(old.last)' \union {d} \subseteq ActiveUpTo(d)'
      <4>. SUFFICES ASSUME NEW x \in ActiveUpTo(old.last)' PROVE x \in ActiveUpTo(d)'
        BY <3>2
      <4>1. x \in Nat
        BY <1>3 DEF ActiveUpTo, Dates
      <4>. QED  BY <2>6, <3>1, <4>1 DEF ActiveUpTo
    <3>4. Cardinality(ActiveUpTo(old.last)' \union {d}) = Cardinality(ActiveUpTo(old.last)') + 1
      BY <2>2, <3>2, FS_AddElement
    <3>5. Cardinality(ActiveUpTo(old.last)' \union {d}) <= Cardinality(ActiveUpTo(d)')
      BY <2>2, <3>3, FS_Subset
    <3>6. row.streak <= Cardinality(ActiveUpTo(d)')
      BY <2>2, <2>4, <2>6, <3>1, <3>4, <3>5
    <3>. QED  BY <2>6, <3>2, <3>6
  <2>. QED  BY <2>0, <2>5, <2>6
<1>. QED  BY <1>4, <1>5, <1>6, <1>7 DEF StreakInv, StreakIsEarned

-----------------------------------------------------------------------------
(* Resets, and the theorem. *)

LEMMA DeleteMemberKeeps ==
    ASSUME StreakInv, DeleteMember
    PROVE  StreakInv'
<1>1. /\ member' = << >> /\ UNCHANGED <<today, message>> /\ ~MemberLocked
      /\ daily' = Without(daily, reset.daily)
  BY DEF DeleteMember
<1>2. ~Exists'
  BY <1>1 DEF Exists
<1>3. /\ DOMAIN daily' \subseteq DOMAIN daily
      /\ \A e \in DOMAIN daily' : daily'[e] = daily[e]
  BY <1>1 DEF Without
<1>4. StreakShape'
  BY <1>1, <1>2, <1>3 DEF StreakInv, StreakShape
<1>5. MessageFits'
  <2>1. CASE message.at = "none"
    BY <1>1, <2>1 DEF MessageFits
  <2>2. CASE message.at # "none"
    <3>1. message.locks = FALSE
      BY <1>1, <2>2 DEF MemberLocked, StreakInv, StreakShape
    <3>2. Old = NewMember /\ Old' = NewMember
      BY <1>1, <3>1 DEF Old
    <3>3. message.date \in Dates /\ message.locks' = Exists'
      BY <1>1, <1>2, <2>2, <3>1 DEF StreakInv, MessageFits, Exists
    <3>. QED  BY <1>1, <3>1, <3>2, <3>3 DEF StreakInv, MessageFits
  <2>. QED  BY <2>1, <2>2
<1>. QED  BY <1>2, <1>4, <1>5 DEF StreakInv, StreakIsEarned

LEMMA StreakInvStep == StreakInv /\ [StreakNext]_streakVars => StreakInv'
<1>. SUFFICES ASSUME StreakInv, [StreakNext]_streakVars PROVE StreakInv'
  OBVIOUS
<1>1. CASE NextDate
  <2>1. today' \in Dates
    BY <1>1, StreakAssumption DEF NextDate, StreakInv, StreakShape, Dates
  <2>. QED  BY <1>1, <2>1, RowsUntouched DEF NextDate
<1>2. CASE ChangeVip \/ BotReset \/ ApiReset \/ DeleteDaily \/ DeleteUsage \/ AbortReset
           \/ UNCHANGED streakVars
  <2>1. UNCHANGED <<today, member, daily, message>>
    BY <1>2
       DEF ChangeVip, BotReset, ApiReset, DeleteDaily, DeleteUsage, AbortReset, streakVars
  <2>2. today' \in Dates
    BY <2>1 DEF StreakInv, StreakShape
  <2>. QED  BY <2>1, <2>2, RowsUntouched
<1>3. CASE AbortMessage
  <2>1. message' = NoMessage /\ UNCHANGED <<today, member, daily>>
    BY <1>3 DEF AbortMessage
  <2>2. StreakShape'
    <3>1. 0 \in 0..DayCap
      BY StreakAssumption
    <3>. QED  BY <2>1, <3>1, NewMemberRow DEF StreakInv, StreakShape, NoMessage, Exists
  <2>3. MessageFits' /\ StreakIsEarned'
    BY <2>1 DEF StreakInv, MessageFits, StreakIsEarned, Exists, ActiveUpTo, NoMessage
  <2>. QED  BY <2>2, <2>3 DEF StreakInv
<1>. QED
  BY <1>1, <1>2, <1>3, EnterKeeps, AwardKeeps, CommitKeeps, DeleteMemberKeeps DEF StreakNext

\* A streak is backed by as many active days, in whatever order days are processed and
\* whatever a reset leaves behind (gamification.py:718).
THEOREM StreaksAreEarned == StreakSpec => []StreakIsEarned
<1>1. StreakInv => StreakIsEarned
  BY DEF StreakInv
<1>. QED  BY <1>1, StreakInvInit, StreakInvStep, PTL DEF StreakSpec

-----------------------------------------------------------------------------
(* Gaps.  The dates that the row counts end with its last one, and what    *)
(* they reach over is charged (Charged).  An open message carries the same *)
(* for what it writes: the days it adds to the gap are those it charges,   *)
(* month by month, to the rows it has read.  Nobody else writes them       *)
(* before it commits, but for the bot's reset, which leaves its mark.      *)

\* The dates behind the streak of a row.
RowCounted(row, dates) ==
    /\ dates \subseteq Dates
    /\ row.streak = Cardinality(dates)
    /\ row.last = NoDate => dates = {}
    /\ row.last # NoDate => row.last \in dates /\ \A c \in dates : c <= row.last

UsageShape ==
    /\ DOMAIN used \subseteq Months /\ \A m \in DOMAIN used : used[m] \in 0..VipLimit
    /\ DOMAIN message.usage \subseteq Months
    /\ \A m \in DOMAIN message.usage : message.usage[m] \in 0..VipLimit

\* What will be used in month m when the open message commits.
UsedAfter(m) == IF m \in DOMAIN message.usage THEN message.usage[m] ELSE Used(m)

Charged == Exists /\ ~torn =>
    \A m \in Months : Cardinality(ReachedOver(member[1], counted, m)) <= Used(m)

MessageCounted ==
    /\ message.at = "entered" =>
          message.usage = << >> /\ message.counted = IF message.locks THEN counted ELSE {}
    /\ message.at = "awarded" =>
          /\ RowCounted(message.member, message.counted)
          /\ message.locks /\ ~torn => \A m \in Months :
                Cardinality(ReachedOver(message.member, message.counted, m)) <= UsedAfter(m)
          /\ ~message.locks => \A m \in Months :
                ReachedOver(message.member, message.counted, m) = {}

GapInv ==
    /\ StreakInv /\ UsageShape /\ Charged /\ MessageCounted
    /\ IF Exists THEN RowCounted(member[1], counted) ELSE counted = {}

LEMMA MonthsOfDates == \A d \in Dates : MonthOf(d) \in Months /\ MonthOf(d) \in Nat
BY StreakAssumption DEF Months

LEMMA ReachedFinite ==
    ASSUME NEW row, NEW dates, NEW m
    PROVE  /\ IsFiniteSet(ReachedOver(row, dates, m))
           /\ Cardinality(ReachedOver(row, dates, m)) \in Nat
<1>1. IsFiniteSet(Dates)
  BY StreakAssumption, FS_Interval DEF Dates
<1>2. ReachedOver(row, dates, m) \subseteq Dates
  BY DEF ReachedOver
<1>. QED  BY <1>1, <1>2, FS_Subset, FS_CardinalityType

LEMMA NothingCounted ==
    /\ RowCounted(NewMember, {})
    /\ \A m : ReachedOver(NewMember, {}, m) = {}
BY FS_EmptySet DEF RowCounted, NewMember, ReachedOver, NoDate

LEMMA UsedType ==
    ASSUME UsageShape, NEW m
    PROVE  Used(m) \in 0..VipLimit /\ UsedAfter(m) \in 0..VipLimit
BY StreakAssumption DEF UsageShape, Used, UsedAfter

LEMMA GapInvInit == StreakInit => GapInv
<1>. SUFFICES ASSUME StreakInit PROVE GapInv
  OBVIOUS
<1>1. StreakInv
  BY StreakInvInit
<1>2. ~Exists /\ counted = {} /\ used = << >> /\ message = NoMessage
  BY DEF StreakInit, Exists
<1>3. UsageShape
  BY <1>2 DEF UsageShape, NoMessage
<1>4. MessageCounted /\ Charged
  BY <1>2 DEF MessageCounted, Charged, NoMessage
<1>. QED  BY <1>1, <1>2, <1>3, <1>4 DEF GapInv

LEMMA GapsEnter ==
    ASSUME GapInv, NEW d \in Dates, Enter(d)
    PROVE  GapInv'
<1>1. /\ UNCHANGED <<member, used, counted, torn>>
      /\ message'.at = "entered" /\ message'.locks = Exists /\ message'.usage = << >>
      /\ message'.counted = counted
  BY DEF Enter, NoMessage
<1>2. StreakInv'
  BY EnterKeeps DEF GapInv
<1>3. UsageShape'
  BY <1>1 DEF GapInv, UsageShape
<1>4. Charged'
  BY <1>1 DEF GapInv, Charged, Exists, Used, ReachedOver
<1>5. MessageCounted'
  BY <1>1 DEF GapInv, MessageCounted
<1>6. IF Exists' THEN RowCounted(member'[1], counted') ELSE counted' = {}
  BY <1>1 DEF GapInv, Exists, RowCounted
<1>. QED  BY <1>2, <1>3, <1>4, <1>5, <1>6 DEF GapInv

\* The days of a gap, month by month, are those before and those that are missing now.
LEMMA GapGrows ==
    ASSUME NEW row, NEW dates, RowCounted(row, dates), row.last # NoDate, NEW d \in Dates,
           d > row.last, NEW next, next.last = d, NEW m,
           NEW missing, missing = {e \in Dates : row.last < e /\ e < d}
    PROVE  /\ ReachedOver(next, dates \union {d}, m)
                \subseteq ReachedOver(row, dates, m) \union {e \in missing : MonthOf(e) = m}
           /\ Cardinality(ReachedOver(next, dates \union {d}, m))
                <= Cardinality(ReachedOver(row, dates, m)) + Needed(missing, m)
           /\ Needed(missing, m) \in Nat
<1>. DEFINE new == {e \in missing : MonthOf(e) = m}
<1>1. row.last \in Dates
  BY DEF RowCounted
<1>2. ASSUME NEW e \in ReachedOver(next, dates \union {d}, m)
      PROVE  e \in ReachedOver(row, dates, m) \union new
  <2>1. e \in Dates /\ e \notin dates /\ MonthOf(e) = m /\ e < d /\ e # d
    BY <1>2 DEF ReachedOver
  <2>2. PICK c \in dates \union {d} : c < e
    BY <1>2 DEF ReachedOver
  <2>3. CASE e < row.last
    <3>1. c \in dates
      BY <1>1, <2>1, <2>2, <2>3 DEF Dates
    <3>. QED  BY <2>1, <2>2, <2>3, <3>1 DEF ReachedOver
  <2>4. CASE row.last < e
    BY <2>1, <2>4
  <2>5. e # row.last
    BY <2>1 DEF RowCounted
  <2>. QED  BY <1>1, <2>1, <2>3, <2>4, <2>5 DEF Dates
<1>3. IsFiniteSet(new) /\ Cardinality(new) \in Nat
  <2>1. IsFiniteSet(Dates)
    BY StreakAssumption, FS_Interval DEF Dates
  <2>2. new \subseteq Dates
    OBVIOUS
  <2>. QED  BY <2>1, <2>2, FS_Subset, FS_CardinalityType
<1>4. Needed(missing, m) = Cardinality(new)
  BY DEF Needed
<1>. HIDE DEF new
<1>5. /\ IsFiniteSet(ReachedOver(row, dates, m) \union new)
      /\ Cardinality(ReachedOver(row, dates, m) \union new)
           <= Cardinality(ReachedOver(row, dates, m)) + Cardinality(new)
  <2>. DEFINE R == ReachedOver(row, dates, m)
  <2>1. IsFiniteSet(R) /\ Cardinality(R) \in Nat
    BY ReachedFinite
  <2>. HIDE DEF R
  <2>2. IsFiniteSet(R \cap new) /\ Cardinality(R \cap new) \in Nat
    BY <2>1, FS_Intersection, FS_CardinalityType
  <2>3. /\ IsFiniteSet(R \union new)
        /\ Cardinality(R \union new) = Cardinality(R) + Cardinality(new) - Cardinality(R \cap new)
    BY <1>3, <2>1, FS_Union
  <2>4. Cardinality(R \union new) <= Cardinality(R) + Cardinality(new)
    BY <1>3, <2>1, <2>2, <2>3
  <2>. QED  BY <2>3, <2>4 DEF R
<1>6. Cardinality(ReachedOver(next, dates \union {d}, m))
        <= Cardinality(ReachedOver(row, dates, m) \union new)
  BY <1>2, <1>5, FS_Subset
<1>7. /\ Cardinality(ReachedOver(next, dates \union {d}, m)) \in Nat
      /\ Cardinality(ReachedOver(row, dates, m)) \in Nat
      /\ Cardinality(ReachedOver(row, dates, m) \union new) \in Nat
  BY <1>5, ReachedFinite, FS_CardinalityType
<1>8. ReachedOver(next, dates \union {d}, m) \subseteq ReachedOver(row, dates, m) \union new
  BY <1>2
<1>9. Cardinality(ReachedOver(next, dates \union {d}, m))
        <= Cardinality(ReachedOver(row, dates, m)) + Needed(missing, m)
  BY <1>3, <1>4, <1>5, <1>6, <1>7
<1>. QED  BY <1>3, <1>4, <1>8, <1>9 DEF new

\* A message writes a row that is counted and charged.
CountedBy(msg) ==
    /\ RowCounted(msg.member, msg.counted)
    /\ DOMAIN msg.usage \subseteq Months
    /\ \A m \in DOMAIN msg.usage : msg.usage[m] \in 0..VipLimit
    /\ message.locks /\ ~torn => \A m \in Months :
          Cardinality(ReachedOver(msg.member, msg.counted, m))
             <= IF m \in DOMAIN msg.usage THEN msg.usage[m] ELSE Used(m)
    /\ ~message.locks => \A m \in Months : ReachedOver(msg.member, msg.counted, m) = {}

LEMMA EnteredCounted ==
    ASSUME GapInv, message.at = "entered"
    PROVE  CountedBy(message)
<1>1. /\ message.usage = << >> /\ message.member = Old /\ message.locks = Exists
      /\ message.counted = IF message.locks THEN counted ELSE {}
  BY DEF GapInv, StreakInv, MessageFits, MessageCounted
<1>2. CASE message.locks
  BY <1>1, <1>2 DEF GapInv, Charged, CountedBy, Old
<1>3. CASE ~message.locks
  BY <1>1, <1>3, NothingCounted DEF CountedBy, Old
<1>. QED  BY <1>2, <1>3

\* What _consume_protections writes is within the limit, and covers what is missing.
LEMMA Consumed ==
    ASSUME UsageShape, NEW S \in SUBSET Dates
    PROVE  /\ DOMAIN Consume(S) \subseteq Months
           /\ \A m \in DOMAIN Consume(S) : Consume(S)[m] \in 0..VipLimit
           /\ Refused(S) = {} => Consume(S) = [m \in Required(S) |-> Used(m) + Needed(S, m)]
<1>. USE StreakAssumption
<1>1. Required(S) \subseteq Months
  BY MonthsOfDates DEF Required
<1>2. ASSUME NEW m PROVE Needed(S, m) \in Nat
  <2>1. IsFiniteSet(Dates)
    BY FS_Interval DEF Dates
  <2>2. {e \in S : MonthOf(e) = m} \subseteq Dates
    OBVIOUS
  <2>. QED  BY <2>1, <2>2, FS_Subset, FS_CardinalityType DEF Needed
<1>3. CASE Refused(S) = {}
  <2>1. Consume(S) = [m \in Required(S) |-> Used(m) + Needed(S, m)]
    BY <1>3 DEF Consume
  <2>2. ASSUME NEW m \in Required(S) PROVE Used(m) + Needed(S, m) \in 0..VipLimit
    <3>1. m \notin Refused(S) /\ Used(m) \in Nat /\ Needed(S, m) \in Nat
      BY <1>2, <1>3, UsedType
    <3>2. Limit \in Nat /\ Limit <= VipLimit
      BY DEF Limit
    <3>. QED  BY <3>1, <3>2 DEF Refused
  <2>. QED  BY <1>1, <2>1, <2>2
<1>4. CASE Refused(S) # {}
  <2>1. /\ DOMAIN Consume(S) \subseteq Required(S)
        /\ \A m \in DOMAIN Consume(S) : Consume(S)[m] = 0
    BY <1>4 DEF Consume
  <2>. QED  BY <1>1, <1>4, <2>1
<1>. QED  BY <1>3, <1>4

LEMMA AdvancedCounted ==
    ASSUME GapInv, message.at = "entered"
    PROVE  CountedBy(Advance(message.date))
<1>. DEFINE d == message.date
            row == message.member
            dates == message.counted
            goesOn == row.last # NoDate /\ Refused(Missing(d)) = {}
            streak == IF goesOn THEN row.streak + 1 ELSE 1
            next == [streak |-> streak, last |-> d,
                     longest |-> IF streak > row.longest THEN streak ELSE row.longest]
            more == IF goesOn THEN dates \union {d} ELSE {d}
            usage == IF row.last = NoDate THEN << >> ELSE Consume(Missing(d))
<1>. USE StreakAssumption
<1>1. CASE row.last # NoDate /\ d <= row.last
  <2>1. Advance(d) = message
    BY <1>1 DEF Advance
  <2>. QED  BY <2>1, EnteredCounted
<1>2. CASE ~(row.last # NoDate /\ d <= row.last)
  <2>1. Advance(d) = [message EXCEPT !.member = next, !.counted = more, !.usage = usage]
    BY <1>2 DEF Advance
  <2>2. /\ Advance(d).member = next /\ Advance(d).counted = more /\ Advance(d).usage = usage
    <3>. HIDE DEF next, more, usage, d
    <3>. QED  BY <2>1 DEF GapInv, StreakInv, StreakShape
  <2>3. /\ RowCounted(row, dates) /\ UsageShape /\ d \in Dates /\ row \in WeakRows
        /\ message.locks /\ ~torn => \A m \in Months :
              Cardinality(ReachedOver(row, dates, m)) <= Used(m)
        /\ ~message.locks => row.last = NoDate
    <3>1. CountedBy(message) /\ message.usage = << >>
      BY EnteredCounted DEF GapInv, MessageCounted
    <3>2. ~message.locks => row.last = NoDate
      BY NewMemberRow DEF GapInv, StreakInv, MessageFits, Old
    <3>. QED  BY <3>1, <3>2 DEF CountedBy, GapInv, StreakInv, StreakShape, MessageFits
  <2>4. next.last = d /\ next.streak = streak /\ d # NoDate
    BY <2>3 DEF Dates, NoDate
  <2>5. row.last # NoDate => d > row.last
    BY <1>2, <2>3 DEF WeakRows, Dates, NoDate
  <2>6. Missing(d) = {e \in Dates : row.last < e /\ e < d} /\ Missing(d) \in SUBSET Dates
    BY DEF Missing
  <2>7. DOMAIN usage \subseteq Months /\ \A m \in DOMAIN usage : usage[m] \in 0..VipLimit
    BY <2>3, <2>6, Consumed
  <2>8. CASE goesOn
    <3>1. more = dates \union {d} /\ streak = row.streak + 1
      BY <2>8
    <3>2. RowCounted(next, more)
      <4>1. d \notin dates /\ IsFiniteSet(dates)
        <5>1. \A c \in dates : c <= row.last /\ c \in Nat
          BY <2>3, <2>8 DEF RowCounted, Dates
        <5>2. row.last \in Nat /\ d \in Nat /\ d > row.last
          BY <2>3, <2>5, <2>8 DEF WeakRows, Dates, NoDate
        <5>3. d \notin dates
          <6>. HIDE DEF d, dates, row
          <6>. QED  BY <5>1, <5>2
        <5>4. IsFiniteSet(Dates)
          BY FS_Interval DEF Dates
        <5>5. dates \subseteq Dates
          BY <2>3 DEF RowCounted
        <5>. QED  BY <5>3, <5>4, <5>5, FS_Subset
      <4>2. Cardinality(more) = row.streak + 1
        <5>1. Cardinality(dates \union {d}) = Cardinality(dates) + 1
          BY <4>1, FS_AddElement
        <5>. QED  BY <2>3, <3>1, <5>1 DEF RowCounted
      <4>3. more \subseteq Dates /\ d \in more /\ \A c \in more : c <= d
        <5>1. \A c \in dates : c \in Dates /\ c <= row.last /\ c \in Nat
          BY <2>3, <2>8 DEF RowCounted, Dates
        <5>2. row.last \in Nat /\ d \in Nat /\ d > row.last /\ d \in Dates
          BY <2>3, <2>5, <2>8 DEF WeakRows, Dates, NoDate
        <5>. HIDE DEF d, dates, row, goesOn
        <5>. QED  BY <3>1, <5>1, <5>2
      <4>4. next.streak = Cardinality(more) /\ next.last = d /\ next.last # NoDate
        BY <2>4, <3>1, <4>2
      <4>. HIDE DEF next, more, d
      <4>. QED  BY <4>3, <4>4 DEF RowCounted
    <3>3. usage = [m \in Required(Missing(d)) |-> Used(m) + Needed(Missing(d), m)]
      BY <2>3, <2>6, <2>8, Consumed
    <3>4. ASSUME message.locks, ~torn, NEW m \in Months
          PROVE  Cardinality(ReachedOver(next, more, m))
                    <= IF m \in DOMAIN usage THEN usage[m] ELSE Used(m)
      <4>. HIDE DEF next, more, usage, streak, goesOn
      <4>1. /\ ReachedOver(next, dates \union {d}, m)
                   \subseteq ReachedOver(row, dates, m) \union {e \in Missing(d) : MonthOf(e) = m}
            /\ Cardinality(ReachedOver(next, dates \union {d}, m))
                   <= Cardinality(ReachedOver(row, dates, m)) + Needed(Missing(d), m)
            /\ Needed(Missing(d), m) \in Nat
        <5>1. row.last # NoDate /\ d > row.last /\ d \in Dates /\ RowCounted(row, dates)
          BY <2>3, <2>5, <2>8 DEF goesOn
        <5>. HIDE DEF d, row, dates
        <5>. QED  BY <2>4, <2>6, <5>1, GapGrows
      <4>2. /\ Cardinality(ReachedOver(row, dates, m)) <= Used(m) /\ Used(m) \in Nat
            /\ Cardinality(ReachedOver(row, dates, m)) \in Nat
            /\ Cardinality(ReachedOver(next, more, m)) \in Nat
        BY <2>3, <3>4, UsedType, ReachedFinite
      <4>3. CASE m \in Required(Missing(d))
        <5>1. m \in DOMAIN usage /\ usage[m] = Used(m) + Needed(Missing(d), m)
          BY <3>3, <4>3
        <5>. QED  BY <3>1, <4>1, <4>2, <5>1
      <4>4. CASE m \notin Required(Missing(d))
        <5>1. {e \in Missing(d) : MonthOf(e) = m} = {} /\ m \notin DOMAIN usage
          BY <3>3, <4>4 DEF Required
        <5>2. ReachedOver(next, more, m) \subseteq ReachedOver(row, dates, m)
          BY <3>1, <4>1, <5>1
        <5>3. Cardinality(ReachedOver(next, more, m)) <= Cardinality(ReachedOver(row, dates, m))
          BY <5>2, ReachedFinite, FS_Subset
        <5>. QED  BY <4>2, <5>1, <5>3
      <4>. QED  BY <4>3, <4>4
    <3>5. message.locks
      BY <2>3, <2>8
    <3>. HIDE DEF next, more, usage
    <3>. QED  BY <2>2, <2>7, <3>2, <3>4, <3>5 DEF CountedBy
  <2>9. CASE ~goesOn
    <3>1. more = {d} /\ streak = 1
      BY <2>9
    <3>2. RowCounted(next, more)
      <4>1. next.streak = 1 /\ next.last = d /\ next.last # NoDate /\ d \in Dates /\ d \in Nat
        BY <2>3, <2>4, <3>1 DEF Dates
      <4>2. Cardinality({d}) = 1
        BY FS_Singleton
      <4>. HIDE DEF next, more, d
      <4>. QED  BY <3>1, <4>1, <4>2 DEF RowCounted
    <3>3. \A m : ReachedOver(next, more, m) = {}
      BY <2>3, <2>4, <3>1 DEF ReachedOver, Dates
    <3>4. ASSUME NEW m \in Months
          PROVE  Cardinality(ReachedOver(next, more, m))
                    <= IF m \in DOMAIN usage THEN usage[m] ELSE Used(m)
      <4>1. Cardinality(ReachedOver(next, more, m)) = 0
        BY <3>3, FS_EmptySet
      <4>2. Used(m) \in Nat /\ (m \in DOMAIN usage => usage[m] \in Nat)
        BY <2>3, <2>7, UsedType
      <4>. QED  BY <4>1, <4>2
    <3>. HIDE DEF next, more, usage
    <3>. QED  BY <2>2, <2>7, <3>2, <3>3, <3>4 DEF CountedBy
  <2>. QED  BY <2>8, <2>9
<1>. QED  BY <1>1, <1>2

LEMMA GapsAward ==
    ASSUME GapInv, NEW requested \in 0..DayCap, Award(requested)
    PROVE  GapInv'
<1>. DEFINE d == message.date
            after == IF Xp(daily, d) + requested > DayCap THEN DayCap
                     ELSE Xp(daily, d) + requested
            advanced == IF Xp(daily, d) < Threshold /\ Threshold <= after
                        THEN Advance(d) ELSE message
<1>1. /\ message.at = "entered" /\ UNCHANGED <<member, used, counted, torn>>
      /\ message' = [advanced EXCEPT !.at = "awarded", !.xp = after]
  BY DEF Award
<1>2. StreakInv'
  BY AwardKeeps DEF GapInv
<1>3. /\ CountedBy(advanced)
      /\ advanced \in [at : {"entered"}, date : {d}, locks : {message.locks}, member : WeakRows,
                        xp : {message.xp}, usage : {advanced.usage}, counted : {advanced.counted}]
  <2>1. CASE advanced = Advance(d)
    <3>1. CountedBy(Advance(d))
      BY <1>1, AdvancedCounted
    <3>2. Advance(d) \in [at : {"entered"}, date : {d}, locks : {message.locks},
                          member : WeakRows, xp : {message.xp},
                          usage : {Advance(d).usage}, counted : {Advance(d).counted}]
      BY <1>1, AdvanceRow DEF GapInv
    <3>. HIDE DEF advanced, d
    <3>. QED  BY <2>1, <3>1, <3>2
  <2>2. CASE advanced = message
    <3>1. CountedBy(message)
      BY <1>1, EnteredCounted
    <3>2. message \in [at : {"entered"}, date : {d}, locks : {message.locks},
                       member : WeakRows, xp : {message.xp},
                       usage : {message.usage}, counted : {message.counted}]
      BY <1>1 DEF GapInv, StreakInv, StreakShape
    <3>. HIDE DEF advanced, d
    <3>. QED  BY <2>2, <3>1, <3>2
  <2>3. advanced = Advance(d) \/ advanced = message
    OBVIOUS
  <2>. HIDE DEF advanced, d
  <2>. QED  BY <2>1, <2>2, <2>3
<1>. HIDE DEF advanced, after
<1>4. /\ message'.at = "awarded" /\ message'.locks = message.locks
      /\ message'.member = advanced.member /\ message'.usage = advanced.usage
      /\ message'.counted = advanced.counted
  BY <1>1, <1>3
<1>5. UsageShape'
  BY <1>1, <1>3, <1>4 DEF GapInv, UsageShape, CountedBy
<1>6. Charged'
  BY <1>1 DEF GapInv, Charged, Exists, Used, ReachedOver
<1>7. MessageCounted'
  <2>1. RowCounted(message'.member, message'.counted)
    BY <1>3, <1>4 DEF CountedBy, RowCounted
  <2>2. ASSUME message'.locks, ~torn', NEW m \in Months
        PROVE  Cardinality(ReachedOver(message'.member, message'.counted, m)) <= UsedAfter(m)'
    <3>1. message.locks /\ ~torn
      BY <1>1, <1>4, <2>2
    <3>2. Cardinality(ReachedOver(advanced.member, advanced.counted, m))
             <= IF m \in DOMAIN advanced.usage THEN advanced.usage[m] ELSE Used(m)
      BY <1>3, <3>1 DEF CountedBy
    <3>3. UsedAfter(m)' = IF m \in DOMAIN advanced.usage THEN advanced.usage[m] ELSE Used(m)
      BY <1>1, <1>4 DEF UsedAfter, Used
    <3>. QED  BY <1>4, <3>2, <3>3
  <2>3. ASSUME ~message'.locks, NEW m \in Months
        PROVE  ReachedOver(message'.member, message'.counted, m) = {}
    <3>1. ~message.locks
      BY <1>4, <2>3
    <3>. QED  BY <1>3, <1>4, <3>1 DEF CountedBy
  <2>. QED  BY <1>4, <2>1, <2>2, <2>3 DEF MessageCounted, RowCounted, ReachedOver
<1>8. IF Exists' THEN RowCounted(member'[1], counted') ELSE counted' = {}
  BY <1>1 DEF GapInv, Exists, RowCounted
<1>. QED  BY <1>2, <1>5, <1>6, <1>7, <1>8 DEF GapInv, RowCounted

LEMMA GapsCommit ==
    ASSUME GapInv, Commit
    PROVE  GapInv'
<1>1. /\ message.at = "awarded" /\ member' = <<message.member>> /\ message' = NoMessage
      /\ used' = Upserted(used, message.usage) /\ counted' = message.counted
      /\ torn' = (torn /\ message.locks)
  BY DEF Commit
<1>2. StreakInv'
  BY CommitKeeps DEF GapInv
<1>3. /\ DOMAIN used' = DOMAIN used \union DOMAIN message.usage
      /\ \A m \in DOMAIN used' : used'[m] = UsedAfter(m)
  BY <1>1 DEF Upserted, UsedAfter, Used
<1>4. \A m : Used(m)' = UsedAfter(m)
  BY <1>3 DEF Used, UsedAfter
<1>5. UsageShape'
  <2>1. \A m \in DOMAIN used' : used'[m] \in 0..VipLimit
    BY <1>3, UsedType DEF GapInv
  <2>2. DOMAIN used' \subseteq Months
    BY <1>3 DEF GapInv, UsageShape
  <2>. QED  BY <1>1, <2>1, <2>2 DEF UsageShape, NoMessage
<1>6. member'[1] = message.member /\ Exists'
  BY <1>1 DEF Exists
<1>7. Charged'
  <2>. SUFFICES ASSUME ~torn', NEW m \in Months
                PROVE  Cardinality(ReachedOver(member[1], counted, m)') <= Used(m)'
    BY DEF Charged
  <2>1. ReachedOver(member[1], counted, m)' = ReachedOver(message.member, message.counted, m)
    BY <1>1, <1>6 DEF ReachedOver
  <2>2. CASE message.locks
    BY <1>1, <1>4, <2>1, <2>2 DEF GapInv, MessageCounted
  <2>3. CASE ~message.locks
    <3>1. ReachedOver(message.member, message.counted, m) = {}
      BY <1>1, <2>3 DEF GapInv, MessageCounted
    <3>2. Cardinality({}) = 0 /\ Used(m)' \in 0..VipLimit
      BY <1>4, FS_EmptySet, UsedType DEF GapInv
    <3>. QED  BY <2>1, <3>1, <3>2, StreakAssumption
  <2>. QED  BY <2>2, <2>3
<1>8. MessageCounted'
  BY <1>1 DEF MessageCounted, NoMessage
<1>9. RowCounted(member'[1], counted')
  BY <1>1, <1>6 DEF GapInv, MessageCounted, RowCounted
<1>. QED  BY <1>2, <1>5, <1>6, <1>7, <1>8, <1>9 DEF GapInv, RowCounted

LEMMA GapsBotReset ==
    ASSUME GapInv, BotReset
    PROVE  GapInv'
<1>1. used' = << >> /\ torn' = Exists /\ UNCHANGED <<member, message, counted>>
  BY DEF BotReset
<1>2. StreakInv'
  BY StreakInvStep DEF GapInv, StreakNext
<1>3. UsageShape' /\ Exists' = Exists
  BY <1>1 DEF GapInv, UsageShape, Exists
<1>4. Charged'
  BY <1>1, <1>3 DEF Charged
<1>5. MessageCounted'
  <2>1. message.at # "none" => message.locks = Exists
    BY DEF GapInv, StreakInv, MessageFits
  <2>. QED  BY <1>1, <2>1 DEF GapInv, MessageCounted, RowCounted, ReachedOver
<1>6. IF Exists' THEN RowCounted(member'[1], counted') ELSE counted' = {}
  BY <1>1, <1>3 DEF GapInv, RowCounted
<1>. QED  BY <1>2, <1>3, <1>4, <1>5, <1>6 DEF GapInv, RowCounted

LEMMA GapsDeleteMember ==
    ASSUME GapInv, DeleteMember
    PROVE  GapInv'
<1>1. /\ member' = << >> /\ counted' = {} /\ UNCHANGED message /\ ~MemberLocked
      /\ used' = Without(used, reset.used)
  BY DEF DeleteMember
<1>2. StreakInv'
  BY StreakInvStep DEF GapInv, StreakNext
<1>3. /\ DOMAIN used' \subseteq DOMAIN used /\ \A m \in DOMAIN used' : used'[m] = used[m]
  BY <1>1 DEF Without
<1>4. UsageShape' /\ ~Exists'
  BY <1>1, <1>3 DEF GapInv, UsageShape, Exists
<1>5. Charged'
  BY <1>4 DEF Charged
<1>6. MessageCounted'
  <2>1. message.at # "none" => ~message.locks
    BY <1>1 DEF MemberLocked
  <2>. QED  BY <1>1, <2>1 DEF GapInv, MessageCounted, RowCounted, ReachedOver
<1>. QED  BY <1>1, <1>2, <1>4, <1>5, <1>6 DEF GapInv

LEMMA GapInvStep == GapInv /\ [StreakNext]_streakVars => GapInv'
<1>. SUFFICES ASSUME GapInv, [StreakNext]_streakVars PROVE GapInv'
  OBVIOUS
<1>0. StreakInv'
  BY StreakInvStep DEF GapInv
<1>1. CASE NextDate \/ ChangeVip \/ ApiReset \/ DeleteDaily \/ DeleteUsage \/ AbortReset
           \/ UNCHANGED streakVars
  <2>1. UNCHANGED <<member, used, message, counted, torn>>
    BY <1>1
       DEF NextDate, ChangeVip, ApiReset, DeleteDaily, DeleteUsage, AbortReset, streakVars
  <2>. QED
    BY <1>0, <2>1
       DEF GapInv, UsageShape, Charged, MessageCounted, RowCounted, ReachedOver, Exists, Used,
           UsedAfter
<1>2. CASE AbortMessage
  <2>1. message' = NoMessage /\ UNCHANGED <<member, used, counted, torn>>
    BY <1>2 DEF AbortMessage
  <2>2. UsageShape' /\ MessageCounted'
    BY <2>1 DEF GapInv, UsageShape, MessageCounted, NoMessage
  <2>3. Charged' /\ IF Exists' THEN RowCounted(member'[1], counted') ELSE counted' = {}
    BY <2>1 DEF GapInv, Charged, ReachedOver, Exists, Used, RowCounted
  <2>. QED  BY <1>0, <2>2, <2>3 DEF GapInv, RowCounted
<1>. QED
  BY <1>1, <1>2, GapsEnter, GapsAward, GapsCommit, GapsBotReset, GapsDeleteMember DEF StreakNext

\* Every day a streak reaches over is charged to a protection of its own month and within
\* the limit, unless a reset of the bot broke off in between (gamification_v2.py:70,
\* bot/routers/settings.py:365).
THEOREM GapsAreAlwaysPaid == StreakSpec => []GapsArePaid
<1>1. GapInv => GapsArePaid
  <2>1. StreakAssumption
    BY StreakAssumption
  <2>. QED
    BY <2>1 DEF GapInv, GapsArePaid, UsageShape, Charged, RowCounted
<1>. QED  BY <1>1, GapInvInit, GapInvStep, PTL DEF StreakSpec

-----------------------------------------------------------------------------
(* Types: a streak is no longer than the calendar. *)

LEMMA InRows ==
    ASSUME NEW f, NEW S, NEW T
    PROVE  f \in Rows(S, T) <=> DOMAIN f \subseteq S /\ f \in [DOMAIN f -> T]
BY DEF Rows

LEMMA EmptyRow ==
    ASSUME NEW S, NEW T
    PROVE  << >> \in Rows(S, T)
<1>1. << >> \in [{} -> T]
  OBVIOUS
<1>2. {} \in SUBSET S
  OBVIOUS
<1>. QED  BY <1>1, <1>2, Zenon DEF Rows

LEMMA UpsertedRows ==
    ASSUME NEW S, NEW T, NEW f \in Rows(S, T), NEW g \in Rows(S, T)
    PROVE  Upserted(f, g) \in Rows(S, T)
BY InRows DEF Upserted

LEMMA WithoutRows ==
    ASSUME NEW S, NEW T, NEW f \in Rows(S, T), NEW D
    PROVE  Without(f, D) \in Rows(S, T)
BY InRows DEF Without

LEMMA CountedLength ==
    ASSUME NEW row, NEW dates, RowCounted(row, dates)
    PROVE  row.streak \in 0..LastDate
<1>1. IsFiniteSet(1..LastDate) /\ Cardinality(1..LastDate) = LastDate
  BY StreakAssumption, FS_Interval
<1>2. Cardinality(dates) <= LastDate /\ Cardinality(dates) \in Nat
  BY <1>1, FS_Subset, FS_CardinalityType DEF RowCounted, Dates
<1>. QED  BY <1>2, StreakAssumption DEF RowCounted

StreakTyped == GapInv /\ StreakTypeOK

LEMMA StreakTypedInit == StreakInit => StreakTyped
<1>. SUFFICES ASSUME StreakInit PROVE StreakTypeOK
  BY GapInvInit DEF StreakTyped
<1>. USE StreakAssumption
<1>1. \A S, T : << >> \in Rows(S, T)
  BY EmptyRow
<1>2. NewMember \in MemberRows
  BY DEF NewMember, MemberRows
<1>3. NoMessage \in Messages
  BY <1>1, <1>2 DEF NoMessage, Messages
<1>4. NoReset \in Resets
  BY DEF NoReset, Resets
<1>5. /\ vip \in BOOLEAN /\ counted \subseteq Dates /\ torn \in BOOLEAN /\ ~Exists
  BY DEF StreakInit, Exists
<1>6. today \in Dates /\ resets \in 0..MaxResets /\ aborts \in 0..MaxAborts
  BY DEF StreakInit, Dates
<1>7. daily \in Rows(Dates, 0..DayCap) /\ used \in Rows(Months, 0..VipLimit)
      /\ message \in Messages /\ reset \in Resets
  BY <1>1, <1>3, <1>4 DEF StreakInit
<1>. QED  BY <1>5, <1>6, <1>7 DEF StreakTypeOK

LEMMA AdvanceTyped ==
    ASSUME StreakTyped, message.at = "entered"
    PROVE  Advance(message.date) \in Messages
<1>. DEFINE d == message.date
            goesOn == message.member.last # NoDate /\ Refused(Missing(d)) = {}
            streak == IF goesOn THEN message.member.streak + 1 ELSE 1
            next == [streak |-> streak, last |-> d,
                     longest |-> IF streak > message.member.longest
                                 THEN streak ELSE message.member.longest]
            more == IF goesOn THEN message.counted \union {d} ELSE {d}
            usage == IF message.member.last = NoDate THEN << >> ELSE Consume(Missing(d))
<1>1. message \in Messages /\ d \in Dates
  BY DEF StreakTyped, StreakTypeOK, GapInv, StreakInv, MessageFits
<1>2. CASE message.member.last # NoDate /\ d <= message.member.last
  BY <1>1, <1>2 DEF Advance
<1>3. CASE ~(message.member.last # NoDate /\ d <= message.member.last)
  <2>1. Advance(d) = [message EXCEPT !.member = next, !.counted = more, !.usage = usage]
    BY <1>3 DEF Advance
  <2>2. Advance(d).member = next
    <3>. HIDE DEF next, more, usage, d
    <3>. QED  BY <1>1, <2>1 DEF Messages
  <2>3. streak \in 0..LastDate
    <3>1. RowCounted(next, Advance(d).counted)
      BY <2>2, AdvancedCounted DEF StreakTyped, CountedBy
    <3>2. next.streak \in 0..LastDate
      <4>. HIDE DEF next
      <4>. QED  BY <3>1, CountedLength
    <3>. QED  BY <3>2
  <2>4. next \in MemberRows
    BY <1>1, <2>3 DEF Messages, MemberRows
  <2>5. more \in SUBSET Dates
    BY <1>1 DEF Messages
  <2>6. usage \in Rows(Months, 0..VipLimit)
    <3>1. Missing(d) \in SUBSET Dates
      BY DEF Missing
    <3>2. Consume(Missing(d)) \in [DOMAIN Consume(Missing(d)) -> 0..VipLimit]
          /\ DOMAIN Consume(Missing(d)) \subseteq Months
      <4>1. \A S \in SUBSET Dates :
               Consume(S) = [m \in DOMAIN Consume(S) |-> Consume(S)[m]]
        BY DEF Consume
      <4>. QED  BY <3>1, <4>1, Consumed DEF StreakTyped, GapInv
    <3>3. << >> \in Rows(Months, 0..VipLimit)
      BY EmptyRow
    <3>. QED  BY <3>2, <3>3, InRows
  <2>. HIDE DEF next, more, usage, d
  <2>. QED  BY <1>1, <2>1, <2>4, <2>5, <2>6 DEF Messages, d
<1>. QED  BY <1>2, <1>3

LEMMA StreakTypedStep == StreakTyped /\ [StreakNext]_streakVars => StreakTyped'
<1>. SUFFICES ASSUME StreakTyped, [StreakNext]_streakVars PROVE StreakTypeOK'
  BY GapInvStep DEF StreakTyped
<1>. USE StreakAssumption
<1>0. /\ NewMember \in MemberRows /\ NoReset \in Resets /\ NoMessage \in Messages
      /\ \A S, T : << >> \in Rows(S, T)
  <2>1. \A S, T : << >> \in Rows(S, T)
    BY EmptyRow
  <2>2. NewMember \in MemberRows
    BY DEF NewMember, MemberRows
  <2>. QED  BY <2>1, <2>2 DEF NoReset, Resets, NoMessage, Messages
<1>1. CASE NextDate
  BY <1>1 DEF StreakTyped, StreakTypeOK, Exists, NextDate, Dates
<1>2. CASE ChangeVip \/ UNCHANGED streakVars
  BY <1>2 DEF StreakTyped, StreakTypeOK, Exists, ChangeVip, streakVars
<1>3. ASSUME NEW d \in Dates, Enter(d) PROVE StreakTypeOK'
  <2>1. message' \in Messages
    BY <1>0, <1>3 DEF StreakTyped, StreakTypeOK, Exists, Enter, Messages, NoMessage
  <2>. QED  BY <1>3, <2>1 DEF StreakTyped, StreakTypeOK, Exists, Enter
<1>4. ASSUME NEW requested \in 0..DayCap, Award(requested) PROVE StreakTypeOK'
  <2>. DEFINE d == message.date
              after == IF Xp(daily, d) + requested > DayCap THEN DayCap
                       ELSE Xp(daily, d) + requested
              advanced == IF Xp(daily, d) < Threshold /\ Threshold <= after
                          THEN Advance(d) ELSE message
  <2>1. message.at = "entered" /\ message' = [advanced EXCEPT !.at = "awarded", !.xp = after]
    BY <1>4 DEF Award
  <2>2. advanced \in Messages
    BY <2>1, AdvanceTyped DEF StreakTyped, StreakTypeOK
  <2>3. after \in 0..DayCap
    <3>1. Xp(daily, d) \in 0..DayCap
      BY DEF StreakTyped, GapInv, StreakInv, StreakShape, Xp
    <3>. HIDE DEF d
    <3>. QED  BY <3>1
  <2>. HIDE DEF advanced, after
  <2>4. message' \in Messages
    BY <2>1, <2>2, <2>3 DEF Messages
  <2>. QED  BY <1>4, <2>4 DEF StreakTyped, StreakTypeOK, Exists, Award
<1>5. CASE Commit
  <2>1. message \in Messages /\ message.date \in Dates
    BY <1>5 DEF StreakTyped, StreakTypeOK, GapInv, StreakInv, MessageFits, Commit
  <2>2. daily' \in Rows(Dates, 0..DayCap)
    <3>1. [d \in {message.date} |-> message.xp] \in Rows(Dates, 0..DayCap)
      BY <2>1, InRows DEF Messages
    <3>. QED  BY <1>5, <3>1, UpsertedRows DEF StreakTyped, StreakTypeOK, Commit
  <2>3. used' \in Rows(Months, 0..VipLimit)
    BY <1>5, <2>1, UpsertedRows DEF StreakTyped, StreakTypeOK, Commit, Messages
  <2>4. member' = <<message.member>> /\ DOMAIN member' = {1} /\ member'[1] \in MemberRows
    BY <1>5, <2>1 DEF Commit, Messages
  <2>5. counted' \subseteq Dates /\ torn' \in BOOLEAN
    BY <1>5, <2>1 DEF StreakTyped, StreakTypeOK, Commit, Messages
  <2>. QED
    BY <1>0, <1>5, <2>2, <2>3, <2>4, <2>5 DEF StreakTyped, StreakTypeOK, Commit
<1>6. CASE BotReset
  <2>1. reset' = [NoReset EXCEPT !.by = "bot", !.at = "daily"]
        /\ resets < MaxResets /\ resets' = resets + 1
    BY <1>6 DEF BotReset
  <2>2. reset' \in Resets
    BY <2>1 DEF NoReset, Resets
  <2>3. resets' \in 0..MaxResets
    BY <2>1 DEF StreakTyped, StreakTypeOK
  <2>4. torn' \in BOOLEAN
    BY <1>6 DEF BotReset, Exists
  <2>. QED
    BY <1>0, <1>6, <2>2, <2>3, <2>4 DEF StreakTyped, StreakTypeOK, Exists, BotReset
<1>7. CASE ApiReset
  <2>1. reset' = [NoReset EXCEPT !.by = "api"] /\ resets < MaxResets /\ resets' = resets + 1
    BY <1>7 DEF ApiReset
  <2>2. reset' \in Resets
    BY <2>1 DEF NoReset, Resets
  <2>3. resets' \in 0..MaxResets
    BY <2>1 DEF StreakTyped, StreakTypeOK
  <2>. QED  BY <1>7, <2>2, <2>3 DEF StreakTyped, StreakTypeOK, Exists, ApiReset
<1>8. CASE DeleteDaily
  <2>1. DOMAIN daily \subseteq Dates
    BY InRows DEF StreakTyped, StreakTypeOK
  <2>2. reset' \in Resets
    BY <1>8, <2>1 DEF StreakTyped, StreakTypeOK, DeleteDaily, Resets
  <2>. QED  BY <1>8, <2>2 DEF StreakTyped, StreakTypeOK, Exists, DeleteDaily
<1>9. CASE DeleteUsage
  <2>1. DOMAIN used \subseteq Months
    BY InRows DEF StreakTyped, StreakTypeOK
  <2>2. reset' \in Resets
    BY <1>9, <2>1 DEF StreakTyped, StreakTypeOK, DeleteUsage, Resets
  <2>. QED  BY <1>9, <2>2 DEF StreakTyped, StreakTypeOK, Exists, DeleteUsage
<1>10. CASE DeleteMember
  <2>1. daily' \in Rows(Dates, 0..DayCap) /\ used' \in Rows(Months, 0..VipLimit)
    BY <1>10, WithoutRows DEF StreakTyped, StreakTypeOK, DeleteMember
  <2>. QED  BY <1>0, <1>10, <2>1 DEF StreakTyped, StreakTypeOK, Exists, DeleteMember
<1>11. ASSUME Aborted, UNCHANGED resets
       PROVE  aborts' \in 0..MaxAborts
  BY <1>11 DEF StreakTyped, StreakTypeOK, Aborted
<1>12. CASE AbortMessage
  BY <1>0, <1>11, <1>12 DEF StreakTyped, StreakTypeOK, Exists, AbortMessage
<1>13. CASE AbortReset
  BY <1>0, <1>11, <1>13 DEF StreakTyped, StreakTypeOK, Exists, AbortReset
<1>. QED
  BY <1>1, <1>2, <1>3, <1>4, <1>5, <1>6, <1>7, <1>8, <1>9, <1>10, <1>12, <1>13 DEF StreakNext

\* Every value that a streak, its days or its protections take is of its type: a streak,
\* whatever is charged to it, is no longer than the calendar (gamification.py:718).
THEOREM StreaksAreTyped == StreakSpec => []StreakTypeOK
<1>1. StreakTyped => StreakTypeOK
  BY DEF StreakTyped
<1>. QED  BY <1>1, StreakTypedInit, StreakTypedStep, PTL DEF StreakSpec

-----------------------------------------------------------------------------
(* Levels.  Both formulas find the one level whose interval holds the      *)
(* total: the intervals are consecutive, and the search ends by the        *)
(* well-foundedness of the numbers.                                        *)

Less == {p \in Nat \X Nat : p[1] < p[2]}

LEMMA Smallest ==
    ASSUME NEW S, S \subseteq Nat, S # {}
    PROVE  \E n \in S : \A m \in S : n <= m
<1>1. IsWellFoundedOn(Less, Nat)
  BY NatLessThanWellFounded DEF OpToRel, Less
<1>2. PICK n \in S : \A m \in S : ~(<<m, n>> \in Less)
  BY <1>1, WFMin, Zenon
<1>3. ASSUME NEW m \in S PROVE n <= m
  <2>1. m \in Nat /\ n \in Nat
    OBVIOUS
  <2>2. m < n => <<m, n>> \in Less
    BY <2>1 DEF Less
  <2>. QED  BY <1>2, <2>1, <2>2
<1>. QED  BY <1>3

\* Level 1 begins at nothing, and no total is beyond all levels.
LEMMA Thresholds ==
    /\ XpThreshold(1) = 0
    /\ \A l \in Nat : XpThreshold(l) \in Int
    /\ \A l \in Nat, xp \in Nat : l > xp => XpThreshold(l + 1) > xp
<1>. USE RulesAssumption
<1>1. XpThreshold(1) = 0
  BY DEF XpThreshold
<1>2. ASSUME NEW l \in Nat PROVE XpThreshold(l) \in Int
  BY DEF XpThreshold
<1>3. ASSUME NEW l \in Nat, NEW xp \in Nat, l > xp PROVE XpThreshold(l + 1) > xp
  <2>1. XpThreshold(l + 1) = LevelUnit * (l * (l + 1))
    BY DEF XpThreshold
  <2>2. l * (l + 1) >= l
    BY <1>3
  <2>3. l * (l + 1) \in Nat
    OBVIOUS
  <2>4. \A a \in Nat : LevelUnit * a >= a
    OBVIOUS
  <2>. QED  BY <1>3, <2>1, <2>2, <2>3, <2>4
<1>. QED  BY <1>1, <1>2, <1>3

Fits(l, xp) == XpThreshold(l) <= xp /\ xp < XpThreshold(l + 1)

LEMMA SomeLevelFits ==
    ASSUME NEW xp \in Nat
    PROVE  \E l \in 1..(xp + 1) : Fits(l, xp)
<1>. DEFINE S == {l \in Nat : l >= 1 /\ XpThreshold(l + 1) > xp}
<1>1. xp + 1 \in S
  BY Thresholds
<1>2. PICK l \in S : \A m \in S : l <= m
  <2>. HIDE DEF S
  <2>1. S \subseteq Nat
    BY DEF S
  <2>. QED  BY <1>1, <2>1, Smallest
<1>3. l \in 1..(xp + 1) /\ XpThreshold(l + 1) > xp
  BY <1>1, <1>2
<1>4. XpThreshold(l) <= xp
  <2>1. CASE l = 1
    BY <2>1, Thresholds
  <2>2. CASE l # 1
    <3>1. l - 1 \in Nat /\ l - 1 >= 1 /\ (l - 1) + 1 = l
      BY <1>3, <2>2
    <3>2. l - 1 \notin S
      BY <1>2, <3>1
    <3>3. XpThreshold(l) \in Int
      BY <1>3, Thresholds
    <3>. QED  BY <3>1, <3>2, <3>3
  <2>. QED  BY <2>1, <2>2
<1>. QED  BY <1>3, <1>4 DEF Fits

LEMMA LevelOfFits ==
    ASSUME NEW xp \in Nat
    PROVE  LevelOf(xp) \in 1..(xp + 1) /\ Fits(LevelOf(xp), xp)
BY SomeLevelFits DEF LevelOf, Fits

\* The first loop goes up until the next level is out of reach.
LEMMA RaisedReaches ==
    ASSUME NEW xp \in Nat, NEW l \in Nat \ {0}
    PROVE  Raised(l, xp) \in Nat \ {0} /\ xp < XpThreshold(Raised(l, xp) + 1)
<1>. DEFINE S == {k \in Nat : k >= l /\ XpThreshold(k + 1) > xp}
<1>1. l + xp + 1 \in S
  <2>1. l + xp + 1 \in Nat /\ l + xp + 1 > xp
    OBVIOUS
  <2>. QED  BY <2>1, Thresholds
<1>2. PICK k \in S : \A m \in S : k <= m
  <2>. HIDE DEF S
  <2>1. S \subseteq Nat
    BY DEF S
  <2>. QED  BY <1>1, <2>1, Smallest
<1>3. k \in l..(l + xp + 1) /\ XpThreshold(k + 1) > xp
  BY <1>1, <1>2
<1>4. ASSUME NEW j \in l..(k - 1) PROVE XpThreshold(j + 1) <= xp
  <2>1. j \in Nat /\ j >= l /\ j < k /\ j + 1 \in Nat
    BY <1>3
  <2>2. j \notin S
    BY <1>2, <2>1
  <2>3. XpThreshold(j + 1) \in Int
    BY <2>1, Thresholds
  <2>. QED  BY <2>1, <2>2, <2>3
<1>5. \E r \in l..(l + xp + 1) :
         XpThreshold(r + 1) > xp /\ \A j \in l..(r - 1) : XpThreshold(j + 1) <= xp
  BY <1>3, <1>4
<1>6. Raised(l, xp) \in l..(l + xp + 1) /\ XpThreshold(Raised(l, xp) + 1) > xp
  BY <1>5 DEF Raised
<1>. QED  BY <1>6

\* The second goes down until the level has begun.
LEMMA LoweredFits ==
    ASSUME NEW xp \in Nat, NEW l \in Nat \ {0}, xp < XpThreshold(l + 1)
    PROVE  Lowered(l, xp) \in Nat \ {0} /\ Fits(Lowered(l, xp), xp)
<1>. DEFINE S == {i \in Nat : i < l /\ (l - i = 1 \/ XpThreshold(l - i) <= xp)}
<1>1. l - 1 \in S
  OBVIOUS
<1>2. PICK i \in S : \A m \in S : i <= m
  <2>. HIDE DEF S
  <2>1. S \subseteq Nat
    BY DEF S
  <2>. QED  BY <1>1, <2>1, Smallest
<1>. DEFINE k == l - i
<1>3. k \in 1..l /\ (k = 1 \/ XpThreshold(k) <= xp)
  BY <1>2
<1>4. ASSUME NEW j \in (k + 1)..l PROVE XpThreshold(j) > xp
  <2>0. i \in Nat /\ i < l /\ j \in Int /\ j >= l - i + 1 /\ j <= l
    BY <1>2
  <2>1. l - j \in Nat /\ l - j < i /\ l - j < l /\ l - (l - j) = j /\ j # 1 /\ j \in Nat
    BY <2>0
  <2>2. l - j \notin S
    <3>1. \A x \in S : i <= x
      BY <1>2
    <3>. HIDE DEF S
    <3>. QED  BY <2>0, <2>1, <3>1
  <2>3. XpThreshold(j) \in Int
    BY <2>1, Thresholds
  <2>. QED  BY <2>1, <2>2, <2>3
<1>5. \E r \in 1..l : (r = 1 \/ XpThreshold(r) <= xp) /\ \A j \in (r + 1)..l : XpThreshold(j) > xp
  BY <1>3, <1>4
<1>. DEFINE r == Lowered(l, xp)
<1>6. r \in 1..l /\ (r = 1 \/ XpThreshold(r) <= xp) /\ \A j \in (r + 1)..l : XpThreshold(j) > xp
  BY <1>5 DEF Lowered
<1>. HIDE DEF r
<1>7. XpThreshold(r) <= xp
  BY <1>6, Thresholds
<1>8. xp < XpThreshold(r + 1)
  <2>1. CASE r = l
    BY <2>1
  <2>2. CASE r # l
    <3>1. r + 1 \in (r + 1)..l
      BY <1>6, <2>2
    <3>. QED  BY <1>6, <3>1
  <2>. QED  BY <2>1, <2>2
<1>. QED  BY <1>6, <1>7, <1>8 DEF Fits, r

\* Wherever the root is rounded to.
LEMMA LevelForXpFits ==
    ASSUME NEW xp \in Nat, NEW guess \in Guesses(xp)
    PROVE  LevelForXp(guess, xp) \in Nat \ {0} /\ Fits(LevelForXp(guess, xp), xp)
<1>1. guess \in Nat \ {0}
  BY LevelOfFits DEF Guesses
<1>. QED  BY <1>1, RaisedReaches, LoweredFits DEF LevelForXp

-----------------------------------------------------------------------------
(* Spam.  What was given XP is in the window that an award looks at, or    *)
(* longer ago than the window reaches, which is longer than the cooldown.  *)

AwardsRecorded ==
    /\ awards \in Seq(RuleMessages)
    /\ \A i \in 1..Len(awards) : awards[i] \in authors /\ gained[awards[i]] > 0

\* The level that a change will write goes with the total that it will write.
ChangesFit ==
    /\ totalChange = [c \in Changers |-> totalChange[c]]
    /\ \A c \in Changers : \A q \in totalChange[c] :
          /\ q.amount # 0 /\ q.total + q.amount \in Nat
          /\ Fits(q.new, q.total + q.amount)

RulesInv == RulesTypeOK /\ AwardsRecorded /\ ChangesFit /\ XpIsEarned

LEMMA RulesInvInit == RulesInit => RulesInv
<1>. SUFFICES ASSUME RulesInit PROVE RulesInv
  OBVIOUS
<1>1. RulesTypeOK
  <2>1. \A c \in Changers : totalChange[c] \subseteq TotalChange
    BY DEF RulesInit
  <2>2. gained \in [RuleMessages -> 0..XpCap] /\ dayXp \in 0..XpCap
    BY RulesAssumption DEF RulesInit
  <2>3. redelivered \in 0..MaxRedeliveries /\ adjusted \in 0..MaxXpChanges
    BY RulesAssumption DEF RulesInit
  <2>4. \A i \in DOMAIN awards : awards[i] \in RuleMessages
    BY DEF RulesInit
  <2>5. authors \subseteq RuleMessages /\ total \in Nat /\ level \in Nat \ {0}
    BY DEF RulesInit
  <2>6. levelMissed \in BOOLEAN
    BY DEF RulesInit
  <2>. QED  BY <2>1, <2>2, <2>3, <2>4, <2>5, <2>6 DEF RulesTypeOK
<1>2. AwardsRecorded /\ SpamEarnsNothing /\ ChangesFit
  BY DEF RulesInit, AwardsRecorded, SpamEarnsNothing, ChangesFit
<1>3. LevelFits
  <2>1. total = 0 /\ level = 1
    BY DEF RulesInit
  <2>. QED  BY <2>1, Thresholds, RulesAssumption DEF LevelFits, XpThreshold
<1>. QED  BY <1>1, <1>2, <1>3 DEF RulesInv, XpIsEarned

LEMMA MessageXp ==
    ASSUME NEW m \in RuleMessages
    PROVE  RequestedXp(m) \in Nat
<1>1. MessageBaseXp(Content[m]) \in Nat
  BY DEF MessageBaseXp
<1>2. ASSUME NEW base \in Nat, NEW recent PROVE AdjustedXp(base, recent) \in Nat
  BY DEF AdjustedXp, Multiplier
<1>. QED  BY <1>1, <1>2 DEF RequestedXp

\* Whoever was given XP within the cooldown is seen: the latest of them is later still.
LEMMA CooldownSeen ==
    ASSUME RulesTypeOK, NEW m \in RuleMessages, NEW n \in Recent(m), gained[n] > 0,
           MessageDate[m] - MessageDate[n] < XpCooldown
    PROVE  CoolingDown(m)
<1>. USE RulesAssumption
<1>. DEFINE Awarded == {o \in Recent(m) : gained[o] > 0}
            Ages == {MessageDate[m] - MessageDate[o] : o \in Awarded}
<1>1. \A o \in Recent(m) : o \in RuleMessages /\ MessageDate[o] \in Nat
                             /\ MessageDate[o] <= MessageDate[m]
  BY DEF RulesTypeOK, Recent
<1>2. MessageDate[m] \in Nat
  OBVIOUS
<1>3. PICK age \in Ages : \A a \in Ages : age <= a
  <2>1. Ages \subseteq Nat
    BY <1>1, <1>2
  <2>2. Ages # {}
    OBVIOUS
  <2>. QED  BY <2>1, <2>2, Smallest
<1>4. PICK o \in Awarded : age = MessageDate[m] - MessageDate[o]
  BY <1>3
<1>5. \A p \in Awarded : MessageDate[p] <= MessageDate[o]
  <2>. SUFFICES ASSUME NEW p \in Awarded PROVE MessageDate[p] <= MessageDate[o]
    OBVIOUS
  <2>1. age <= MessageDate[m] - MessageDate[p]
    BY <1>3
  <2>. QED  BY <1>1, <1>2, <1>4, <2>1
<1>6. o \in LatestAwarded(Recent(m))
  BY <1>4, <1>5 DEF LatestAwarded
<1>7. MessageDate[o] >= MessageDate[n]
  BY <1>5
<1>. QED  BY <1>1, <1>2, <1>4, <1>6, <1>7 DEF CoolingDown

LEMMA TrackStep ==
    ASSUME RulesInv, NEW m \in RuleMessages, Track(m)
    PROVE  RulesInv'
<1>. DEFINE xp == IF gained[m] > 0 THEN 0 ELSE Granted(m)
<1>. USE RulesAssumption
<1>0. xp \in Nat /\ dayXp + xp <= XpCap /\ (xp > 0 => gained[m] = 0 /\ RequestedXp(m) > 0)
  <2>1. RequestedXp(m) \in Nat
    BY MessageXp
  <2>. QED  BY <2>1 DEF RulesInv, RulesTypeOK, Granted
<1>. HIDE DEF xp
<1>1. /\ authors' = authors \union {m} /\ gained' = [gained EXCEPT ![m] = @ + xp]
      /\ dayXp' = dayXp + xp /\ total' = total + xp
      /\ awards' = IF xp > 0 THEN Append(awards, m) ELSE awards
      /\ IF xp > 0 THEN \E guess \in Guesses(total + xp) : level' = LevelForXp(guess, total + xp)
                   ELSE UNCHANGED level
      /\ levelMissed' = (levelMissed /\ xp = 0) /\ UNCHANGED totalChange
  BY DEF Track, xp
<1>2. /\ total' \in Nat /\ level' \in Nat \ {0} /\ (~levelMissed' => LevelFits')
  <2>1. total \in Nat /\ total + xp \in Nat
    BY <1>0 DEF RulesInv, RulesTypeOK
  <2>2. CASE xp > 0
    <3>1. PICK guess \in Guesses(total + xp) : level' = LevelForXp(guess, total + xp)
      BY <1>1, <2>2
    <3>. QED  BY <1>1, <2>1, <3>1, LevelForXpFits DEF LevelFits, Fits, XpThreshold
  <2>3. CASE ~(xp > 0)
    <3>0. xp = 0
      BY <1>0, <2>3
    <3>1. UNCHANGED <<total, level>>
      BY <1>1, <2>1, <2>3, <3>0
    <3>2. ~levelMissed' => ~levelMissed
      BY <1>1, <3>0, Zenon
    <3>. QED  BY <3>1, <3>2 DEF RulesInv, RulesTypeOK, XpIsEarned, LevelFits, XpThreshold
  <2>. QED  BY <2>2, <2>3
<1>3. RulesTypeOK'
  <2>1. gained' \in [RuleMessages -> 0..XpCap]
    <3>1. gained[m] + xp \in 0..XpCap
      BY <1>0 DEF RulesInv, RulesTypeOK
    <3>. QED  BY <1>1, <3>1 DEF RulesInv, RulesTypeOK
  <2>2. dayXp' \in 0..XpCap
    <3>1. dayXp \in Nat
      BY DEF RulesInv, RulesTypeOK
    <3>. QED  BY <1>0, <1>1, <3>1
  <2>5. authors' \subseteq RuleMessages
    BY <1>1 DEF RulesInv, RulesTypeOK
  <2>3. redelivered' \in 0..MaxRedeliveries /\ adjusted' \in 0..MaxXpChanges
    BY DEF RulesInv, RulesTypeOK, Track
  <2>4. \A i \in DOMAIN awards' : awards'[i] \in RuleMessages
    BY <1>1 DEF RulesInv, AwardsRecorded
  <2>6. levelMissed' \in BOOLEAN /\ \A c \in Changers : totalChange'[c] \subseteq TotalChange
    <3>1. UNCHANGED totalChange
      BY <1>1
    <3>2. \A c \in Changers : totalChange[c] \subseteq TotalChange
      BY DEF RulesInv, RulesTypeOK
    <3>3. levelMissed' \in BOOLEAN
      BY <1>1
    <3>. QED  BY <3>1, <3>2, <3>3
  <2>. QED  BY <1>2, <2>1, <2>2, <2>3, <2>4, <2>5, <2>6 DEF RulesTypeOK
<1>7. ChangesFit'
  BY <1>1 DEF RulesInv, ChangesFit, Fits, XpThreshold
<1>4. \A n \in RuleMessages : gained[n] > 0 => gained'[n] > 0
  BY <1>0, <1>1 DEF RulesInv, RulesTypeOK
<1>5. CASE ~(xp > 0)
  <2>1. awards' = awards
    BY <1>1, <1>5
  <2>2. AwardsRecorded'
    BY <1>1, <1>4, <2>1 DEF RulesInv, AwardsRecorded
  <2>3. SpamEarnsNothing'
    BY <2>1 DEF RulesInv, XpIsEarned, SpamEarnsNothing, Similar
  <2>. QED  BY <1>2, <1>3, <1>7, <2>2, <2>3 DEF RulesInv, XpIsEarned
<1>6. CASE xp > 0
  <2>1. awards' = Append(awards, m) /\ awards \in Seq(RuleMessages)
    BY <1>1, <1>6 DEF RulesInv, AwardsRecorded
  <2>2. /\ awards' \in Seq(RuleMessages) /\ Len(awards') = Len(awards) + 1
        /\ \A i \in 1..Len(awards) : awards'[i] = awards[i]
        /\ awards'[Len(awards) + 1] = m
        /\ DOMAIN awards' = 1..(Len(awards) + 1) /\ DOMAIN awards = 1..Len(awards)
        /\ Len(awards) \in Nat
    BY <2>1
  <2>3. AwardsRecorded'
    <3>1. gained'[m] > 0
      BY <1>0, <1>1, <1>6 DEF RulesInv, RulesTypeOK
    <3>. QED  BY <1>1, <1>4, <2>2, <3>1 DEF RulesInv, AwardsRecorded
  \* The new message is behind a cooldown, and unlike what the window shows.
  <2>4. ASSUME NEW i \in 1..Len(awards), MessageDate[m] - MessageDate[awards[i]] >= 0
        PROVE  /\ MessageDate[m] - MessageDate[awards[i]] >= XpCooldown
               /\ MessageDate[m] - MessageDate[awards[i]] <= BurstWindow
                     => ~Similar(m, awards[i])
    <3>. DEFINE n == awards[i]
    <3>1. n \in authors /\ gained[n] > 0 /\ n \in RuleMessages
      BY <2>1 DEF RulesInv, AwardsRecorded
    <3>2. n # m
      BY <1>0, <1>6, <3>1
    <3>3. MessageDate[m] \in Nat /\ MessageDate[n] \in Nat
      BY <3>1
    <3>. HIDE DEF n
    <3>4. MessageDate[m] - MessageDate[n] <= BurstWindow => n \in Recent(m)
      BY <2>4, <3>1, <3>2, <3>3 DEF Recent, n
    <3>5. ~CoolingDown(m) /\ \A o \in Recent(m) : ~Similar(m, o)
      BY <1>0, <1>6 DEF RequestedXp
    <3>6. MessageDate[m] - MessageDate[n] >= XpCooldown
      <4>. SUFFICES ASSUME MessageDate[m] - MessageDate[n] < XpCooldown PROVE FALSE
        BY <3>3
      <4>1. n \in Recent(m)
        BY <3>3, <3>4
      <4>. QED  BY <3>1, <3>5, <4>1, CooldownSeen DEF RulesInv
    <3>. QED  BY <3>4, <3>5, <3>6 DEF n
  <2>5. SpamEarnsNothing'
    <3>. SUFFICES ASSUME NEW j \in 1..(Len(awards) + 1), NEW i \in 1..(j - 1),
                         MessageDate[awards'[j]] - MessageDate[awards'[i]] >= 0
                  PROVE  LET gap == MessageDate[awards'[j]] - MessageDate[awards'[i]] IN
                         /\ gap >= XpCooldown
                         /\ gap <= BurstWindow => ~Similar(awards'[j], awards'[i])
      BY <2>2 DEF SpamEarnsNothing, Similar
    <3>1. CASE j = Len(awards) + 1
      <4>1. i \in 1..Len(awards) /\ awards'[i] = awards[i] /\ awards'[j] = m
        BY <2>2, <3>1
      <4>. QED  BY <2>4, <4>1
    <3>2. CASE j # Len(awards) + 1
      <4>0. Len(awards) \in Nat
        BY <2>2
      <4>1. j \in 1..Len(awards) /\ i \in 1..Len(awards)
        BY <3>2, <4>0
      <4>2. awards'[i] = awards[i] /\ awards'[j] = awards[j]
        BY <2>2, <4>1
      <4>. QED  BY <2>2, <4>1, <4>2 DEF RulesInv, XpIsEarned, SpamEarnsNothing
    <3>. QED  BY <3>1, <3>2
  <2>. QED  BY <1>2, <1>3, <1>7, <2>3, <2>5 DEF RulesInv, XpIsEarned
<1>. QED  BY <1>0, <1>5, <1>6

\* What the rules of messages are about is left alone by a change of the total.
RestKept == UNCHANGED <<authors, gained, dayXp, redelivered, awards>>

LEMMA RestIsKept ==
    ASSUME RulesInv, RestKept, RulesTypeOK', ChangesFit', ~levelMissed' => LevelFits'
    PROVE  RulesInv'
BY DEF RulesInv, RestKept, AwardsRecorded, XpIsEarned, SpamEarnsNothing, Similar

LEMMA ReadTotalStep ==
    ASSUME RulesInv, NEW c \in Changers, NEW amount \in Int, amount # 0,
           NEW new \in Nat \ {0}, Fits(new, total + amount), ReadTotal(c, amount, new)
    PROVE  RulesInv'
<1>. DEFINE q == [amount |-> amount, total |-> total, level |-> level, new |-> new]
<1>1. /\ totalChange' = [totalChange EXCEPT ![c] = {q}]
      /\ UNCHANGED <<authors, gained, dayXp, total, level, redelivered, adjusted, awards, levelMissed>>
      /\ total + amount >= 0
  BY DEF ReadTotal
<1>2. total \in Nat /\ level \in Nat \ {0} /\ total + amount \in Nat
  BY <1>1 DEF RulesInv, RulesTypeOK
<1>3. q \in TotalChange
  BY <1>2 DEF TotalChange
<1>4. RulesTypeOK'
  <2>1. \A d \in Changers : totalChange'[d] \subseteq TotalChange
    BY <1>1, <1>3 DEF RulesInv, RulesTypeOK, ChangesFit
  <2>. QED  BY <1>1, <2>1 DEF RulesInv, RulesTypeOK
<1>5. q.amount # 0 /\ q.total + q.amount \in Nat /\ Fits(q.new, q.total + q.amount)
  BY <1>2
<1>. HIDE DEF q
<1>6. ChangesFit'
  <2>1. totalChange' = [d \in Changers |-> totalChange'[d]]
    BY <1>1 DEF RulesInv, ChangesFit
  <2>2. ASSUME NEW d \in Changers, NEW p \in totalChange'[d]
        PROVE  p.amount # 0 /\ p.total + p.amount \in Nat /\ Fits(p.new, p.total + p.amount)
    <3>1. CASE d = c
      BY <1>1, <1>5, <3>1 DEF RulesInv, ChangesFit
    <3>2. CASE d # c
      BY <1>1, <3>2 DEF RulesInv, ChangesFit
    <3>. QED  BY <3>1, <3>2
  <2>. QED  BY <2>1, <2>2 DEF ChangesFit, Fits, XpThreshold
<1>7. ~levelMissed' => LevelFits'
  BY <1>1 DEF RulesInv, XpIsEarned, LevelFits, XpThreshold
<1>. QED  BY <1>1, <1>4, <1>6, <1>7, RestIsKept DEF RestKept

\* What a commit leaves alone of a level it has read as it is now is the level to write.
LEMMA ChangeTotalStep ==
    ASSUME RulesInv, NEW c \in Changers, ChangeTotal(c)
    PROVE  RulesInv'
<1>1. PICK q \in totalChange[c] :
        /\ adjusted < MaxXpChanges /\ adjusted' = adjusted + 1
        /\ total' = Written(q.total + q.amount, q.total, total)
        /\ level' = Written(q.new, q.level, level)
        /\ levelMissed' = (q.level # level)
        /\ totalChange' = [totalChange EXCEPT ![c] = {}]
        /\ UNCHANGED <<authors, gained, dayXp, redelivered, awards>>
  BY DEF ChangeTotal
<1>2. q \in TotalChange /\ q.amount # 0 /\ q.total + q.amount \in Nat
      /\ Fits(q.new, q.total + q.amount)
  BY DEF RulesInv, RulesTypeOK, ChangesFit
<1>3. q.total \in Nat /\ q.amount \in Int /\ q.new \in Nat \ {0} /\ level \in Nat \ {0}
  BY <1>2 DEF RulesInv, RulesTypeOK, TotalChange
<1>4. total' = q.total + q.amount /\ level' \in {q.new, level} /\ (~levelMissed' => level' = q.new)
  <2>1. q.total + q.amount # q.total
    BY <1>2, <1>3
  <2>2. ~levelMissed' => q.level = level
    BY <1>1, Zenon
  <2>3. q.level = level => level' = q.new
    BY <1>1 DEF Written
  <2>. QED  BY <1>1, <2>1, <2>2, <2>3 DEF Written
<1>5. ~levelMissed' => LevelFits'
  BY <1>2, <1>4 DEF Fits, LevelFits, XpThreshold
<1>6. RulesTypeOK'
  <2>1. total' \in Nat /\ level' \in Nat \ {0} /\ levelMissed' \in BOOLEAN
    BY <1>1, <1>2, <1>3, <1>4
  <2>2. \A d \in Changers : totalChange'[d] \subseteq TotalChange
    BY <1>1 DEF RulesInv, RulesTypeOK, ChangesFit
  <2>3. adjusted' \in 0..MaxXpChanges
    BY <1>1, RulesAssumption DEF RulesInv, RulesTypeOK
  <2>. QED  BY <1>1, <2>1, <2>2, <2>3 DEF RulesInv, RulesTypeOK
<1>7. ChangesFit'
  BY <1>1 DEF RulesInv, ChangesFit, Fits, XpThreshold
<1>. QED  BY <1>1, <1>5, <1>6, <1>7, RestIsKept DEF RestKept

LEMMA RulesInvStep == RulesInv /\ [RulesNext]_ruleVars => RulesInv'
<1>. SUFFICES ASSUME RulesInv, [RulesNext]_ruleVars PROVE RulesInv'
  OBVIOUS
<1>1. ASSUME NEW c \in Changers, ReadAdjusted(c) PROVE RulesInv'
  <2>1. PICK amount \in Adjustments : ReadTotal(c, amount, LevelOf(total + amount))
    BY <1>1 DEF ReadAdjusted
  <2>2. amount \in Int /\ amount # 0
    BY RulesAssumption DEF Adjustments
  <2>3. total + amount \in Nat
    BY <2>1, <2>2 DEF ReadTotal, RulesInv, RulesTypeOK
  <2>. QED  BY <2>1, <2>2, <2>3, LevelOfFits, ReadTotalStep
<1>2. ASSUME NEW c \in Changers, ReadRewarded(c) PROVE RulesInv'
  <2>1. PICK amount \in Rewards : \E guess \in Guesses(total + amount) :
          ReadTotal(c, amount, LevelForXp(guess, total + amount))
    BY <1>2 DEF ReadRewarded
  <2>2. amount \in Int /\ amount # 0 /\ total + amount \in Nat
    BY RulesAssumption DEF Rewards, RulesInv, RulesTypeOK
  <2>3. PICK guess \in Guesses(total + amount) :
          ReadTotal(c, amount, LevelForXp(guess, total + amount))
    BY <2>1
  <2>. QED  BY <2>2, <2>3, LevelForXpFits, ReadTotalStep
<1>3. ASSUME NEW c \in Changers, DropChange(c) PROVE RulesInv'
  <2>1. /\ totalChange' = [totalChange EXCEPT ![c] = {}]
        /\ UNCHANGED <<authors, gained, dayXp, total, level, redelivered, adjusted, awards, levelMissed>>
    BY <1>3 DEF DropChange
  <2>2. RulesTypeOK' /\ ChangesFit'
    BY <2>1 DEF RulesInv, RulesTypeOK, ChangesFit, Fits, XpThreshold
  <2>3. ~levelMissed' => LevelFits'
    BY <2>1 DEF RulesInv, XpIsEarned, LevelFits, XpThreshold
  <2>. QED  BY <2>1, <2>2, <2>3, RestIsKept DEF RestKept
<1>4. CASE UNCHANGED ruleVars
  <2>1. UNCHANGED <<authors, gained, dayXp, total, level, totalChange, redelivered, adjusted, awards,
                    levelMissed>>
    BY <1>4 DEF ruleVars
  <2>2. RulesTypeOK' /\ ChangesFit'
    BY <2>1 DEF RulesInv, RulesTypeOK, ChangesFit, Fits, XpThreshold
  <2>3. ~levelMissed' => LevelFits'
    BY <2>1 DEF RulesInv, XpIsEarned, LevelFits, XpThreshold
  <2>. QED  BY <2>1, <2>2, <2>3, RestIsKept DEF RestKept
<1>. QED  BY <1>1, <1>2, <1>3, <1>4, TrackStep, ChangeTotalStep DEF RulesNext

\* Of two messages that were given XP the later is a cooldown later and not a copy, in
\* whatever order they came and however often (gamification.py:195).  The level is the one
\* that the total has reached, whatever awards come between the read and the commit of an
\* adjustment or a reward (user_control/xp.py:38, gamification_v2.py:93), but behind a
\* commit that found another level than it had read, until the next award.
THEOREM XpIsAlwaysEarned == RulesSpec => []XpIsEarned
<1>1. RulesInv => XpIsEarned
  BY DEF RulesInv
<1>. QED  BY <1>1, RulesInvInit, RulesInvStep, PTL DEF RulesSpec

\* The XP of a day stays within its cap and no total falls below zero, whatever is delivered
\* again and whatever an administrator takes away (gamification.py:567).
THEOREM RulesAreTyped == RulesSpec => []RulesTypeOK
<1>1. RulesInv => RulesTypeOK
  BY DEF RulesInv
<1>. QED  BY <1>1, RulesInvInit, RulesInvStep, PTL DEF RulesSpec

===============================================================================
