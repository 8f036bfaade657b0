-------------------------- MODULE AchievementsProofs --------------------------
(***************************************************************************)
(* PaidOnce, CelebratedIffPaid and the type invariant for any set of       *)
(* transactions, groups and codes, however many transactions run.          *)
(*                                                                         *)
(* A commit pays for what its transaction has inserted.  That no other has *)
(* inserted the same in the meantime (WrittenOnce) is the doing of the     *)
(* primary key of achievement_unlocks: an insert waits for one that is     *)
(* open, and fails on one that is committed.  Which identities a           *)
(* transaction tries, and in which order, has no part in it.               *)
(***************************************************************************)
EXTENDS Achievements, TLAPS

\* The records that tx holds, whatever is in the fields that do not matter here.
Shape(r) ==
    r \in [kind : {r.kind}, chat : {r.chat}, at : {r.at}, todo : {r.todo},
           written : {r.written}, rows : {r.rows}, left : {r.left}]

TxShape == /\ DOMAIN tx = Transactions
           /\ tx = [t \in Transactions |-> tx[t]]
           /\ \A t \in Transactions : Shape(tx[t])

\* An identity is inserted by one transaction at a time, and by none once it is there.
WrittenOnce ==
    /\ \A t, o \in Transactions : t # o => tx[t].written \intersect tx[o].written = {}
    /\ \A t \in Transactions : tx[t].written \intersect unlocks = {}

PaidType == paid \in [Identities -> Nat]

AchievementInv == TxShape /\ PaidType /\ WrittenOnce /\ PaidOnce /\ CelebratedIffPaid

-----------------------------------------------------------------------------

LEMMA AchievementInvInit == AchievementInit => AchievementInv
<1>. SUFFICES ASSUME AchievementInit PROVE AchievementInv
  OBVIOUS
<1>1. TxShape
  BY DEF AchievementInit, TxShape, Shape, NoTransaction
<1>2. WrittenOnce
  BY DEF AchievementInit, WrittenOnce, NoTransaction
<1>3. PaidType /\ PaidOnce /\ CelebratedIffPaid
  BY DEF AchievementInit, PaidType, PaidOnce, CelebratedIffPaid
<1>. QED  BY <1>1, <1>2, <1>3 DEF AchievementInv

\* A step in which a transaction inserts nothing, and that pays for nothing.
LEMMA NothingInserted ==
    ASSUME AchievementInv, NEW t \in Transactions, NEW r, Shape(r), r.written \subseteq tx[t].written,
           tx' = [tx EXCEPT ![t] = r], UNCHANGED <<unlocks, events, paid>>
    PROVE  AchievementInv'
<1>. USE DEF AchievementInv
<1>1. \A o \in Transactions : tx'[o] = IF o = t THEN r ELSE tx[o]
  BY DEF TxShape
<1>2. TxShape'
  BY DEF TxShape, Shape
<1>3. WrittenOnce'
  BY <1>1 DEF WrittenOnce
<1>4. PaidType' /\ PaidOnce' /\ CelebratedIffPaid'
  BY DEF PaidType, PaidOnce, CelebratedIffPaid
<1>. QED  BY <1>2, <1>3, <1>4

\* A step that inserts what is neither there nor in another open transaction.
LEMMA OneInserted ==
    ASSUME AchievementInv, NEW t \in Transactions, NEW r, Shape(r), NEW i,
           r.written \subseteq tx[t].written \union {i},
           i \notin unlocks, \A o \in Transactions \ {t} : i \notin tx[o].written,
           tx' = [tx EXCEPT ![t] = r], UNCHANGED <<unlocks, events, paid>>
    PROVE  AchievementInv'
<1>. USE DEF AchievementInv
<1>1. \A o \in Transactions : tx'[o] = IF o = t THEN r ELSE tx[o]
  BY DEF TxShape
<1>2. TxShape'
  BY DEF TxShape, Shape
<1>3. WrittenOnce'
  BY <1>1 DEF WrittenOnce
<1>4. PaidType' /\ PaidOnce' /\ CelebratedIffPaid'
  BY DEF PaidType, PaidOnce, CelebratedIffPaid
<1>. QED  BY <1>2, <1>3, <1>4

LEMMA BeginStep ==
    ASSUME AchievementInv, NEW t \in Transactions,
           \/ \E g \in Groups : BeginLive(t, g) \/ BeginWeekly(t, g)
           \/ BeginBackfill(t)
    PROVE  AchievementInv'
<1>1. UNCHANGED <<unlocks, events, paid>>
  BY DEF BeginLive, BeginWeekly, BeginBackfill
<1>2. ASSUME NEW r, Shape(r), r.written = {}, Begin(t, r) PROVE AchievementInv'
  BY <1>1, <1>2, NothingInserted DEF Begin
<1>3. ASSUME NEW g \in Groups, BeginLive(t, g) PROVE AchievementInv'
  <2>1. PICK reached : Begin(t, [NoTransaction EXCEPT !.kind = "live", !.chat = g,
                                         !.todo = Evaluate(t, g, reached)])
    BY <1>3 DEF BeginLive
  <2>. DEFINE r == [NoTransaction EXCEPT !.kind = "live", !.chat = g,
                                         !.todo = Evaluate(t, g, reached)]
  <2>2. Shape(r) /\ r.written = {}
    BY DEF Shape, NoTransaction
  <2>. QED  BY <1>2, <2>1, <2>2
<1>4. ASSUME NEW g \in Groups, BeginWeekly(t, g) PROVE AchievementInv'
  <2>1. PICK reached : Begin(t, [NoTransaction EXCEPT !.kind = "weekly", !.chat = g,
                                         !.todo = Evaluate(t, g, reached)])
    BY <1>4 DEF BeginWeekly
  <2>. DEFINE r == [NoTransaction EXCEPT !.kind = "weekly", !.chat = g,
                                         !.todo = Evaluate(t, g, reached)]
  <2>2. Shape(r) /\ r.written = {}
    BY DEF Shape, NoTransaction
  <2>. QED  BY <1>2, <2>1, <2>2
<1>5. ASSUME BeginBackfill(t) PROVE AchievementInv'
  <2>. DEFINE r == [NoTransaction EXCEPT !.kind = "backfill", !.at = "import",
                                      !.todo = legacy \ unlocks, !.left = members]
  <2>1. Begin(t, r)
    BY <1>5 DEF BeginBackfill
  <2>2. Shape(r) /\ r.written = {}
    BY DEF Shape, NoTransaction
  <2>. QED  BY <1>2, <2>1, <2>2
<1>. QED  BY <1>3, <1>4, <1>5

LEMMA InsertedShape ==
    ASSUME NEW t \in Transactions, Shape(tx[t]), NEW i
    PROVE  /\ Shape(Inserted(t, i)) /\ Inserted(t, i).written = tx[t].written \union {i}
           /\ Shape(WithRow(t, i)) /\ WithRow(t, i).written = tx[t].written \union {i}
           /\ Shape([tx[t] EXCEPT !.todo = @ \ {i}])
           /\ [tx[t] EXCEPT !.todo = @ \ {i}].written = tx[t].written
<1>1. Shape(Inserted(t, i)) /\ Inserted(t, i).written = tx[t].written \union {i}
  BY DEF Shape, Inserted
<1>2. Shape(WithRow(t, i)) /\ WithRow(t, i).written = Inserted(t, i).written
  BY <1>1 DEF Shape, WithRow
<1>3. /\ Shape([tx[t] EXCEPT !.todo = @ \ {i}])
      /\ [tx[t] EXCEPT !.todo = @ \ {i}].written = tx[t].written
  BY DEF Shape
<1>. QED  BY <1>1, <1>2, <1>3

LEMMA RecordStep ==
    ASSUME AchievementInv, NEW t \in Transactions, NEW i, RecordNext(t, i)
    PROVE  AchievementInv'
<1>1. Shape(tx[t]) /\ UNCHANGED <<unlocks, events, paid>>
  BY DEF AchievementInv, TxShape, RecordNext
<1>2. \A o \in Transactions \ {t} : i \notin tx[o].written
  BY DEF RecordNext, InsertWaits
<1>3. tx' = [tx EXCEPT ![t] = Record(t, i)]
  BY DEF RecordNext
<1>4. CASE i \in unlocks
  <2>. DEFINE r == [tx[t] EXCEPT !.todo = @ \ {i}]
  <2>1. Shape(r) /\ r.written = tx[t].written
    BY <1>1, InsertedShape
  <2>2. tx' = [tx EXCEPT ![t] = r]
    BY <1>3, <1>4 DEF Record
  <2>. HIDE DEF r
  <2>. QED  BY <1>1, <2>1, <2>2, NothingInserted
<1>5. CASE i \notin unlocks
  <2>1. tx' = [tx EXCEPT ![t] = WithRow(t, i)]
    BY <1>3, <1>5 DEF Record
  <2>. QED  BY <1>1, <1>2, <1>5, <2>1, InsertedShape, OneInserted
<1>. QED  BY <1>4, <1>5

LEMMA ImportStep ==
    ASSUME AchievementInv, NEW t \in Transactions, NEW i, ImportNext(t, i)
    PROVE  AchievementInv'
<1>1. Shape(tx[t]) /\ UNCHANGED <<unlocks, events, paid>>
  BY DEF AchievementInv, TxShape, ImportNext
<1>2. /\ \A o \in Transactions \ {t} : i \notin tx[o].written
      /\ i \notin unlocks
      /\ tx' = [tx EXCEPT ![t] = Inserted(t, i)]
  BY DEF ImportNext, InsertWaits
<1>. QED  BY <1>1, <1>2, InsertedShape, OneInserted

LEMMA RecalculateStep ==
    ASSUME AchievementInv, NEW t \in Transactions, NEW g, Recalculate(t, g)
    PROVE  AchievementInv'
<1>1. PICK reached :
        tx' = [tx EXCEPT ![t] = [tx[t] EXCEPT !.at = "record", !.chat = g, !.left = @ \ {g},
                                              !.todo = Evaluate(t, g, reached)]]
  BY DEF Recalculate
<1>. DEFINE r == [tx[t] EXCEPT !.at = "record", !.chat = g, !.left = @ \ {g},
                               !.todo = Evaluate(t, g, reached)]
<1>2. Shape(tx[t]) /\ UNCHANGED <<unlocks, events, paid>>
  BY DEF AchievementInv, TxShape, Recalculate
<1>3. tx' = [tx EXCEPT ![t] = r]
  BY <1>1
<1>4. Shape(r) /\ r.written = tx[t].written
  BY <1>2 DEF Shape
<1>. HIDE DEF r
<1>. QED  BY <1>2, <1>3, <1>4, NothingInserted

LEMMA CommitStep ==
    ASSUME AchievementInv, NEW t \in Transactions, CommitUnlocks(t)
    PROVE  AchievementInv'
<1>. USE DEF AchievementInv
<1>1. /\ unlocks' = unlocks \union tx[t].written
      /\ tx' = [tx EXCEPT ![t] = NoTransaction]
  BY DEF CommitUnlocks
<1>2. \A o \in Transactions : tx'[o] = IF o = t THEN NoTransaction ELSE tx[o]
  BY <1>1 DEF TxShape
<1>3. Shape(NoTransaction) /\ NoTransaction.written = {}
  BY DEF Shape, NoTransaction
<1>4. TxShape'
  BY <1>1, <1>2, <1>3 DEF TxShape
<1>5. WrittenOnce'
  BY <1>1, <1>2, <1>3 DEF WrittenOnce
<1>6. \A i \in Identities : i \in tx[t].written => paid[i] = 0
  BY DEF WrittenOnce, PaidOnce, PaidType
<1>7. CASE tx[t].kind = "backfill"
  <2>1. paid' = paid /\ events' = events
    BY <1>7 DEF CommitUnlocks, NewEvents
  <2>. QED  BY <1>1, <1>4, <1>5, <2>1 DEF PaidType, PaidOnce, CelebratedIffPaid
<1>8. CASE tx[t].kind # "backfill"
  <2>1. paid' = [i \in Identities |-> paid[i] + IF i \in tx[t].written THEN 1 ELSE 0]
    BY <1>8 DEF CommitUnlocks
  <2>2. events' = events \union tx[t].written
    BY <1>8 DEF CommitUnlocks, NewEvents
  <2>3. \A i \in Identities : /\ paid[i] \in Nat
                              /\ paid'[i] = IF i \in tx[t].written THEN 1 ELSE paid[i]
    BY <1>6, <2>1 DEF PaidType
  <2>4. PaidType'
    BY <2>1, <2>3 DEF PaidType
  <2>5. PaidOnce'
    BY <1>1, <2>3 DEF PaidOnce
  <2>6. CelebratedIffPaid'
    BY <2>2, <2>3 DEF CelebratedIffPaid
  <2>. QED  BY <1>4, <1>5, <2>4, <2>5, <2>6
<1>. QED  BY <1>7, <1>8

LEMMA AchievementInvStep ==
    AchievementInv /\ [AchievementNext]_achievementVars => AchievementInv'
<1>. SUFFICES ASSUME AchievementInv, [AchievementNext]_achievementVars PROVE AchievementInv'
  OBVIOUS
<1>1. ASSUME NEW t \in Transactions, Rollback(t) PROVE AchievementInv'
  <2>1. Shape(NoTransaction) /\ NoTransaction.written \subseteq tx[t].written
    BY DEF Shape, NoTransaction
  <2>. QED  BY <1>1, <2>1, NothingInserted DEF Rollback
<1>2. ASSUME UNCHANGED <<unlocks, events, paid, tx>> PROVE AchievementInv'
  BY <1>2
     DEF AchievementInv, TxShape, Shape, PaidType, WrittenOnce, PaidOnce, CelebratedIffPaid
<1>3. CASE MarkSeen \/ UNCHANGED achievementVars
  BY <1>2, <1>3 DEF MarkSeen, achievementVars
<1>4. ASSUME NEW g \in Groups, ResetGroup(g) PROVE AchievementInv'
  BY <1>2, <1>4 DEF ResetGroup
<1>. QED
  BY <1>1, <1>3, <1>4, BeginStep, RecordStep, ImportStep, RecalculateStep, CommitStep
     DEF AchievementNext

-----------------------------------------------------------------------------

\* An achievement pays once, however the transactions that unlock it overlap and
\* whatever a reset deletes in between (achievements.py:112).
THEOREM UnlocksPayOnce == AchievementSpec => []PaidOnce
<1>1. AchievementInv => PaidOnce
  BY DEF AchievementInv
<1>. QED  BY <1>1, AchievementInvInit, AchievementInvStep, PTL DEF AchievementSpec

\* What the Mini App celebrates one by one is what has paid (achievement_backfill.py:165).
THEOREM UnlocksAreCelebrated == AchievementSpec => []CelebratedIffPaid
<1>1. AchievementInv => CelebratedIffPaid
  BY DEF AchievementInv
<1>. QED  BY <1>1, AchievementInvInit, AchievementInvStep, PTL DEF AchievementSpec

\* Rewards are paid once and celebrated as they are paid (UnlocksSettled).
THEOREM UnlocksAreSettled == AchievementSpec => []UnlocksSettled
<1>1. AchievementInv => UnlocksSettled
  BY DEF AchievementInv, UnlocksSettled
<1>. QED  BY <1>1, AchievementInvInit, AchievementInvStep, PTL DEF AchievementSpec

-----------------------------------------------------------------------------
(* Types.  What a transaction is to insert are identities of the catalog,  *)
(* and none is left in one that is over.                                   *)

LEMMA TransactionType ==
    /\ NoTransaction \in Transaction /\ NoTransaction.kind = "none"
    /\ NoTransaction.left = {} /\ NoTransaction.todo = {}
<1>1. (CHOOSE g \in Groups : TRUE) \in Groups
  BY AchievementAssumption
<1>. QED  BY <1>1 DEF NoTransaction, Transaction

LEMMA EvaluateType ==
    ASSUME NEW t, NEW g \in Groups, NEW reached \in SUBSET Codes
    PROVE  Evaluate(t, g, reached) \subseteq Identities
BY DEF Evaluate, Identities

\* A transaction is replaced by one that is of the type, and is none only if it is over.
LEMMA TransactionReplaced ==
    ASSUME AchievementTypeOK, NEW t \in Transactions, NEW r \in Transaction,
           r.kind = "none" => r = NoTransaction, tx' = [tx EXCEPT ![t] = r]
    PROVE  /\ tx' \in [Transactions -> Transaction]
           /\ \A o \in Transactions : tx'[o].kind = "none" => tx'[o] = NoTransaction
<1>1. \A o \in Transactions : tx'[o] = IF o = t THEN r ELSE tx[o]
  BY DEF AchievementTypeOK
<1>. QED  BY <1>1 DEF AchievementTypeOK

LEMMA AchievementTypeStep ==
    AchievementTypeOK /\ [AchievementNext]_achievementVars => AchievementTypeOK'
<1>. SUFFICES ASSUME AchievementTypeOK, [AchievementNext]_achievementVars PROVE AchievementTypeOK'
  OBVIOUS
<1>0. MaxStarted \in Nat
  BY AchievementAssumption
<1>1. ASSUME NEW t \in Transactions, NEW g \in Groups, BeginLive(t, g) PROVE AchievementTypeOK'
  <2>1. PICK reached \in SUBSET ToSet(LiveCodes) :
          Begin(t, [NoTransaction EXCEPT !.kind = "live", !.chat = g,
                                         !.todo = Evaluate(t, g, reached)])
    BY <1>1 DEF BeginLive
  <2>. DEFINE r == [NoTransaction EXCEPT !.kind = "live", !.chat = g,
                                         !.todo = Evaluate(t, g, reached)]
  <2>2. Evaluate(t, g, reached) \subseteq Identities
    BY EvaluateType DEF Codes
  <2>3. r \in Transaction /\ r.kind # "none"
    BY <2>2, TransactionType DEF Transaction
  <2>. HIDE DEF r
  <2>4. tx' = [tx EXCEPT ![t] = r] /\ started < MaxStarted /\ started' = started + 1
    BY <2>1 DEF Begin, r
  <2>. QED  BY <1>0, <1>1, <2>3, <2>4, TransactionReplaced DEF AchievementTypeOK, BeginLive
<1>2. ASSUME NEW t \in Transactions, NEW g \in Groups, BeginWeekly(t, g) PROVE AchievementTypeOK'
  <2>1. PICK reached \in SUBSET (ToSet(WeeklyCodes) \union ToSet(RankingCodes)) :
          Begin(t, [NoTransaction EXCEPT !.kind = "weekly", !.chat = g,
                                         !.todo = Evaluate(t, g, reached)])
    BY <1>2 DEF BeginWeekly
  <2>. DEFINE r == [NoTransaction EXCEPT !.kind = "weekly", !.chat = g,
                                         !.todo = Evaluate(t, g, reached)]
  <2>2. Evaluate(t, g, reached) \subseteq Identities
    BY EvaluateType DEF Codes
  <2>3. r \in Transaction /\ r.kind # "none"
    BY <2>2, TransactionType DEF Transaction
  <2>. HIDE DEF r
  <2>4. tx' = [tx EXCEPT ![t] = r] /\ started < MaxStarted /\ started' = started + 1
    BY <2>1 DEF Begin, r
  <2>. QED  BY <1>0, <1>2, <2>3, <2>4, TransactionReplaced DEF AchievementTypeOK, BeginWeekly
<1>3. ASSUME NEW t \in Transactions, BeginBackfill(t) PROVE AchievementTypeOK'
  <2>. DEFINE r == [NoTransaction EXCEPT !.kind = "backfill", !.at = "import",
                                         !.todo = legacy \ unlocks, !.left = members]
  <2>1. r \in Transaction /\ r.kind # "none"
    BY TransactionType DEF Transaction, AchievementTypeOK, GroupIdentities
  <2>2. tx' = [tx EXCEPT ![t] = r] /\ started < MaxStarted /\ started' = started + 1
    BY <1>3 DEF Begin, BeginBackfill
  <2>. HIDE DEF r
  <2>. QED  BY <1>0, <1>3, <2>1, <2>2, TransactionReplaced DEF AchievementTypeOK, BeginBackfill
<1>4. ASSUME NEW t \in Transactions, NEW i \in Identities, RecordNext(t, i) \/ ImportNext(t, i)
      PROVE  AchievementTypeOK'
  <2>1. tx[t] \in Transaction /\ tx[t].kind # "none"
    BY <1>4, TransactionType DEF AchievementTypeOK, RecordNext, ImportNext, Upcoming
  <2>2. Inserted(t, i) \in Transaction /\ Inserted(t, i).kind = tx[t].kind
    BY <2>1 DEF Inserted, Transaction
  <2>3. WithRow(t, i) \in Transaction /\ WithRow(t, i).kind = tx[t].kind
    BY <2>2 DEF WithRow, Transaction
  <2>4. Record(t, i) \in Transaction /\ Record(t, i).kind = tx[t].kind
    BY <2>1, <2>3 DEF Record, Transaction
  <2>. QED
    BY <1>4, <2>1, <2>2, <2>4, TransactionReplaced DEF AchievementTypeOK, RecordNext, ImportNext
<1>5. ASSUME NEW t \in Transactions, NEW g \in Groups, Recalculate(t, g) PROVE AchievementTypeOK'
  <2>1. PICK reached \in SUBSET Codes :
          tx' = [tx EXCEPT ![t] = [tx[t] EXCEPT !.at = "record", !.chat = g, !.left = @ \ {g},
                                                !.todo = Evaluate(t, g, reached)]]
    BY <1>5 DEF Recalculate
  <2>. DEFINE r == [tx[t] EXCEPT !.at = "record", !.chat = g, !.left = @ \ {g},
                                 !.todo = Evaluate(t, g, reached)]
  <2>2. tx[t] \in Transaction /\ tx[t].kind # "none"
    BY <1>5, TransactionType DEF AchievementTypeOK, Recalculate
  <2>3. Evaluate(t, g, reached) \subseteq Identities
    BY EvaluateType
  <2>4. r \in Transaction /\ r.kind # "none"
    BY <2>2, <2>3 DEF Transaction
  <2>5. tx' = [tx EXCEPT ![t] = r]
    BY <2>1
  <2>. HIDE DEF r
  <2>. QED  BY <1>5, <2>4, <2>5, TransactionReplaced DEF AchievementTypeOK, Recalculate
<1>6. ASSUME NEW t \in Transactions, CommitUnlocks(t) PROVE AchievementTypeOK'
  <2>1. tx[t].written \subseteq Identities /\ tx[t].rows \subseteq GroupIdentities
    BY DEF AchievementTypeOK, Transaction
  <2>2. paid' \in [Identities -> Nat]
    <3>1. \A i \in Identities : paid[i] \in Nat /\ paid[i] + (IF i \in tx[t].written THEN 1 ELSE 0) \in Nat
      BY DEF AchievementTypeOK
    <3>2. CASE tx[t].kind = "backfill"
      BY <1>6, <3>2 DEF AchievementTypeOK, CommitUnlocks
    <3>3. CASE tx[t].kind # "backfill"
      BY <1>6, <3>1, <3>3 DEF CommitUnlocks
    <3>. QED  BY <3>2, <3>3
  <2>3. unlocks' \subseteq Identities /\ legacy' \subseteq GroupIdentities /\ events' \subseteq Identities
    BY <1>6, <2>1 DEF AchievementTypeOK, CommitUnlocks, NewEvents
  <2>4. tx' = [tx EXCEPT ![t] = NoTransaction] /\ summary' \in Nat /\ UNCHANGED <<members, started>>
    BY <1>6 DEF AchievementTypeOK, CommitUnlocks
  <2>. QED  BY <2>2, <2>3, <2>4, TransactionType, TransactionReplaced DEF AchievementTypeOK
<1>7. ASSUME NEW t \in Transactions, Rollback(t) PROVE AchievementTypeOK'
  BY <1>7, TransactionType, TransactionReplaced DEF AchievementTypeOK, Rollback
<1>8. ASSUME NEW g \in Groups, ResetGroup(g) PROVE AchievementTypeOK'
  BY <1>8 DEF AchievementTypeOK, ResetGroup
<1>9. CASE MarkSeen
  BY <1>9 DEF AchievementTypeOK, MarkSeen
<1>10. CASE UNCHANGED achievementVars
  BY <1>10 DEF AchievementTypeOK, achievementVars
<1>. QED
  BY <1>1, <1>2, <1>3, <1>4, <1>5, <1>6, <1>7, <1>8, <1>9, <1>10 DEF AchievementNext

\* The tables hold identities of the catalog, those of the group in both, and a transaction
\* that is over holds nothing (achievements.py:112).
THEOREM AchievementsAreTyped == AchievementSpec => []AchievementTypeOK
<1>1. AchievementInit => AchievementTypeOK
  <2>. SUFFICES ASSUME AchievementInit PROVE AchievementTypeOK
    OBVIOUS
  <2>1. legacy \subseteq GroupIdentities
    BY DEF AchievementInit
  <2>. QED  BY <2>1, TransactionType, AchievementAssumption DEF AchievementInit, AchievementTypeOK
<1>. QED  BY <1>1, AchievementTypeStep, PTL DEF AchievementSpec

=============================================================================
