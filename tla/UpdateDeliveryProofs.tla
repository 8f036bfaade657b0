------------------------- MODULE UpdateDeliveryProofs -------------------------
(***************************************************************************)
(* Theorems of UpdateDelivery, for any finite set of workers and any       *)
(* number of updates, instances, slots, connections and faults.            *)
(*                                                                         *)
(* ExecutionBudget is inductive beside the types once the finished runs    *)
(* behind a completed row and behind a worker that is about to complete or *)
(* to answer 200 are recorded (RunsRecorded).  The other properties follow *)
(* from the two.                                                           *)
(***************************************************************************)
EXTENDS UpdateDelivery, FiniteSetTheorems, TLAPS

\* Whatever says that an update is done was written after a finished run of it:
\* the completed row, its completed_at, and the worker that goes on to write the
\* row or to answer 200.
RunsRecorded ==
    /\ \A u \in Updates :
          row[u].completed_at \/ row[u].status = "completed" => successes[u] > 0
    /\ \A w \in Workers : pc[w] \in {"complete", "ok"} => successes[upd[w]] > 0

IInv ==
    /\ TypeOK
    /\ ExecutionBudget
    /\ RunsRecorded
    /\ NoLostUpdate

-----------------------------------------------------------------------------
\* A worker at a stage other than "idle" has an update.
LEMMA BusyHasUpdate ==
    ASSUME TypeOK, NEW w \in Workers, pc[w] # "idle"
    PROVE  upd[w] \in Updates
BY DEF TypeOK

\* The running workers of an update are finitely many.
LEMMA RunningFinite ==
    ASSUME NEW u \in Updates
    PROVE  /\ IsFiniteSet(Running(u))
           /\ Cardinality(Running(u)) \in Nat
<1>1. Running(u) \subseteq Workers
  BY DEF Running
<1>2. IsFiniteSet(Running(u))
  BY <1>1, UpdateDeliveryAssumption, FS_Subset
<1>. QED  BY <1>2, FS_CardinalityType

-----------------------------------------------------------------------------
(* Types. *)

LEMMA TypeInit == Init => TypeOK
BY UpdateDeliveryAssumption
   DEF Init, TypeOK, Row, NoRow, Statuses, Leases, Stages, InSlot

LEMMA ClaimedType ==
    ASSUME TypeOK, NEW u \in Updates
    PROVE  Claimed(u) \in [Updates -> Row]
BY DEF TypeOK, Claimed, Row, Statuses, Leases

LEMMA TypeStep == TypeOK /\ [Next]_vars => TypeOK'
<1>. SUFFICES ASSUME TypeOK, [Next]_vars PROVE TypeOK'
  OBVIOUS
<1>. USE UpdateDeliveryAssumption DEF TypeOK, Stages, InSlot, Goto, Fault
<1>1. ASSUME NEW w \in Workers, NEW u \in Updates, Deliver(w, u) PROVE TypeOK'
  BY <1>1 DEF Deliver
<1>2. ASSUME NEW w \in Workers, ConnectionLost(w) PROVE TypeOK'
  BY <1>2 DEF ConnectionLost
<1>3. ASSUME NEW w \in Workers, Respond(w) PROVE TypeOK'
  BY <1>3 DEF Respond
<1>4. ASSUME NEW w \in Workers, EnterSlot(w) PROVE TypeOK'
  BY <1>4 DEF EnterSlot
<1>5. ASSUME NEW w \in Workers, SeeNoRow(w) PROVE TypeOK'
  BY <1>5 DEF SeeNoRow
<1>6. ASSUME NEW w \in Workers, InsertRow(w) PROVE TypeOK'
  <2>1. upd[w] \in Updates /\ Claimed(upd[w]) \in [Updates -> Row]
    BY <1>6, BusyHasUpdate, ClaimedType DEF InsertRow
  <2>2. CASE row' = Claimed(upd[w]) /\ Goto(w, "feed")
    BY <1>6, <2>1, <2>2 DEF InsertRow
  <2>3. CASE row' = row /\ Goto(w, "claim")
    BY <1>6, <2>3 DEF InsertRow
  <2>. QED  BY <1>6, <2>2, <2>3 DEF InsertRow
<1>7. ASSUME NEW w \in Workers, TakeOver(w) PROVE TypeOK'
  <2>1. upd[w] \in Updates /\ Claimed(upd[w]) \in [Updates -> Row]
    BY <1>7, BusyHasUpdate, ClaimedType DEF TakeOver
  <2>. QED  BY <1>7, <2>1 DEF TakeOver
<1>8. ASSUME NEW w \in Workers, RefuseClaim(w) PROVE TypeOK'
  BY <1>8 DEF RefuseClaim
<1>9. ASSUME NEW w \in Workers, HandlerSucceeds(w) PROVE TypeOK'
  BY <1>9, BusyHasUpdate DEF HandlerSucceeds
<1>10. ASSUME NEW w \in Workers, HandlerFails(w) PROVE TypeOK'
  BY <1>10 DEF HandlerFails
<1>11. ASSUME NEW w \in Workers, CompleteUpdate(w) PROVE TypeOK'
  <2>1. upd[w] \in Updates
    BY <1>11, BusyHasUpdate DEF CompleteUpdate
  <2>2. row' \in [Updates -> Row]
    BY <1>11, <2>1 DEF CompleteUpdate, Row, Statuses, Leases
  <2>. QED  BY <1>11, <2>1, <2>2 DEF CompleteUpdate
<1>12. ASSUME NEW w \in Workers, FailUpdate(w) PROVE TypeOK'
  <2>1. upd[w] \in Updates
    BY <1>12, BusyHasUpdate DEF FailUpdate
  <2>2. row' \in [Updates -> Row]
    BY <1>12, <2>1 DEF FailUpdate, Row, Statuses, Leases
  <2>. QED  BY <1>12, <2>1, <2>2 DEF FailUpdate
<1>13. ASSUME NEW w \in Workers, StorageError(w) PROVE TypeOK'
  BY <1>13 DEF StorageError
<1>14. ASSUME NEW u \in Updates, LeaseLapses(u) PROVE TypeOK'
  BY <1>14 DEF LeaseLapses, Row, Statuses, Leases
<1>15. ASSUME NEW i \in Instances, Crash(i) PROVE TypeOK'
  BY <1>15 DEF Crash
<1>16. CASE UNCHANGED vars
  BY <1>16 DEF vars
<1>. QED
  BY <1>1, <1>2, <1>3, <1>4, <1>5, <1>6, <1>7, <1>8, <1>9, <1>10, <1>11,
     <1>12, <1>13, <1>14, <1>15, <1>16 DEF Next, BeginUpdate, FeedUpdate

\* Every variable keeps its type, and a worker has an update exactly while it
\* serves a request.
THEOREM TypeCorrect == Spec => []TypeOK
BY TypeInit, TypeStep, PTL DEF Spec

-----------------------------------------------------------------------------
(* The execution budget, one update at a time. *)

Budget(u) ==
    successes[u] + Cardinality(Running(u)) + (IF Claimable(row[u]) THEN 1 ELSE 0)
        <= 1 + lapses[u]

\* A step that starts no run, finishes none and makes nothing claimable keeps the
\* budget.
LEMMA BudgetKept ==
    ASSUME TypeOK, NEW u \in Updates, Budget(u),
           Running(u)' \subseteq Running(u),
           Claimable(row'[u]) => Claimable(row[u]),
           successes'[u] = successes[u],
           lapses'[u] = lapses[u]
    PROVE  Budget(u)'
<1>1. /\ IsFiniteSet(Running(u)) /\ Cardinality(Running(u)) \in Nat
      /\ Cardinality(Running(u)') <= Cardinality(Running(u))
      /\ Cardinality(Running(u)') \in Nat
  BY RunningFinite, FS_Subset, FS_CardinalityType
<1>. DEFINE n == Cardinality(Running(u))
            n1 == Cardinality(Running(u)')
            c == IF Claimable(row[u]) THEN 1 ELSE 0
            c1 == IF Claimable(row'[u]) THEN 1 ELSE 0
<1>2. successes[u] \in Nat /\ lapses[u] \in Nat
  BY DEF TypeOK
<1>3. c1 <= c /\ c \in 0..1 /\ c1 \in 0..1
  OBVIOUS
<1>4. successes[u] + n + c <= 1 + lapses[u]
  BY DEF Budget
<1>5. n \in Nat /\ n1 \in Nat /\ n1 <= n
  BY <1>1
<1>6. SUFFICES successes'[u] + n1 + c1 <= 1 + lapses'[u]
  BY DEF Budget
<1>. HIDE DEF n, n1, c, c1
<1>. QED  BY <1>2, <1>3, <1>4, <1>5

\* A claim takes the one run the budget had left for a claimable update.
LEMMA BudgetClaim ==
    ASSUME TypeOK, NEW u \in Updates, Budget(u), NEW w \in Workers,
           Claimable(row[u]), ~Claimable(row'[u]),
           Running(u)' = Running(u) \union {w},
           successes'[u] = successes[u],
           lapses'[u] = lapses[u]
    PROVE  Budget(u)'
<1>. DEFINE n == Cardinality(Running(u))
            n1 == Cardinality(Running(u)')
<1>1. n \in Nat /\ n1 \in Nat /\ n1 <= n + 1
  <2>1. IsFiniteSet(Running(u)) /\ n \in Nat
    BY RunningFinite
  <2>2. Cardinality(Running(u) \union {w})
            = IF w \in Running(u) THEN n ELSE n + 1
    BY <2>1, FS_AddElement
  <2>3. n1 = Cardinality(Running(u) \union {w})
    OBVIOUS
  <2>. HIDE DEF n, n1
  <2>. QED  BY <2>1, <2>2, <2>3
<1>2. successes[u] \in Nat /\ lapses[u] \in Nat
  BY DEF TypeOK
<1>3. successes[u] + n + 1 <= 1 + lapses[u]
  BY DEF Budget
<1>4. SUFFICES successes'[u] + n1 + 0 <= 1 + lapses'[u]
  BY DEF Budget
<1>. HIDE DEF n, n1
<1>. QED  BY <1>1, <1>2, <1>3

\* The end of a run, whether it succeeded or not, pays for the success or for
\* the claim it makes possible again.
LEMMA BudgetRunEnds ==
    ASSUME TypeOK, NEW u \in Updates, Budget(u), NEW w \in Running(u),
           Running(u)' = Running(u) \ {w},
           \/ /\ successes'[u] = successes[u] + 1
              /\ Claimable(row'[u]) => Claimable(row[u])
           \/ successes'[u] = successes[u],
           lapses'[u] = lapses[u]
    PROVE  Budget(u)'
<1>. DEFINE n == Cardinality(Running(u))
            n1 == Cardinality(Running(u)')
            c == IF Claimable(row[u]) THEN 1 ELSE 0
            c1 == IF Claimable(row'[u]) THEN 1 ELSE 0
<1>1. n \in Nat /\ n1 \in Nat /\ n1 = n - 1
  <2>1. IsFiniteSet(Running(u)) /\ n \in Nat
    BY RunningFinite
  <2>2. /\ IsFiniteSet(Running(u) \ {w})
        /\ Cardinality(Running(u) \ {w}) = n - 1
    BY <2>1, FS_RemoveElement
  <2>3. n1 = Cardinality(Running(u) \ {w}) /\ n1 \in Nat
    BY <2>2, FS_CardinalityType
  <2>. HIDE DEF n, n1
  <2>. QED  BY <2>1, <2>2, <2>3
<1>2. successes[u] \in Nat /\ lapses[u] \in Nat
  BY DEF TypeOK
<1>3. /\ c \in 0..1 /\ c1 \in 0..1
      /\ \/ successes'[u] = successes[u] + 1 /\ c1 <= c
         \/ successes'[u] = successes[u]
  OBVIOUS
<1>4. successes[u] + n + c <= 1 + lapses[u]
  BY DEF Budget
<1>5. SUFFICES successes'[u] + n1 + c1 <= 1 + lapses'[u]
  BY DEF Budget
<1>. HIDE DEF n, n1, c, c1
<1>. QED  BY <1>1, <1>2, <1>3, <1>4

\* A lapse pays for the claim it makes possible.
LEMMA BudgetLapse ==
    ASSUME TypeOK, NEW u \in Updates, Budget(u),
           Running(u)' = Running(u),
           ~Claimable(row[u]),
           successes'[u] = successes[u],
           lapses'[u] = lapses[u] + 1
    PROVE  Budget(u)'
<1>. DEFINE n == Cardinality(Running(u))
            c1 == IF Claimable(row'[u]) THEN 1 ELSE 0
<1>1. n \in Nat /\ c1 \in 0..1 /\ Cardinality(Running(u)') = n
  BY RunningFinite
<1>2. successes[u] \in Nat /\ lapses[u] \in Nat
  BY DEF TypeOK
<1>3. successes[u] + n + 0 <= 1 + lapses[u]
  BY DEF Budget
<1>4. SUFFICES successes'[u] + n + c1 <= 1 + lapses'[u]
  BY <1>1 DEF Budget
<1>. HIDE DEF n, c1
<1>. QED  BY <1>1, <1>2, <1>3

-----------------------------------------------------------------------------
(* The inductive invariant. *)

LEMMA IInvInit == Init => IInv
<1>. SUFFICES ASSUME Init PROVE IInv
  OBVIOUS
<1>1. TypeOK
  BY TypeInit
<1>2. ExecutionBudget
  <2>. SUFFICES ASSUME NEW u \in Updates PROVE Budget(u)
    BY DEF ExecutionBudget, Budget
  <2>1. Running(u) = {}
    BY DEF Init, Running
  <2>2. Cardinality(Running(u)) = 0
    BY <2>1, FS_EmptySet
  <2>. QED  BY <2>2 DEF Init, Budget, Claimable, NoRow
<1>3. RunsRecorded /\ NoLostUpdate
  BY DEF Init, RunsRecorded, NoLostUpdate, NoRow
<1>. QED  BY <1>1, <1>2, <1>3 DEF IInv

LEMMA BudgetStep == TypeOK /\ TypeOK' /\ ExecutionBudget /\ [Next]_vars => ExecutionBudget'
<1>. SUFFICES ASSUME TypeOK, TypeOK', ExecutionBudget, [Next]_vars, NEW u \in Updates
              PROVE  Budget(u)'
  BY DEF ExecutionBudget, Budget
<1>0. Budget(u)
  BY DEF ExecutionBudget, Budget
<1>1. ASSUME NEW w \in Workers, NEW v \in Updates, Deliver(w, v) PROVE Budget(u)'
  BY <1>0, <1>1, BudgetKept DEF Deliver, Goto, Running, TypeOK
<1>2. ASSUME NEW w \in Workers,
             ConnectionLost(w) \/ Respond(w) \/ EnterSlot(w) \/ SeeNoRow(w) \/ RefuseClaim(w)
      PROVE  Budget(u)'
  <2>1. /\ Running(u)' \subseteq Running(u)
        /\ UNCHANGED <<row, successes, lapses>>
    BY <1>2 DEF ConnectionLost, Respond, EnterSlot, SeeNoRow, RefuseClaim, Goto, Running, TypeOK
  <2>. QED  BY <1>0, <2>1, BudgetKept
<1>3. ASSUME NEW w \in Workers, InsertRow(w) \/ TakeOver(w) PROVE Budget(u)'
  <2>1. CASE row' = Claimed(upd[w]) /\ Goto(w, "feed")
    <3>1. /\ upd[w] \in Updates /\ UNCHANGED <<upd, successes, lapses>>
          /\ Claimable(row[upd[w]])
      <4>1. upd[w] \in Updates /\ UNCHANGED <<upd, successes, lapses>>
        BY <1>3, BusyHasUpdate DEF InsertRow, TakeOver
      <4>2. pc'[w] = "feed"
        BY <2>1 DEF Goto, TypeOK
      <4>3. Claimable(row[upd[w]])
        BY <1>3, <4>2 DEF InsertRow, TakeOver, Goto, Claimable, TypeOK
      <4>. QED  BY <4>1, <4>3
    <3>2. CASE upd[w] = u
      <4>1. ~Claimable(row'[u])
        BY <2>1, <3>1, <3>2 DEF Claimed, Claimable, TypeOK
      <4>2. Running(u)' = Running(u) \union {w}
        BY <2>1, <3>1, <3>2 DEF Goto, Running, TypeOK
      <4>. QED  BY <1>0, <3>1, <3>2, <4>1, <4>2, BudgetClaim
    <3>3. CASE upd[w] # u
      <4>1. row'[u] = row[u]
        BY <2>1, <3>1, <3>3 DEF Claimed, TypeOK
      <4>2. Running(u)' \subseteq Running(u)
        BY <2>1, <3>1, <3>3 DEF Goto, Running, TypeOK
      <4>. QED  BY <1>0, <3>1, <4>1, <4>2, BudgetKept
    <3>. QED  BY <3>2, <3>3
  <2>2. CASE row' = row /\ Goto(w, "claim")
    <3>1. /\ Running(u)' \subseteq Running(u)
          /\ UNCHANGED <<successes, lapses>>
      BY <1>3, <2>2 DEF InsertRow, TakeOver, Goto, Running, TypeOK
    <3>. QED  BY <1>0, <2>2, <3>1, BudgetKept
  <2>. QED  BY <1>3, <2>1, <2>2 DEF InsertRow, TakeOver
<1>4. ASSUME NEW w \in Workers, HandlerSucceeds(w) PROVE Budget(u)'
  <2>1. upd[w] \in Updates /\ w \in Running(upd[w])
    BY <1>4, BusyHasUpdate DEF HandlerSucceeds, Running
  <2>2. CASE upd[w] = u
    <3>1. Running(u)' = Running(u) \ {w}
      BY <1>4, <2>1, <2>2 DEF HandlerSucceeds, Goto, Running, TypeOK
    <3>2. successes'[u] = successes[u] + 1 /\ UNCHANGED <<row, lapses>>
      BY <1>4, <2>2 DEF HandlerSucceeds, TypeOK
    <3>. QED  BY <1>0, <2>1, <2>2, <3>1, <3>2, BudgetRunEnds
  <2>3. CASE upd[w] # u
    <3>1. Running(u)' \subseteq Running(u)
      BY <1>4, <2>3 DEF HandlerSucceeds, Goto, Running, TypeOK
    <3>2. successes'[u] = successes[u] /\ UNCHANGED <<row, lapses>>
      BY <1>4, <2>3 DEF HandlerSucceeds, TypeOK
    <3>. QED  BY <1>0, <3>1, <3>2, BudgetKept
  <2>. QED  BY <2>2, <2>3
<1>5. ASSUME NEW w \in Workers, HandlerFails(w) PROVE Budget(u)'
  <2>1. /\ Running(u)' \subseteq Running(u)
        /\ UNCHANGED <<row, successes, lapses>>
    BY <1>5 DEF HandlerFails, Goto, Running, TypeOK
  <2>. QED  BY <1>0, <2>1, BudgetKept
<1>6. ASSUME NEW w \in Workers, CompleteUpdate(w) PROVE Budget(u)'
  <2>1. /\ Running(u)' \subseteq Running(u)
        /\ UNCHANGED <<successes, lapses>>
    BY <1>6 DEF CompleteUpdate, Goto, Running, TypeOK
  <2>2. upd[w] \in Updates
    BY <1>6, BusyHasUpdate DEF CompleteUpdate
  <2>3. Claimable(row'[u]) => Claimable(row[u])
    BY <1>6, <2>2 DEF CompleteUpdate, Claimable, TypeOK
  <2>. QED  BY <1>0, <2>1, <2>3, BudgetKept
<1>7. ASSUME NEW w \in Workers, FailUpdate(w) PROVE Budget(u)'
  <2>1. /\ upd[w] \in Updates /\ w \in Running(upd[w])
        /\ UNCHANGED <<successes, lapses>>
    BY <1>7, BusyHasUpdate DEF FailUpdate, Running
  <2>2. CASE upd[w] = u
    <3>1. Running(u)' = Running(u) \ {w}
      BY <1>7, <2>1, <2>2 DEF FailUpdate, Goto, Running, TypeOK
    <3>. QED  BY <1>0, <2>1, <2>2, <3>1, BudgetRunEnds
  <2>3. CASE upd[w] # u
    <3>1. Running(u)' \subseteq Running(u)
      BY <1>7, <2>3 DEF FailUpdate, Goto, Running, TypeOK
    <3>2. row'[u] = row[u]
      BY <1>7, <2>1, <2>3 DEF FailUpdate, TypeOK
    <3>. QED  BY <1>0, <2>1, <3>1, <3>2, BudgetKept
  <2>. QED  BY <2>2, <2>3
<1>8. ASSUME NEW w \in Workers, StorageError(w) PROVE Budget(u)'
  <2>1. /\ Running(u)' \subseteq Running(u)
        /\ UNCHANGED <<row, successes, lapses>>
    BY <1>8 DEF StorageError, Goto, Running, TypeOK
  <2>. QED  BY <1>0, <2>1, BudgetKept
<1>9. ASSUME NEW v \in Updates, LeaseLapses(v) PROVE Budget(u)'
  <2>1. Running(u)' = Running(u) /\ UNCHANGED successes
    BY <1>9 DEF LeaseLapses, Running
  <2>2. CASE v = u
    <3>1. ~Claimable(row[u]) /\ lapses'[u] = lapses[u] + 1
      BY <1>9, <2>2 DEF LeaseLapses, Claimable, TypeOK
    <3>. QED  BY <1>0, <2>1, <3>1, BudgetLapse
  <2>3. CASE v # u
    <3>1. row'[u] = row[u] /\ lapses'[u] = lapses[u]
      BY <1>9, <2>3 DEF LeaseLapses, TypeOK
    <3>. QED  BY <1>0, <2>1, <3>1, BudgetKept
  <2>. QED  BY <2>2, <2>3
<1>10. ASSUME NEW i \in Instances, Crash(i) PROVE Budget(u)'
  <2>1. /\ Running(u)' \subseteq Running(u)
        /\ UNCHANGED <<row, successes, lapses>>
    BY <1>10 DEF Crash, Running, TypeOK
  <2>. QED  BY <1>0, <2>1, BudgetKept
<1>11. CASE UNCHANGED vars
  <2>1. /\ Running(u)' \subseteq Running(u)
        /\ UNCHANGED <<row, successes, lapses>>
    BY <1>11 DEF vars, Running
  <2>. QED  BY <1>0, <2>1, BudgetKept
<1>. QED
  BY <1>1, <1>2, <1>3, <1>4, <1>5, <1>6, <1>7, <1>8, <1>9, <1>10, <1>11
     DEF Next, BeginUpdate, FeedUpdate

LEMMA RecordStep ==
    TypeOK /\ TypeOK' /\ RunsRecorded /\ NoLostUpdate /\ [Next]_vars
        => RunsRecorded' /\ NoLostUpdate'
<1>. SUFFICES ASSUME TypeOK, TypeOK', RunsRecorded, NoLostUpdate, [Next]_vars
              PROVE  RunsRecorded' /\ NoLostUpdate'
  OBVIOUS
<1>. USE DEF RunsRecorded, NoLostUpdate, Goto
<1>1. ASSUME NEW w \in Workers, NEW u \in Updates, Deliver(w, u)
      PROVE  RunsRecorded' /\ NoLostUpdate'
  BY <1>1 DEF Deliver, TypeOK
<1>2. ASSUME NEW w \in Workers, ConnectionLost(w) PROVE RunsRecorded' /\ NoLostUpdate'
  BY <1>2 DEF ConnectionLost
<1>3. ASSUME NEW w \in Workers, Respond(w) PROVE RunsRecorded' /\ NoLostUpdate'
  BY <1>3 DEF Respond, TypeOK
<1>4. ASSUME NEW w \in Workers, EnterSlot(w) \/ SeeNoRow(w)
      PROVE  RunsRecorded' /\ NoLostUpdate'
  BY <1>4 DEF EnterSlot, SeeNoRow, TypeOK
<1>5. ASSUME NEW w \in Workers, InsertRow(w) \/ TakeOver(w)
      PROVE  RunsRecorded' /\ NoLostUpdate'
  <2>1. upd[w] \in Updates /\ UNCHANGED <<upd, acked, successes>>
    BY <1>5, BusyHasUpdate DEF InsertRow, TakeOver
  <2>2. row' = Claimed(upd[w]) \/ row' = row
    BY <1>5 DEF InsertRow, TakeOver
  <2>3. \A v \in Workers : pc'[v] \in {"complete", "ok"} => pc[v] \in {"complete", "ok"}
    BY <1>5 DEF InsertRow, TakeOver, TypeOK
  <2>4. ASSUME NEW u \in Updates, row'[u].completed_at \/ row'[u].status = "completed"
        PROVE  row'[u] = row[u]
    BY <2>1, <2>2, <2>4 DEF Claimed, TypeOK
  <2>. QED  BY <2>1, <2>3, <2>4
<1>6. ASSUME NEW w \in Workers, RefuseClaim(w) PROVE RunsRecorded' /\ NoLostUpdate'
  <2>1. upd[w] \in Updates /\ UNCHANGED <<row, upd, acked, successes>>
    BY <1>6, BusyHasUpdate DEF RefuseClaim
  <2>2. CASE row[upd[w]].status = "completed"
    <3>1. \A v \in Workers : pc'[v] \in {"complete", "ok"} => pc[v] \in {"complete", "ok"} \/ v = w
      BY <1>6, <2>2 DEF RefuseClaim, TypeOK
    <3>. QED  BY <2>1, <2>2, <3>1
  <2>3. CASE row[upd[w]].status # "completed"
    <3>1. \A v \in Workers : pc'[v] \in {"complete", "ok"} => pc[v] \in {"complete", "ok"}
      BY <1>6, <2>3 DEF RefuseClaim, TypeOK
    <3>. QED  BY <2>1, <3>1
  <2>. QED  BY <2>2, <2>3
<1>7. ASSUME NEW w \in Workers, HandlerSucceeds(w) PROVE RunsRecorded' /\ NoLostUpdate'
  <2>1. upd[w] \in Updates /\ UNCHANGED <<row, upd, acked>>
    BY <1>7, BusyHasUpdate DEF HandlerSucceeds
  <2>2. successes'[upd[w]] > 0
    BY <1>7, <2>1 DEF HandlerSucceeds, TypeOK
  <2>3. \A u \in Updates : successes[u] > 0 => successes'[u] > 0
    BY <1>7 DEF HandlerSucceeds, TypeOK
  <2>4. \A v \in Workers : pc'[v] \in {"complete", "ok"} => pc[v] \in {"complete", "ok"} \/ v = w
    BY <1>7 DEF HandlerSucceeds, TypeOK
  <2>5. \A v \in Workers : pc[v] \in {"complete", "ok"} => upd[v] \in Updates
    BY BusyHasUpdate
  <2>. QED  BY <2>1, <2>2, <2>3, <2>4, <2>5 DEF TypeOK
<1>8. ASSUME NEW w \in Workers, HandlerFails(w) \/ StorageError(w)
      PROVE  RunsRecorded' /\ NoLostUpdate'
  BY <1>8 DEF HandlerFails, StorageError, TypeOK
<1>9. ASSUME NEW w \in Workers, CompleteUpdate(w) PROVE RunsRecorded' /\ NoLostUpdate'
  <2>1. upd[w] \in Updates /\ UNCHANGED <<upd, acked, successes>> /\ successes[upd[w]] > 0
    BY <1>9, BusyHasUpdate DEF CompleteUpdate
  <2>2. \A u \in Updates : u # upd[w] => row'[u] = row[u]
    BY <1>9, <2>1 DEF CompleteUpdate, TypeOK
  <2>3. \A v \in Workers : pc'[v] \in {"complete", "ok"} => pc[v] \in {"complete", "ok"} \/ v = w
    BY <1>9 DEF CompleteUpdate, TypeOK
  <2>. QED  BY <2>1, <2>2, <2>3
<1>10. ASSUME NEW w \in Workers, FailUpdate(w) PROVE RunsRecorded' /\ NoLostUpdate'
  <2>1. upd[w] \in Updates /\ UNCHANGED <<upd, acked, successes>>
    BY <1>10, BusyHasUpdate DEF FailUpdate
  <2>2. \A u \in Updates : /\ row'[u].completed_at => row[u].completed_at
                           /\ row'[u].status = "completed" => row[u].status = "completed"
    BY <1>10, <2>1 DEF FailUpdate, TypeOK, Row
  <2>3. \A v \in Workers : pc'[v] \in {"complete", "ok"} => pc[v] \in {"complete", "ok"}
    BY <1>10 DEF FailUpdate, TypeOK
  <2>. QED  BY <2>1, <2>2, <2>3
<1>11. ASSUME NEW u \in Updates, LeaseLapses(u) PROVE RunsRecorded' /\ NoLostUpdate'
  BY <1>11 DEF LeaseLapses, TypeOK, Row
<1>12. ASSUME NEW i \in Instances, Crash(i) PROVE RunsRecorded' /\ NoLostUpdate'
  BY <1>12 DEF Crash, TypeOK
<1>13. CASE UNCHANGED vars
  BY <1>13 DEF vars
<1>. QED
  BY <1>1, <1>2, <1>3, <1>4, <1>5, <1>6, <1>7, <1>8, <1>9, <1>10, <1>11, <1>12, <1>13
     DEF Next, BeginUpdate, FeedUpdate

THEOREM Invariance == Spec => []IInv
<1>1. IInv /\ [Next]_vars => IInv'
  BY TypeStep, BudgetStep, RecordStep DEF IInv
<1>. QED  BY IInvInit, <1>1, PTL DEF Spec

-----------------------------------------------------------------------------
(* What the invariant says of the running system. *)

\* Finished runs, runs that could finish and the run begin_update would start
\* next never exceed one plus the lapsed leases of the update.
THEOREM BudgetHolds == Spec => []ExecutionBudget
BY Invariance, PTL DEF IInv

\* Telegram stops sending an update only after a run of it reached its end.
THEOREM NoUpdateLost == Spec => []NoLostUpdate
BY Invariance, PTL DEF IInv

\* begin_update hands out a completed update only if a lease of it had lapsed.
THEOREM CompletedStays == Spec => CompletedUnlessLapsed
<1>1. IInv /\ [Next]_vars =>
        [\A u \in Updates :
           row[u].completed_at /\ row'[u].attempts # row[u].attempts => lapses[u] > 0]_vars
  <2>. SUFFICES ASSUME IInv, Next, NEW u \in Updates, row[u].completed_at,
                       row'[u].attempts # row[u].attempts
                PROVE  lapses[u] > 0
    BY DEF IInv
  <2>1. successes[u] \in Nat /\ lapses[u] \in Nat /\ successes[u] > 0
    BY DEF IInv, TypeOK, RunsRecorded
  <2>2. Claimable(row[u])
    <3>1. ASSUME NEW w \in Workers, NEW v \in Updates, Deliver(w, v) PROVE FALSE
      BY <3>1 DEF Deliver
    <3>2. ASSUME NEW w \in Workers,
                 \/ ConnectionLost(w) \/ Respond(w) \/ EnterSlot(w)
                 \/ SeeNoRow(w) \/ RefuseClaim(w) \/ FeedUpdate(w) \/ StorageError(w)
          PROVE  FALSE
      BY <3>2 DEF ConnectionLost, Respond, EnterSlot, SeeNoRow, RefuseClaim, FeedUpdate,
                  HandlerSucceeds, HandlerFails, StorageError
    <3>3. ASSUME NEW w \in Workers, InsertRow(w) \/ TakeOver(w) PROVE Claimable(row[u])
      <4>1. upd[w] \in Updates
        BY <3>3, BusyHasUpdate DEF IInv, InsertRow, TakeOver
      <4>2. CASE upd[w] = u
        BY <3>3, <4>2 DEF InsertRow, TakeOver, Claimable
      <4>3. CASE upd[w] # u
        BY <3>3, <4>1, <4>3 DEF InsertRow, TakeOver, Claimed, IInv, TypeOK
      <4>. QED  BY <4>2, <4>3
    <3>4. ASSUME NEW w \in Workers, CompleteUpdate(w) PROVE FALSE
      BY <3>4, BusyHasUpdate DEF CompleteUpdate, IInv, TypeOK, Row
    <3>5. ASSUME NEW w \in Workers, FailUpdate(w) PROVE FALSE
      BY <3>5, BusyHasUpdate DEF FailUpdate, IInv, TypeOK, Row
    <3>6. ASSUME NEW v \in Updates, LeaseLapses(v) PROVE FALSE
      BY <3>6 DEF LeaseLapses, IInv, TypeOK, Row
    <3>7. ASSUME NEW i \in Instances, Crash(i) PROVE FALSE
      BY <3>7 DEF Crash
    <3>. QED
      BY <3>1, <3>2, <3>3, <3>4, <3>5, <3>6, <3>7 DEF Next, BeginUpdate
  <2>3. Cardinality(Running(u)) \in Nat
    BY RunningFinite
  <2>4. successes[u] + Cardinality(Running(u)) + 1 <= 1 + lapses[u]
    BY <2>2 DEF IInv, ExecutionBudget
  <2>. QED  BY <2>1, <2>3, <2>4
<1>. QED  BY <1>1, Invariance, PTL DEF Spec, CompletedUnlessLapsed

\* The webhook implements the promise of AtLeastOnce: a handler run reaches its
\* end only within the budget, and a 200 is read only after one has.
THEOREM Refinement == Spec => ImplementsAtLeastOnce
<1>1. Init => Promise!Init
  BY DEF Init, Promise!Init
<1>2. IInv /\ [Next]_vars => [Promise!Next]_(Promise!vars)
  <2>. SUFFICES ASSUME IInv, [Next]_vars PROVE Promise!Next \/ UNCHANGED Promise!vars
    OBVIOUS
  <2>. USE DEF Promise!vars
  <2>1. ASSUME NEW w \in Workers, Respond(w) PROVE Promise!Next \/ UNCHANGED Promise!vars
    <3>1. CASE acked' = acked \union {upd[w]} /\ pc[w] = "ok"
      <4>1. upd[w] \in Updates /\ successes[upd[w]] > 0
        BY <3>1, BusyHasUpdate DEF IInv, RunsRecorded
      <4>2. Promise!Acknowledge(upd[w])
        BY <2>1, <3>1, <4>1 DEF Respond, Promise!Acknowledge
      <4>. QED  BY <4>1, <4>2 DEF Promise!Next
    <3>2. CASE acked' = acked
      BY <2>1, <3>2 DEF Respond
    <3>. QED  BY <2>1, <3>1, <3>2 DEF Respond
  <2>2. ASSUME NEW w \in Workers, HandlerSucceeds(w) PROVE Promise!Next
    <3>1. upd[w] \in Updates /\ w \in Running(upd[w])
      BY <2>2, BusyHasUpdate DEF IInv, HandlerSucceeds, Running
    <3>2. Cardinality(Running(upd[w])) \in Nat \ {0}
      BY <3>1, RunningFinite, FS_EmptySet
    <3>3. successes[upd[w]] <= lapses[upd[w]]
      <4>. DEFINE n == Cardinality(Running(upd[w]))
                  c == IF Claimable(row[upd[w]]) THEN 1 ELSE 0
      <4>1. successes[upd[w]] + n + c <= 1 + lapses[upd[w]]
        BY <3>1 DEF IInv, ExecutionBudget
      <4>2. /\ n \in Nat \ {0} /\ c \in Nat
            /\ successes[upd[w]] \in Nat /\ lapses[upd[w]] \in Nat
        BY <3>1, <3>2 DEF IInv, TypeOK
      <4>. HIDE DEF n, c
      <4>. QED  BY <4>1, <4>2
    <3>4. Promise!Execute(upd[w])
      BY <2>2, <3>3 DEF HandlerSucceeds, Promise!Execute
    <3>. QED  BY <3>1, <3>4 DEF Promise!Next
  <2>3. ASSUME NEW u \in Updates, LeaseLapses(u) PROVE Promise!Next
    BY <2>3 DEF LeaseLapses, Promise!Lapse, Promise!Next
  <2>4. ASSUME NEW w \in Workers, NEW u \in Updates, Deliver(w, u) PROVE UNCHANGED Promise!vars
    BY <2>4 DEF Deliver
  <2>5. ASSUME NEW w \in Workers,
               \/ ConnectionLost(w) \/ EnterSlot(w) \/ BeginUpdate(w) \/ HandlerFails(w)
               \/ CompleteUpdate(w) \/ FailUpdate(w) \/ StorageError(w)
        PROVE  UNCHANGED Promise!vars
    BY <2>5 DEF ConnectionLost, EnterSlot, BeginUpdate, SeeNoRow, InsertRow, TakeOver,
                RefuseClaim, HandlerFails, CompleteUpdate, FailUpdate, StorageError
  <2>6. ASSUME NEW i \in Instances, Crash(i) PROVE UNCHANGED Promise!vars
    BY <2>6 DEF Crash
  <2>7. CASE UNCHANGED vars
    BY <2>7 DEF vars
  <2>. QED  BY <2>1, <2>2, <2>3, <2>4, <2>5, <2>6, <2>7 DEF Next, FeedUpdate
<1>. QED  BY <1>1, <1>2, Invariance, PTL DEF Spec, ImplementsAtLeastOnce, Promise!Spec
=============================================================================
