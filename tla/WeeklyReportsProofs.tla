------------------------- MODULE WeeklyReportsProofs -------------------------
(***************************************************************************)
(* Theorems of SchedulerLease and of WeeklyReports, for any finite number  *)
(* of calls and groups, and without a bound on faults or lapses.           *)
(*                                                                         *)
(* The lease: a token in Redis that belongs to a call at work names the    *)
(* lease of that call (TokensAtWork); with it, ExclusiveUnlessLapsed is    *)
(* inductive.  WeeklyReports takes every step on leases through the        *)
(* operations of SchedulerLease, and so inherits what they promise.        *)
(*                                                                         *)
(* The budget: a call that lists a due group is counted as a report from   *)
(* then on (Budget).  Where the report is still due, none has been marked, *)
(* so that all that was sent is paid for but by the call that nobody has   *)
(* overtaken (Spare): the next start pays for that one when it overtakes   *)
(* it.  A mark set when the day is over would make a group due again, were *)
(* the times of its report not consecutive (DueDay).                       *)
(***************************************************************************)
EXTENDS WeeklyReports, FiniteSetTheorems, TLAPS

\* The token of a call stands under the lease that call runs under.
TokensAtWork == \A l \in Leases : key[l] \in Calls => lease[key[l]] = l

\* The calls that count against the lapses of l.
Overdue(l) == Runs(l) \ {key[l]}

LeaseInv == LeaseTypeOK /\ TokensAtWork /\ ExclusiveUnlessLapsed

-----------------------------------------------------------------------------
(* Finite sets of calls. *)

\* One more element makes a set larger by one at most.
LEMMA AddsAtMostOne ==
    ASSUME NEW S, IsFiniteSet(S), NEW x
    PROVE  /\ IsFiniteSet(S \union {x})
           /\ Cardinality(S \union {x}) \in Nat
           /\ Cardinality(S) <= Cardinality(S \union {x})
           /\ Cardinality(S \union {x}) <= Cardinality(S) + 1
<1>1. Cardinality(S) \in Nat
  BY FS_CardinalityType
<1>2. /\ IsFiniteSet(S \union {x})
      /\ Cardinality(S \union {x}) = IF x \in S THEN Cardinality(S) ELSE Cardinality(S) + 1
  BY FS_AddElement
<1>. QED  BY <1>1, <1>2

LEMMA OverdueFinite ==
    ASSUME NEW l \in Leases
    PROVE  IsFiniteSet(Overdue(l)) /\ Cardinality(Overdue(l)) \in Nat
<1>1. Overdue(l) \subseteq Calls
  BY DEF Overdue, Runs
<1>. QED  BY <1>1, LeaseAssumption, FS_Subset, FS_CardinalityType

LEMMA OverduePrimeFinite ==
    ASSUME NEW l \in Leases
    PROVE  IsFiniteSet(Overdue(l)') /\ Cardinality(Overdue(l)') \in Nat
<1>1. Overdue(l)' \subseteq Calls
  BY DEF Overdue, Runs
<1>. QED  BY <1>1, LeaseAssumption, FS_Subset, FS_CardinalityType

\* A lease under which no more calls are overdue keeps its bound.
LEMMA NoMoreOverdue ==
    ASSUME LeaseTypeOK, ExclusiveUnlessLapsed, LeaseTypeOK', NEW l \in Leases,
           Overdue(l)' \subseteq Overdue(l), lapses'[l] >= lapses[l]
    PROVE  Cardinality(Overdue(l)') <= lapses'[l]
<1>1. Cardinality(Overdue(l)') <= Cardinality(Overdue(l))
  BY OverdueFinite, FS_Subset
<1>2. Cardinality(Overdue(l)) <= lapses[l]
  BY DEF ExclusiveUnlessLapsed, Overdue
<1>. QED  BY <1>1, <1>2, OverdueFinite, OverduePrimeFinite DEF LeaseTypeOK

-----------------------------------------------------------------------------
(* The invariant of the lease. *)

LEMMA LeaseInvInit == LeaseInit => LeaseInv
<1>. SUFFICES ASSUME LeaseInit PROVE LeaseInv
  OBVIOUS
<1>1. LeaseTypeOK /\ TokensAtWork
  BY LeaseAssumption DEF LeaseInit, LeaseTypeOK, TokensAtWork
<1>2. ASSUME NEW l \in Leases PROVE Cardinality(Runs(l) \ {key[l]}) <= lapses[l]
  <2>1. Runs(l) \ {key[l]} = {}
    BY LeaseAssumption DEF LeaseInit, Runs
  <2>. QED  BY <2>1, FS_EmptySet DEF LeaseInit
<1>. QED  BY <1>1, <1>2 DEF LeaseInv, ExclusiveUnlessLapsed

LEMMA LeaseTypeStep == LeaseInv /\ [LeaseNext]_leaseVars => LeaseTypeOK' /\ TokensAtWork'
<1>. SUFFICES ASSUME LeaseInv, [LeaseNext]_leaseVars PROVE LeaseTypeOK' /\ TokensAtWork'
  OBVIOUS
<1>. USE LeaseAssumption DEF LeaseInv, LeaseTypeOK, TokensAtWork
<1>1. ASSUME NEW l \in Leases, AcquireUnanswered(l) PROVE LeaseTypeOK' /\ TokensAtWork'
  BY <1>1 DEF AcquireUnanswered
<1>2. ASSUME NEW l \in Leases, Expire(l) PROVE LeaseTypeOK' /\ TokensAtWork'
  BY <1>2 DEF Expire
<1>3. ASSUME NEW p \in Calls, RenewFails(p) PROVE LeaseTypeOK' /\ TokensAtWork'
  BY <1>3 DEF RenewFails
<1>4. ASSUME NEW p \in Calls, NEW l \in Leases, Acquire(p, l) PROVE LeaseTypeOK' /\ TokensAtWork'
  BY <1>4 DEF Acquire
<1>5. ASSUME NEW p \in Calls, NEW answered \in BOOLEAN, Release(p, answered)
      PROVE  LeaseTypeOK' /\ TokensAtWork'
  <2>1. lease[p] \in Leases
    BY <1>5 DEF Release
  <2>. QED  BY <1>5, <2>1 DEF Release
<1>6. CASE UNCHANGED leaseVars
  BY <1>6 DEF leaseVars
<1>. QED  BY <1>1, <1>2, <1>3, <1>4, <1>5, <1>6 DEF LeaseNext

LEMMA ExclusiveStep == LeaseInv /\ [LeaseNext]_leaseVars => ExclusiveUnlessLapsed'
<1>. SUFFICES ASSUME LeaseInv, [LeaseNext]_leaseVars, NEW l \in Leases
              PROVE  Cardinality(Overdue(l)') <= lapses'[l]
  BY DEF ExclusiveUnlessLapsed, Overdue
<1>0. LeaseTypeOK' /\ LeaseTypeOK /\ TokensAtWork /\ ExclusiveUnlessLapsed
  BY LeaseTypeStep DEF LeaseInv
<1>. SUFFICES \/ Overdue(l)' \subseteq Overdue(l) /\ lapses'[l] >= lapses[l]
              \/ /\ \E p \in Calls : Overdue(l)' \subseteq Overdue(l) \union {p}
                 /\ lapses'[l] = lapses[l] + 1
  <2>1. CASE Overdue(l)' \subseteq Overdue(l) /\ lapses'[l] >= lapses[l]
    BY <1>0, <2>1, NoMoreOverdue
  <2>2. ASSUME NEW p \in Calls, Overdue(l)' \subseteq Overdue(l) \union {p},
               lapses'[l] = lapses[l] + 1
        PROVE  Cardinality(Overdue(l)') <= lapses'[l]
    <3>1. /\ IsFiniteSet(Overdue(l) \union {p})
          /\ Cardinality(Overdue(l) \union {p}) <= Cardinality(Overdue(l)) + 1
      BY OverdueFinite, AddsAtMostOne
    <3>2. Cardinality(Overdue(l)') <= Cardinality(Overdue(l) \union {p})
      BY <2>2, <3>1, FS_Subset
    <3>3. Cardinality(Overdue(l)) <= lapses[l]
      BY <1>0 DEF ExclusiveUnlessLapsed, Overdue
    <3>4. Cardinality(Overdue(l) \union {p}) \in Nat
      BY <3>1, FS_CardinalityType
    <3>. QED  BY <1>0, <2>2, <3>1, <3>2, <3>3, <3>4, OverdueFinite, OverduePrimeFinite
              DEF LeaseTypeOK
  <2>. QED  BY <2>1, <2>2
<1>. USE LeaseAssumption, <1>0 DEF LeaseTypeOK, TokensAtWork, Overdue, Runs
<1>1. ASSUME NEW k \in Leases, AcquireUnanswered(k)
      PROVE  Overdue(l)' \subseteq Overdue(l) /\ lapses'[l] >= lapses[l]
  BY <1>1 DEF AcquireUnanswered
<1>2. ASSUME NEW k \in Leases, Expire(k)
      PROVE  \/ Overdue(l)' \subseteq Overdue(l) /\ lapses'[l] >= lapses[l]
             \/ /\ \E p \in Calls : Overdue(l)' \subseteq Overdue(l) \union {p}
                /\ lapses'[l] = lapses[l] + 1
  <2>1. CASE k # l \/ key[k] \notin Calls
    BY <1>2, <2>1 DEF Expire
  <2>2. CASE k = l /\ key[k] \in Calls
    <3>1. Overdue(l)' \subseteq Overdue(l) \union {key[k]} /\ lapses'[l] = lapses[l] + 1
      BY <1>2, <2>2 DEF Expire
    <3>. QED  BY <2>2, <3>1
  <2>. QED  BY <2>1, <2>2
<1>3. ASSUME NEW p \in Calls, RenewFails(p)
      PROVE  Overdue(l)' \subseteq Overdue(l) /\ lapses'[l] >= lapses[l]
  BY <1>3 DEF RenewFails
<1>4. ASSUME NEW p \in Calls, NEW k \in Leases, Acquire(p, k)
      PROVE  Overdue(l)' \subseteq Overdue(l) /\ lapses'[l] >= lapses[l]
  BY <1>4 DEF Acquire
<1>5. ASSUME NEW p \in Calls, NEW answered \in BOOLEAN, Release(p, answered)
      PROVE  Overdue(l)' \subseteq Overdue(l) /\ lapses'[l] >= lapses[l]
  <2>1. lease[p] \in Leases
    BY <1>5 DEF Release
  <2>2. \A q \in Overdue(l)' : q # p /\ q \in Runs(l)
    BY <1>5, <2>1 DEF Release
  <2>3. key'[l] = key[l] \/ key[l] = p
    BY <1>5, <2>1 DEF Release
  <2>. QED  BY <1>5, <2>2, <2>3 DEF Release
<1>6. CASE UNCHANGED leaseVars
  BY <1>6 DEF leaseVars
<1>. QED  BY <1>1, <1>2, <1>3, <1>4, <1>5, <1>6 DEF LeaseNext

\* The key of a call at work goes away with its TTL or with the call.
LEMMA OwnTokenStep ==
    ASSUME LeaseInv, [LeaseNext]_leaseVars, NEW p \in Calls, NEW l \in Leases,
           key[l] = p, lease[p] = l, key'[l] # p
    PROVE  lease'[p] # l \/ lapses'[l] > lapses[l]
<1>. USE LeaseAssumption DEF LeaseInv, LeaseTypeOK
<1>1. ASSUME NEW k \in Leases, AcquireUnanswered(k) PROVE FALSE
  BY <1>1 DEF AcquireUnanswered
<1>2. ASSUME NEW k \in Leases, Expire(k) PROVE lapses'[l] > lapses[l]
  BY <1>2 DEF Expire
<1>3. ASSUME NEW q \in Calls, RenewFails(q) PROVE FALSE
  BY <1>3 DEF RenewFails
<1>4. ASSUME NEW q \in Calls, NEW k \in Leases, Acquire(q, k) PROVE FALSE
  BY <1>4 DEF Acquire
<1>5. ASSUME NEW q \in Calls, NEW answered \in BOOLEAN, Release(q, answered) PROVE lease'[p] # l
  <2>1. lease[q] \in Leases
    BY <1>5 DEF Release
  <2>2. q = p
    BY <1>5, <2>1 DEF Release
  <2>. QED  BY <1>5, <2>2 DEF Release
<1>6. CASE UNCHANGED leaseVars
  BY <1>6 DEF leaseVars
<1>. QED  BY <1>1, <1>2, <1>3, <1>4, <1>5, <1>6 DEF LeaseNext

\* A job runs once at a time under a lease; every further call took one that lapsed.
THEOREM LeaseExcludes == LeaseSpec => [](LeaseTypeOK /\ ExclusiveUnlessLapsed)
<1>1. LeaseInv /\ [LeaseNext]_leaseVars => LeaseInv'
  BY LeaseTypeStep, ExclusiveStep DEF LeaseInv
<1>2. LeaseInv => LeaseTypeOK /\ ExclusiveUnlessLapsed
  BY DEF LeaseInv
<1>. QED  BY <1>1, <1>2, LeaseInvInit, PTL DEF LeaseSpec

\* Nobody takes away the token of a call at work.
THEOREM LeaseKeepsTokens == LeaseSpec => OwnTokenOnly
<1>1. LeaseInv /\ [LeaseNext]_leaseVars => LeaseInv'
  BY LeaseTypeStep, ExclusiveStep DEF LeaseInv
<1>2. LeaseInv /\ [LeaseNext]_leaseVars =>
        [\A p \in Calls, l \in Leases :
            key[l] = p /\ lease[p] = l /\ key'[l] # p =>
               lease'[p] # l \/ lapses'[l] > lapses[l]]_leaseVars
  BY OwnTokenStep
<1>. QED  BY <1>1, <1>2, LeaseInvInit, PTL DEF LeaseSpec, OwnTokenOnly

-----------------------------------------------------------------------------
(* The invariant of the reports. *)

\* Call p, at work under a lease, has still to send or to mark the report of g.
Owes(p, g) == Scheduled(p) /\ (g \in todo[p] \/ (pc[p] = "mark" /\ group[p] = g))

Listing(g) == {p \in Calls : Scheduled(p) /\ g \in todo[p]}
Unovertaken(g) == {p \in Calls \ overtaken : Owes(p, g)}

\* Now or later a call that starts would find the report of g due.
StillDue(g) == marked[g] \notin DueAt[g] /\ \E t \in DueAt[g] : now <= t

\* Whoever owes a report found it due, and only under a lease is a report marked.
Begun ==
    /\ \A p \in Calls, g \in Groups : Owes(p, g) => \E t \in DueAt[g] : t <= now
    /\ \A p \in Calls : pc[p] = "mark" => Scheduled(p)

\* Reports sent and listed are paid for; where one is still due, each but those of
\* the call that nobody has overtaken.
Budget == \A g \in Groups :
             reports[g] + Cardinality(Listing(g)) <= 1 + faults + overlaps
Spare == \A g \in Groups :
            StillDue(g) =>
               reports[g] + Cardinality(Listing(g)) <= faults + overlaps + Cardinality(Unovertaken(g))

WeeklyInv == WeeklyTypeOK /\ Begun /\ Budget /\ Spare

-----------------------------------------------------------------------------

\* A step of the service does to the leases what the lease allows.
LEMMA LeaveIsRelease ==
    ASSUME NEW p \in Calls, NEW answered \in BOOLEAN, Leave(p, answered)
    PROVE  [LeaseNext]_leaseVars
BY DEF Leave, LeaseNext

LEMMA WeeklyStepIsLeaseStep ==
    ASSUME WeeklyTypeOK, [WeeklyNext]_weeklyVars
    PROVE  [LeaseNext]_leaseVars
<1>1. CASE WeeklyTick
  BY <1>1 DEF WeeklyTick
<1>2. CASE RedisStep
  BY <1>2 DEF RedisStep, LeaseNext
<1>3. ASSUME NEW g \in Groups, SwitchReports(g) PROVE UNCHANGED leaseVars
  BY <1>3 DEF SwitchReports
<1>4. ASSUME NEW p \in Calls, StartWeekly(p) PROVE LeaseNext
  <2>1. WeekOf[now] \in Leases
    BY WeeklyAssumption DEF WeeklyTypeOK
  <2>. QED  BY <1>4, <2>1 DEF StartWeekly, LeaseNext
<1>5. ASSUME NEW p \in Calls, StartNow(p) PROVE UNCHANGED leaseVars
  BY <1>5 DEF StartNow
<1>6. ASSUME NEW p \in Calls, SendReport(p) \/ Mark(p) \/ Reward(p) PROVE UNCHANGED leaseVars
  BY <1>6 DEF SendReport, Mark, Reward
<1>7. ASSUME NEW p \in Calls, Finish(p) \/ Die(p) PROVE [LeaseNext]_leaseVars
  BY <1>7, LeaveIsRelease DEF Finish, Die
<1>8. CASE UNCHANGED weeklyVars
  BY <1>8 DEF weeklyVars
<1>. QED
  BY <1>1, <1>2, <1>3, <1>4, <1>5, <1>6, <1>7, <1>8 DEF WeeklyNext, WeeklyStep

-----------------------------------------------------------------------------
(* Types. *)

LEMMA WeeklyTypeInit == WeeklyInit => WeeklyTypeOK
<1>. SUFFICES ASSUME WeeklyInit PROVE WeeklyTypeOK
  OBVIOUS
<1>1. LeaseTypeOK /\ \A p \in Calls : lease[p] = NoLease
  BY LeaseInvInit DEF WeeklyInit, LeaseInv, LeaseInit
<1>2. now \in Times
  BY WeeklyAssumption DEF WeeklyInit, Times
<1>. QED  BY <1>1, <1>2 DEF WeeklyInit, WeeklyTypeOK

LEMMA LeaveType ==
    ASSUME WeeklyTypeOK, NEW p \in Calls, NEW answered \in BOOLEAN, Leave(p, answered),
           LeaseTypeOK', faults' \in Nat
    PROVE  WeeklyTypeOK'
<1>. USE DEF WeeklyTypeOK, Leave
<1>1. \A q \in Calls : lease'[q] # NoLease => q # p /\ lease[q] # NoLease
  BY DEF Release, Scheduled, leaseVars, LeaseTypeOK
<1>. QED  BY <1>1

LEMMA FailedCounts ==
    ASSUME NEW times \in 0..2, NEW answered \in BOOLEAN, answered => times > 0
    PROVE  /\ Failed(times, answered) \in Nat /\ Failed(times, answered) >= times - 1
           /\ ~answered => Failed(times, answered) >= times /\ Failed(times, answered) >= 1
BY DEF Failed

\* A call ends in a Leave, with one more fault or none.
LEMMA EndLeaves ==
    ASSUME NEW p \in Calls, Finish(p) \/ Die(p)
    PROVE  /\ \E answered \in BOOLEAN : Leave(p, answered)
           /\ faults' = faults \/ faults' = faults + 1
<1>1. CASE Finish(p)
  BY <1>1 DEF Finish, Fault
<1>2. CASE Die(p)
  BY <1>2 DEF Die, Fault
<1>. QED  BY <1>1, <1>2

LEMMA WeeklyTypeStep ==
    ASSUME WeeklyTypeOK, LeaseTypeOK', [WeeklyNext]_weeklyVars
    PROVE  WeeklyTypeOK'
<1>. USE WeeklyAssumption DEF WeeklyTypeOK, Fault, leaseVars, reportVars, histories
<1>1. CASE WeeklyTick
  BY <1>1 DEF WeeklyTick, Times
<1>2. CASE RedisStep
  <2>1. UNCHANGED lease /\ faults' \in Nat
    BY <1>2 DEF RedisStep, AcquireUnanswered, RenewFails, Expire
  <2>. QED  BY <1>2, <2>1 DEF RedisStep
<1>3. ASSUME NEW g \in Groups, SwitchReports(g) PROVE WeeklyTypeOK'
  BY <1>3 DEF SwitchReports
<1>4. ASSUME NEW p \in Calls, StartWeekly(p) PROVE WeeklyTypeOK'
  <2>1. Working \subseteq Calls /\ Due \subseteq Groups
    BY DEF Working, Due
  <2>2. overlaps' \in Nat
    <3>1. IsFiniteSet(Working \ overtaken)
      BY <2>1, LeaseAssumption, FS_Subset
    <3>2. Cardinality(Working \ overtaken) \in Nat
      BY <3>1, FS_CardinalityType
    <3>. QED  BY <1>4, <3>2 DEF StartWeekly
  <2>3. \A q \in Calls : lease'[q] # NoLease => q = p \/ lease[q] # NoLease
    BY <1>4 DEF StartWeekly, Acquire, LeaseTypeOK
  <2>. QED  BY <1>4, <2>1, <2>2, <2>3 DEF StartWeekly, Begin
<1>5. ASSUME NEW p \in Calls, StartNow(p) PROVE WeeklyTypeOK'
  BY <1>5 DEF StartNow, Begin
<1>6. ASSUME NEW p \in Calls, SendReport(p) PROVE WeeklyTypeOK'
  <2>1. PICK g \in todo[p], times \in 0..2, answered \in BOOLEAN :
          /\ answered => times > 0
          /\ faults' = faults + Failed(times, answered)
          /\ reports' = IF Scheduled(p) THEN [reports EXCEPT ![g] = @ + times] ELSE reports
          /\ pc' = [pc EXCEPT ![p] = IF ~answered THEN @
                                     ELSE IF Scheduled(p) THEN "mark" ELSE "rewards"]
          /\ group' = IF answered THEN [group EXCEPT ![p] = g] ELSE group
          /\ todo' = [todo EXCEPT ![p] = @ \ {g}]
    BY <1>6 DEF SendReport
  <2>2. UNCHANGED <<leaseVars, now, open, marked, rewarded, overtaken, overlaps>>
        /\ pc[p] = "groups"
    BY <1>6 DEF SendReport
  <2>3. g \in Groups
    OBVIOUS
  <2>4. faults' \in Nat
    BY <2>1, FailedCounts
  <2>5. reports' \in [Groups -> Nat]
    <3>1. CASE Scheduled(p)
      <4>1. reports[g] + times \in Nat
        BY <2>3
      <4>. QED  BY <2>1, <2>3, <3>1, <4>1
    <3>2. CASE ~Scheduled(p)
      BY <2>1, <3>2
    <3>. QED  BY <3>1, <3>2
  <2>. QED  BY <2>1, <2>2, <2>3, <2>4, <2>5
<1>7. ASSUME NEW p \in Calls, Mark(p) \/ Reward(p) PROVE WeeklyTypeOK'
  BY <1>7 DEF Mark, Reward
<1>8. ASSUME NEW p \in Calls, Finish(p) \/ Die(p) PROVE WeeklyTypeOK'
  <2>1. faults' \in Nat
    BY <1>8, EndLeaves
  <2>2. WeeklyTypeOK
    OBVIOUS
  <2>. HIDE DEF WeeklyTypeOK
  <2>. QED  BY <1>8, <2>1, <2>2, EndLeaves, LeaveType
<1>9. CASE UNCHANGED weeklyVars
  BY <1>9 DEF weeklyVars
<1>. QED
  BY <1>1, <1>2, <1>3, <1>4, <1>5, <1>6, <1>7, <1>8, <1>9 DEF WeeklyNext, WeeklyStep

-----------------------------------------------------------------------------
(* Rewards behind a marked week. *)

\* Whoever has marked g and has still to give its rewards.
Rewarding(g) == \E p \in Calls : pc[p] = "rewards" /\ group[p] = g

LEMMA RewardStep ==
    ASSUME WeeklyTypeOK, RewardedUnlessFailed, [WeeklyNext]_weeklyVars
    PROVE  RewardedUnlessFailed'
<1>. SUFFICES ASSUME NEW g \in Groups, marked'[g] # Never, faults' = 0
              PROVE  g \in rewarded' \/ Rewarding(g)'
  BY DEF RewardedUnlessFailed, Rewarding
<1>0. faults \in Nat /\ (faults = 0 /\ marked[g] # Never => g \in rewarded \/ Rewarding(g))
  BY DEF RewardedUnlessFailed, Rewarding, WeeklyTypeOK
<1>. USE DEF Fault, leaseVars, reportVars, histories, Rewarding
<1>1. CASE WeeklyTick
  BY <1>0, <1>1 DEF WeeklyTick
<1>2. CASE RedisStep
  <2>1. faults = 0
    BY <1>0, <1>2 DEF RedisStep
  <2>. QED  BY <1>0, <1>2, <2>1 DEF RedisStep
<1>3. ASSUME NEW h \in Groups, SwitchReports(h) PROVE g \in rewarded' \/ Rewarding(g)'
  BY <1>0, <1>3 DEF SwitchReports
<1>4. ASSUME NEW p \in Calls, StartWeekly(p) \/ StartNow(p)
      PROVE  g \in rewarded' \/ Rewarding(g)'
  <2>1. /\ pc[p] = "idle" /\ pc' = [pc EXCEPT ![p] = "groups"]
        /\ UNCHANGED <<marked, rewarded, group, faults>>
    BY <1>4 DEF StartWeekly, StartNow, Begin
  <2>. QED  BY <1>0, <2>1 DEF WeeklyTypeOK
<1>5. ASSUME NEW p \in Calls, SendReport(p) PROVE g \in rewarded' \/ Rewarding(g)'
  <2>1. PICK times \in 0..2, answered \in BOOLEAN :
          (answered => times > 0) /\ faults' = faults + Failed(times, answered)
    BY <1>5 DEF SendReport
  <2>2. faults = 0
    BY <1>0, <2>1, FailedCounts DEF WeeklyTypeOK
  <2>3. /\ pc[p] = "groups" /\ UNCHANGED <<marked, rewarded>>
        /\ \A q \in Calls : q # p => pc'[q] = pc[q] /\ group'[q] = group[q]
    BY <1>5 DEF SendReport, WeeklyTypeOK
  <2>. QED  BY <1>0, <2>2, <2>3
<1>6. ASSUME NEW p \in Calls, Mark(p) PROVE g \in rewarded' \/ Rewarding(g)'
  <2>1. CASE group[p] = g
    BY <1>6, <2>1 DEF Mark, WeeklyTypeOK
  <2>2. CASE group[p] # g
    BY <1>0, <1>6, <2>2 DEF Mark, WeeklyTypeOK
  <2>. QED  BY <2>1, <2>2
<1>7. ASSUME NEW p \in Calls, Reward(p) PROVE g \in rewarded' \/ Rewarding(g)'
  <2>1. /\ rewarded' = rewarded \union {group[p]} /\ faults = 0 /\ UNCHANGED marked
        /\ \A q \in Calls : q # p => pc'[q] = pc[q] /\ group'[q] = group[q]
    BY <1>0, <1>7 DEF Reward, WeeklyTypeOK
  <2>. QED  BY <1>0, <2>1
<1>8. ASSUME NEW p \in Calls, Finish(p) \/ Die(p) PROVE g \in rewarded' \/ Rewarding(g)'
  <2>1. faults' = faults
    BY <1>0, <1>8, EndLeaves
  <2>2. pc[p] = "groups"
    <3>1. ~Die(p)
      BY <1>0, <2>1 DEF Die
    <3>. QED  BY <1>8, <3>1 DEF Finish
  <2>3. /\ UNCHANGED <<marked, rewarded>>
        /\ \A q \in Calls : q # p => pc'[q] = pc[q] /\ group'[q] = group[q]
    BY <1>8, EndLeaves DEF Leave, WeeklyTypeOK
  <2>. QED  BY <1>0, <2>1, <2>2, <2>3
<1>9. CASE UNCHANGED weeklyVars
  BY <1>0, <1>9 DEF weeklyVars
<1>. QED
  BY <1>1, <1>2, <1>3, <1>4, <1>5, <1>6, <1>7, <1>8, <1>9 DEF WeeklyNext, WeeklyStep

-----------------------------------------------------------------------------
(* The budget of reports. *)

LEMMA OwingFinite ==
    ASSUME NEW g \in Groups
    PROVE  /\ IsFiniteSet(Listing(g)) /\ Cardinality(Listing(g)) \in Nat
           /\ IsFiniteSet(Unovertaken(g)) /\ Cardinality(Unovertaken(g)) \in Nat
<1>1. Listing(g) \subseteq Calls /\ Unovertaken(g) \subseteq Calls
  BY DEF Listing, Unovertaken
<1>. QED  BY <1>1, LeaseAssumption, FS_Subset, FS_CardinalityType

LEMMA OwingPrimeFinite ==
    ASSUME NEW g \in Groups
    PROVE  /\ IsFiniteSet(Listing(g)') /\ Cardinality(Listing(g)') \in Nat
           /\ IsFiniteSet(Unovertaken(g)') /\ Cardinality(Unovertaken(g)') \in Nat
<1>1. Listing(g)' \subseteq Calls /\ Unovertaken(g)' \subseteq Calls
  BY DEF Listing, Unovertaken
<1>. QED  BY <1>1, LeaseAssumption, FS_Subset, FS_CardinalityType

\* What keeps the budget and the spare of a group, in numbers: the budget may take
\* what the spare has left.
BudgetKept(g) ==
    \/ reports'[g] + Cardinality(Listing(g)') + faults + overlaps
         <= reports[g] + Cardinality(Listing(g)) + faults' + overlaps'
    \/ /\ StillDue(g)
       /\ reports'[g] + Cardinality(Listing(g)') + faults + overlaps + Cardinality(Unovertaken(g))
            <= reports[g] + Cardinality(Listing(g)) + 1 + faults' + overlaps'

SpareKept(g) ==
    StillDue(g)' =>
       /\ StillDue(g)
       /\ reports'[g] + Cardinality(Listing(g)') + faults + overlaps + Cardinality(Unovertaken(g))
            <= reports[g] + Cardinality(Listing(g)) + faults' + overlaps' + Cardinality(Unovertaken(g)')

LEMMA KeptSuffices ==
    ASSUME WeeklyInv, WeeklyTypeOK', \A g \in Groups : BudgetKept(g) /\ SpareKept(g)
    PROVE  Budget' /\ Spare'
<1>. SUFFICES ASSUME NEW g \in Groups
              PROVE  /\ reports'[g] + Cardinality(Listing(g)') <= 1 + faults' + overlaps'
                     /\ StillDue(g)' =>
                          reports'[g] + Cardinality(Listing(g)')
                            <= faults' + overlaps' + Cardinality(Unovertaken(g)')
  BY DEF Budget, Spare
<1>1. /\ reports[g] \in Nat /\ reports'[g] \in Nat /\ faults \in Nat /\ faults' \in Nat
      /\ overlaps \in Nat /\ overlaps' \in Nat
  BY DEF WeeklyInv, WeeklyTypeOK
<1>2. /\ reports[g] + Cardinality(Listing(g)) <= 1 + faults + overlaps
      /\ StillDue(g) => reports[g] + Cardinality(Listing(g))
                          <= faults + overlaps + Cardinality(Unovertaken(g))
  BY DEF WeeklyInv, Budget, Spare
<1>3. reports'[g] + Cardinality(Listing(g)') <= 1 + faults' + overlaps'
  BY <1>1, <1>2, OwingFinite, OwingPrimeFinite DEF BudgetKept
<1>4. ASSUME StillDue(g)'
      PROVE  reports'[g] + Cardinality(Listing(g)')
               <= faults' + overlaps' + Cardinality(Unovertaken(g)')
  BY <1>1, <1>2, <1>4, OwingFinite, OwingPrimeFinite DEF SpareKept
<1>. QED  BY <1>3, <1>4

\* A step that leaves alone who owes what, and counts no fault back, keeps both.
LEMMA SameOwing ==
    ASSUME WeeklyTypeOK, WeeklyTypeOK', NEW g \in Groups,
           Listing(g)' = Listing(g), Unovertaken(g)' = Unovertaken(g), reports'[g] = reports[g],
           faults' >= faults, overlaps' = overlaps, StillDue(g)' => StillDue(g)
    PROVE  BudgetKept(g) /\ SpareKept(g)
<1>1. /\ reports[g] \in Nat /\ faults \in Nat /\ faults' \in Nat /\ overlaps \in Nat
  BY DEF WeeklyTypeOK
<1>. QED  BY <1>1, OwingFinite DEF BudgetKept, SpareKept

\* The times at which a report is due are consecutive.
LEMMA DueDay ==
    ASSUME NEW g \in Groups, NEW s \in DueAt[g], NEW t \in DueAt[g]
    PROVE  s \in Nat /\ t \in Nat /\ s..t \subseteq DueAt[g]
<1>1. DueAt[g] \subseteq Times /\ Times \subseteq Nat
  BY WeeklyAssumption DEF Times
<1>2. s..t \subseteq DueAt[g]
  BY WeeklyAssumption
<1>. QED  BY <1>1, <1>2

LEMMA StartWeeklyKeeps ==
    ASSUME WeeklyInv, WeeklyTypeOK', NEW p \in Calls, StartWeekly(p), NEW g \in Groups
    PROVE  BudgetKept(g) /\ SpareKept(g)
<1>. DEFINE new == Cardinality(Working \ overtaken)
<1>1. /\ lease[p] = NoLease /\ pc[p] = "idle"
      /\ lease' = [lease EXCEPT ![p] = WeekOf[now]] /\ WeekOf[now] # NoLease
      /\ pc' = [pc EXCEPT ![p] = "groups"] /\ todo' = [todo EXCEPT ![p] = Due]
      /\ UNCHANGED <<now, marked, group, faults, reports>>
      /\ overtaken' = Working /\ overlaps' = overlaps + new
      /\ lease \in [Calls -> Leases \union {NoLease}]
      /\ pc \in [Calls -> {"idle", "groups", "mark", "rewards"}]
      /\ todo \in [Calls -> SUBSET Groups]
  BY WeeklyAssumption, LeaseAssumption
     DEF StartWeekly, Acquire, Begin, WeeklyInv, WeeklyTypeOK, LeaseTypeOK
<1>2. Unovertaken(g) \subseteq Working \ overtaken /\ IsFiniteSet(Working \ overtaken)
  <2>1. Working \ overtaken \subseteq Calls
    BY DEF Working
  <2>. QED  BY <2>1, LeaseAssumption, FS_Subset DEF Unovertaken, Owes, Scheduled, Working
<1>3. new \in Nat /\ Cardinality(Unovertaken(g)) <= new
  BY <1>2, FS_Subset, FS_CardinalityType
<1>. HIDE DEF new
<1>4. /\ reports[g] \in Nat /\ faults \in Nat /\ overlaps \in Nat
  BY DEF WeeklyInv, WeeklyTypeOK
<1>5. CASE g \in Due
  <2>1. Listing(g)' = Listing(g) \union {p}
    BY <1>1, <1>5 DEF Listing, Scheduled
  <2>2. Unovertaken(g)' = {p}
    <3>1. p \in Unovertaken(g)'
      BY <1>1, <1>5 DEF Unovertaken, Owes, Scheduled, Working
    <3>2. ASSUME NEW q \in Unovertaken(g)' PROVE q = p
      BY <1>1 DEF Unovertaken, Owes, Scheduled, Working
    <3>. QED  BY <3>1, <3>2
  <2>3. Cardinality(Unovertaken(g)') = 1
    BY <2>2, FS_Singleton
  <2>4. StillDue(g)
    <3>1. now \in Nat
      BY WeeklyAssumption DEF WeeklyInv, WeeklyTypeOK, Times
    <3>2. now <= now
      BY <3>1
    <3>3. now \in DueAt[g] /\ marked[g] \notin DueAt[g]
      BY <1>5 DEF Due
    <3>. QED  BY <3>2, <3>3 DEF StillDue
  <2>5. Cardinality(Listing(g)') <= Cardinality(Listing(g)) + 1
    BY <2>1, OwingFinite, AddsAtMostOne
  <2>6. reports[g] + Cardinality(Listing(g)) <= faults + overlaps + Cardinality(Unovertaken(g))
    BY <2>4 DEF WeeklyInv, Spare
  <2>. QED
    BY <1>1, <1>3, <1>4, <2>3, <2>4, <2>5, OwingFinite, OwingPrimeFinite
       DEF BudgetKept, SpareKept
<1>6. CASE g \notin Due
  <2>1. Listing(g)' = Listing(g)
    BY <1>1, <1>6 DEF Listing, Scheduled
  <2>2. StillDue(g)' => StillDue(g)
    BY <1>1 DEF StillDue
  <2>. QED
    BY <1>1, <1>3, <1>4, <2>1, <2>2, OwingFinite, OwingPrimeFinite DEF BudgetKept, SpareKept
<1>. QED  BY <1>5, <1>6

LEMMA SendKeeps ==
    ASSUME WeeklyInv, WeeklyTypeOK', NEW p \in Calls, SendReport(p), NEW g \in Groups
    PROVE  BudgetKept(g) /\ SpareKept(g)
<1>1. PICK h \in todo[p], times \in 0..2, answered \in BOOLEAN :
        /\ answered => times > 0
        /\ faults' = faults + Failed(times, answered)
        /\ reports' = IF Scheduled(p) THEN [reports EXCEPT ![h] = @ + times] ELSE reports
        /\ pc' = [pc EXCEPT ![p] = IF ~answered THEN @
                                   ELSE IF Scheduled(p) THEN "mark" ELSE "rewards"]
        /\ group' = IF answered THEN [group EXCEPT ![p] = h] ELSE group
        /\ todo' = [todo EXCEPT ![p] = @ \ {h}]
  BY DEF SendReport
<1>2. /\ UNCHANGED <<lease, now, marked, overtaken, overlaps>> /\ pc[p] = "groups"
      /\ pc \in [Calls -> {"idle", "groups", "mark", "rewards"}]
      /\ todo \in [Calls -> SUBSET Groups]
      /\ group \in [Calls -> Groups \union {NoGroup}]
      /\ reports \in [Groups -> Nat] /\ faults \in Nat /\ overlaps \in Nat
  BY DEF SendReport, WeeklyInv, WeeklyTypeOK, leaseVars
<1>3. StillDue(g)' = StillDue(g)
  BY <1>2 DEF StillDue
<1>4. /\ faults' \in Nat /\ faults' >= faults /\ faults' >= faults + times - 1
      /\ ~answered => faults' >= faults + times /\ faults' >= faults + 1
  BY <1>1, <1>2, FailedCounts
<1>5. \A q \in Calls : Scheduled(q)' = Scheduled(q)
  BY <1>2 DEF Scheduled
<1>6. \A q \in Calls : q # p => todo'[q] = todo[q] /\ pc'[q] = pc[q] /\ group'[q] = group[q]
  BY <1>1, <1>2
<1>7. CASE ~Scheduled(p) \/ g # h
  <2>1. Listing(g)' = Listing(g)
    BY <1>1, <1>2, <1>5, <1>6, <1>7 DEF Listing
  <2>2. Owes(p, g)' = Owes(p, g)
    <3>1. CASE ~Scheduled(p)
      BY <1>5, <3>1 DEF Owes
    <3>2. CASE g # h
      BY <1>1, <1>2, <1>5, <3>2 DEF Owes
    <3>. QED  BY <1>7, <3>1, <3>2
  <2>3. Unovertaken(g)' = Unovertaken(g)
    <3>1. \A q \in Calls : Owes(q, g)' = Owes(q, g)
      BY <1>5, <1>6, <2>2 DEF Owes
    <3>. QED  BY <1>2, <3>1 DEF Unovertaken
  <2>4. reports'[g] = reports[g]
    BY <1>1, <1>2, <1>7
  <2>5. faults' >= faults
    BY <1>2, <1>4
  <2>. QED  BY <1>2, <1>3, <2>1, <2>3, <2>4, <2>5, SameOwing DEF WeeklyInv
<1>8. /\ times \in Nat /\ reports[g] \in Nat /\ faults \in Nat /\ overlaps \in Nat
      /\ overlaps' = overlaps
  BY <1>2
<1>9. CASE Scheduled(p) /\ g = h
  <2>1. p \in Listing(g) /\ Listing(g)' = Listing(g) \ {p}
    BY <1>1, <1>2, <1>5, <1>6, <1>9 DEF Listing
  <2>2. Cardinality(Listing(g)') = Cardinality(Listing(g)) - 1
    BY <2>1, OwingFinite, FS_RemoveElement
  <2>3. reports'[g] = reports[g] + times
    BY <1>1, <1>2, <1>9
  <2>4. \A q \in Calls : q # p => Owes(q, g)' = Owes(q, g)
    BY <1>5, <1>6 DEF Owes
  <2>5. CASE answered
    <3>1. Owes(p, g)' /\ Owes(p, g)
      BY <1>1, <1>2, <1>5, <1>9, <2>5 DEF Owes
    <3>2. Unovertaken(g)' = Unovertaken(g)
      BY <1>2, <2>4, <3>1 DEF Unovertaken
    <3>3. reports'[g] + faults <= reports[g] + 1 + faults'
      BY <1>4, <1>8, <2>3
    <3>. QED  BY <1>3, <1>4, <1>8, <2>2, <2>3, <3>2, <3>3, OwingFinite DEF BudgetKept, SpareKept
  <2>6. CASE ~answered
    <3>1. Unovertaken(g) \subseteq Unovertaken(g)' \union {p}
      BY <1>2, <2>4 DEF Unovertaken
    <3>2. Cardinality(Unovertaken(g)) <= Cardinality(Unovertaken(g)') + 1
      <4>1. /\ IsFiniteSet(Unovertaken(g)' \union {p})
            /\ Cardinality(Unovertaken(g)' \union {p}) \in Nat
            /\ Cardinality(Unovertaken(g)' \union {p}) <= Cardinality(Unovertaken(g)') + 1
        BY OwingPrimeFinite, AddsAtMostOne
      <4>2. Cardinality(Unovertaken(g)) <= Cardinality(Unovertaken(g)' \union {p})
        BY <3>1, <4>1, FS_Subset
      <4>. QED  BY <4>1, <4>2, OwingFinite, OwingPrimeFinite
    <3>3. reports'[g] + faults <= reports[g] + faults'
      BY <1>4, <1>8, <2>3, <2>6
    <3>. QED
      BY <1>3, <1>4, <1>8, <2>2, <2>3, <3>2, <3>3, OwingFinite, OwingPrimeFinite
         DEF BudgetKept, SpareKept
  <2>. QED  BY <2>5, <2>6
<1>. QED  BY <1>7, <1>9

LEMMA MarkKeeps ==
    ASSUME WeeklyInv, WeeklyTypeOK', NEW p \in Calls, Mark(p), NEW g \in Groups
    PROVE  BudgetKept(g) /\ SpareKept(g)
<1>1. /\ pc[p] = "mark" /\ pc' = [pc EXCEPT ![p] = "rewards"]
      /\ marked' = [marked EXCEPT ![group[p]] = now]
      /\ UNCHANGED <<lease, now, todo, group, faults, reports, overtaken, overlaps>>
      /\ pc \in [Calls -> {"idle", "groups", "mark", "rewards"}]
      /\ marked \in [Groups -> Times \union {Never}]
      /\ reports \in [Groups -> Nat] /\ faults \in Nat /\ overlaps \in Nat
      /\ now \in Nat
  BY WeeklyAssumption DEF Mark, WeeklyInv, WeeklyTypeOK, leaseVars, histories, Times
<1>2. Listing(g)' = Listing(g)
  BY <1>1 DEF Listing, Scheduled
<1>3. \A q \in Calls : q # p => Owes(q, g)' = Owes(q, g)
  BY <1>1 DEF Owes, Scheduled
<1>4. CASE group[p] # g
  <2>1. Owes(p, g)' = Owes(p, g)
    BY <1>1, <1>4 DEF Owes, Scheduled
  <2>2. Unovertaken(g)' = Unovertaken(g)
    BY <1>1, <1>3, <2>1 DEF Unovertaken
  <2>3. StillDue(g)' = StillDue(g)
    BY <1>1, <1>4 DEF StillDue
  <2>. QED  BY <1>1, <1>2, <2>2, <2>3, SameOwing DEF WeeklyInv
<1>5. CASE group[p] = g
  <2>1. ~StillDue(g)'
    <3>. SUFFICES ASSUME NEW t \in DueAt[g], now <= t, marked'[g] \notin DueAt[g] PROVE FALSE
      BY <1>1 DEF StillDue
    <3>1. PICK s \in DueAt[g] : s <= now
      BY <1>1, <1>5 DEF WeeklyInv, Begun, Owes
    <3>2. now \in s..t
      BY <1>1, <3>1, DueDay
    <3>3. now \in DueAt[g]
      BY <3>1, <3>2, DueDay
    <3>. QED  BY <1>1, <1>5, <3>3
  <2>2. BudgetKept(g)
    BY <1>1, <1>2, OwingFinite DEF BudgetKept
  <2>. QED  BY <2>1, <2>2 DEF SpareKept
<1>. QED  BY <1>4, <1>5

LEMMA EndKeeps ==
    ASSUME WeeklyInv, WeeklyTypeOK', NEW p \in Calls, Finish(p) \/ Die(p), NEW g \in Groups
    PROVE  BudgetKept(g) /\ SpareKept(g)
<1>1. /\ lease'[p] = NoLease
      /\ \A q \in Calls : q # p => lease'[q] = lease[q]
      /\ todo' = [todo EXCEPT ![p] = {}] /\ pc' = [pc EXCEPT ![p] = "idle"]
      /\ group' = [group EXCEPT ![p] = NoGroup] /\ overtaken' = overtaken \ {p}
      /\ UNCHANGED <<now, marked, reports, overlaps>>
      /\ pc \in [Calls -> {"idle", "groups", "mark", "rewards"}]
      /\ todo \in [Calls -> SUBSET Groups]
      /\ group \in [Calls -> Groups \union {NoGroup}]
  <2>1. PICK answered \in BOOLEAN : Leave(p, answered)
    BY EndLeaves
  <2>2. lease \in [Calls -> Leases \union {NoLease}]
    BY DEF WeeklyInv, WeeklyTypeOK, LeaseTypeOK
  <2>3. lease'[p] = NoLease /\ \A q \in Calls : q # p => lease'[q] = lease[q]
    BY <2>1, <2>2 DEF Leave, Release, Scheduled, leaseVars
  <2>. QED  BY <2>1, <2>3 DEF Leave, WeeklyInv, WeeklyTypeOK
<1>2. reports[g] \in Nat /\ faults \in Nat /\ overlaps \in Nat
  BY DEF WeeklyInv, WeeklyTypeOK
<1>3. faults' = faults \/ faults' = faults + 1
  BY EndLeaves
<1>4. StillDue(g)' = StillDue(g)
  BY <1>1 DEF StillDue
<1>5. \A q \in Calls : q # p => Scheduled(q)' = Scheduled(q) /\ Owes(q, g)' = Owes(q, g)
  BY <1>1 DEF Scheduled, Owes
<1>6. ~Scheduled(p)' /\ ~Owes(p, g)'
  BY <1>1 DEF Scheduled, Owes
<1>7. Listing(g)' \subseteq Listing(g)
  BY <1>1, <1>5, <1>6 DEF Listing
<1>8. Cardinality(Listing(g)') <= Cardinality(Listing(g))
  BY <1>7, OwingFinite, FS_Subset
<1>9. Unovertaken(g) \subseteq Unovertaken(g)' \union {p}
  BY <1>1, <1>5 DEF Unovertaken
<1>10. Cardinality(Unovertaken(g)) <= Cardinality(Unovertaken(g)') + 1
  <2>1. /\ IsFiniteSet(Unovertaken(g)' \union {p})
        /\ Cardinality(Unovertaken(g)' \union {p}) \in Nat
        /\ Cardinality(Unovertaken(g)' \union {p}) <= Cardinality(Unovertaken(g)') + 1
    BY OwingPrimeFinite, AddsAtMostOne
  <2>2. Cardinality(Unovertaken(g)) <= Cardinality(Unovertaken(g)' \union {p})
    BY <1>9, <2>1, FS_Subset
  <2>. QED  BY <2>1, <2>2, OwingFinite, OwingPrimeFinite
<1>11. CASE Die(p)
  <2>1. faults' = faults + 1
    BY <1>11 DEF Die, Fault
  <2>. QED
    BY <1>1, <1>2, <1>4, <1>8, <1>10, <2>1, OwingFinite, OwingPrimeFinite
       DEF BudgetKept, SpareKept
<1>12. CASE Finish(p)
  <2>1. ~Owes(p, g)
    BY <1>12 DEF Finish, Owes
  <2>2. Unovertaken(g)' = Unovertaken(g)
    BY <1>1, <1>5, <1>6, <2>1 DEF Unovertaken
  <2>. QED
    BY <1>1, <1>2, <1>3, <1>4, <1>8, <2>2, OwingFinite, OwingPrimeFinite
       DEF BudgetKept, SpareKept
<1>. QED  BY <1>11, <1>12

\* The steps that change nothing anybody owes.
LEMMA OthersKeep ==
    ASSUME WeeklyInv, WeeklyTypeOK', NEW g \in Groups,
           \/ WeeklyTick \/ RedisStep \/ UNCHANGED weeklyVars
           \/ \E h \in Groups : SwitchReports(h)
           \/ \E p \in Calls : StartNow(p) \/ Reward(p)
    PROVE  BudgetKept(g) /\ SpareKept(g)
<1>1. /\ UNCHANGED <<lease, marked, reports, overtaken, overlaps>>
      /\ now \in Nat /\ (now' = now \/ now' = now + 1)
      /\ faults' = faults \/ faults' = faults + 1
      /\ \A q \in Calls : Scheduled(q) /\ pc[q] # "rewards" =>
                             todo'[q] = todo[q] /\ pc'[q] = pc[q] /\ group'[q] = group[q]
      /\ \A q \in Calls : Scheduled(q) => todo'[q] = todo[q]
      /\ \A q \in Calls : pc[q] = "rewards" /\ Scheduled(q) => pc'[q] # "mark"
  <2>. USE DEF WeeklyInv, WeeklyTypeOK, leaseVars, reportVars, histories
  <2>0. now \in Nat
    BY WeeklyAssumption DEF Times
  <2>1. CASE WeeklyTick
    BY <2>0, <2>1 DEF WeeklyTick
  <2>2. CASE RedisStep
    <3>1. UNCHANGED lease
      BY <2>2 DEF RedisStep, AcquireUnanswered, RenewFails, Expire
    <3>. QED  BY <2>0, <2>2, <3>1 DEF RedisStep, Fault
  <2>3. CASE UNCHANGED weeklyVars
    BY <2>0, <2>3 DEF weeklyVars
  <2>4. ASSUME NEW h \in Groups, SwitchReports(h) PROVE <1>1!:
    BY <2>0, <2>4 DEF SwitchReports
  <2>5. ASSUME NEW p \in Calls, StartNow(p) PROVE <1>1!:
    <3>1. pc[p] = "idle" /\ ~Scheduled(p)
      BY <2>5 DEF StartNow, Begin, Scheduled
    <3>. QED  BY <2>0, <2>5, <3>1 DEF StartNow, Begin
  <2>6. ASSUME NEW p \in Calls, Reward(p) PROVE <1>1!:
    BY <2>0, <2>6 DEF Reward, Fault
  <2>. QED  BY <2>1, <2>2, <2>3, <2>4, <2>5, <2>6
<1>2. \A q \in Calls : Scheduled(q)' = Scheduled(q)
  BY <1>1 DEF Scheduled
<1>3. Listing(g)' = Listing(g)
  BY <1>1, <1>2 DEF Listing
<1>4. Unovertaken(g)' = Unovertaken(g)
  <2>1. \A q \in Calls : Owes(q, g)' = Owes(q, g)
    BY <1>1, <1>2 DEF Owes
  <2>. QED  BY <1>1, <2>1 DEF Unovertaken
<1>5. StillDue(g)' => StillDue(g)
  BY <1>1, WeeklyAssumption DEF StillDue, Times
<1>6. faults' >= faults
  BY <1>1 DEF WeeklyInv, WeeklyTypeOK
<1>. QED  BY <1>1, <1>3, <1>4, <1>5, <1>6, SameOwing DEF WeeklyInv

\* Nobody begins to owe a report that is not due.
OwesForReason ==
    /\ \A p \in Calls, g \in Groups : Owes(p, g)' => Owes(p, g) \/ now \in DueAt[g]
    /\ \A p \in Calls : pc'[p] = "mark" => Scheduled(p)'

LEMMA ReasonStep ==
    ASSUME WeeklyInv, WeeklyTypeOK', [WeeklyNext]_weeklyVars
    PROVE  OwesForReason
<1>0. /\ \A p \in Calls : pc[p] = "mark" => Scheduled(p)
      /\ pc \in [Calls -> {"idle", "groups", "mark", "rewards"}]
      /\ todo \in [Calls -> SUBSET Groups]
      /\ group \in [Calls -> Groups \union {NoGroup}]
      /\ lease \in [Calls -> Leases \union {NoLease}]
  BY DEF WeeklyInv, Begun, WeeklyTypeOK, LeaseTypeOK
<1>. USE DEF OwesForReason, Owes, Scheduled, leaseVars, reportVars, histories
<1>1. CASE UNCHANGED <<lease, pc, todo, group>>
  BY <1>0, <1>1
<1>2. CASE RedisStep
  <2>1. UNCHANGED lease
    BY <1>2 DEF RedisStep, AcquireUnanswered, RenewFails, Expire
  <2>. QED  BY <1>1, <1>2, <2>1 DEF RedisStep
<1>3. ASSUME NEW h \in Groups, SwitchReports(h) PROVE OwesForReason
  BY <1>1, <1>3 DEF SwitchReports
<1>4. ASSUME NEW q \in Calls, StartWeekly(q) PROVE OwesForReason
  <2>1. /\ pc' = [pc EXCEPT ![q] = "groups"] /\ todo' = [todo EXCEPT ![q] = Due]
        /\ lease' = [lease EXCEPT ![q] = WeekOf[now]] /\ UNCHANGED group
    BY <1>4 DEF StartWeekly, Begin, Acquire
  <2>. QED  BY <1>0, <2>1 DEF Due
<1>5. ASSUME NEW q \in Calls, StartNow(q) PROVE OwesForReason
  <2>1. pc[q] = "idle" /\ lease[q] = NoLease
    BY <1>5 DEF StartNow, Begin, WeeklyInv, WeeklyTypeOK
  <2>. QED  BY <1>0, <1>5, <2>1 DEF StartNow, Begin
<1>6. ASSUME NEW q \in Calls, SendReport(q) PROVE OwesForReason
  <2>1. PICK h \in todo[q], answered \in BOOLEAN :
          /\ pc' = [pc EXCEPT ![q] = IF ~answered THEN @
                                     ELSE IF lease[q] # NoLease THEN "mark" ELSE "rewards"]
          /\ group' = IF answered THEN [group EXCEPT ![q] = h] ELSE group
          /\ todo' = [todo EXCEPT ![q] = @ \ {h}]
    BY <1>6 DEF SendReport
  <2>2. UNCHANGED lease /\ pc[q] = "groups"
    BY <1>6 DEF SendReport
  <2>3. CASE answered
    <3>1. \A p \in Calls, g \in Groups : Owes(p, g)' => Owes(p, g)
      BY <1>0, <2>1, <2>2, <2>3
    <3>2. \A p \in Calls : pc'[p] = "mark" => lease[p] # NoLease
      BY <1>0, <2>1, <2>2, <2>3
    <3>. QED  BY <2>2, <3>1, <3>2
  <2>4. CASE ~answered
    BY <1>0, <2>1, <2>2, <2>4
  <2>. QED  BY <2>3, <2>4
<1>7. ASSUME NEW q \in Calls, Mark(q) \/ Reward(q) PROVE OwesForReason
  BY <1>0, <1>7 DEF Mark, Reward
<1>8. ASSUME NEW q \in Calls, NEW answered \in BOOLEAN, Leave(q, answered) PROVE OwesForReason
  <2>1. /\ \A p \in Calls : p # q => lease'[p] = lease[p] /\ pc'[p] = pc[p]
                                     /\ todo'[p] = todo[p] /\ group'[p] = group[p]
        /\ pc'[q] = "idle" /\ todo'[q] = {}
    BY <1>0, <1>8 DEF Leave, Release
  <2>. QED  BY <1>0, <2>1
<1>9. CASE WeeklyTick \/ UNCHANGED weeklyVars
  BY <1>1, <1>9 DEF WeeklyTick, weeklyVars
<1>. QED
  BY <1>2, <1>3, <1>4, <1>5, <1>6, <1>7, <1>8, <1>9, EndLeaves DEF WeeklyNext, WeeklyStep

LEMMA BegunStep ==
    ASSUME WeeklyInv, WeeklyTypeOK', [WeeklyNext]_weeklyVars
    PROVE  Begun'
<1>1. now \in Nat /\ (now' = now \/ now' = now + 1)
  <2>1. now \in Nat
    BY WeeklyAssumption DEF WeeklyInv, WeeklyTypeOK, Times
  <2>2. now' = now \/ now' = now + 1
    BY EndLeaves
       DEF WeeklyNext, weeklyVars, WeeklyTick, RedisStep, SwitchReports, StartWeekly, StartNow,
           Begin, WeeklyStep, SendReport, Mark, Reward, Leave
  <2>. QED  BY <2>1, <2>2
<1>2. ASSUME NEW p \in Calls, NEW g \in Groups, Owes(p, g)'
      PROVE  \E t \in DueAt[g] : t <= now'
  <2>1. PICK t \in DueAt[g] : t <= now
    <3>1. CASE Owes(p, g)
      BY <3>1 DEF WeeklyInv, Begun
    <3>2. CASE now \in DueAt[g]
      BY <1>1, <3>2
    <3>. QED  BY <1>2, <3>1, <3>2, ReasonStep DEF OwesForReason
  <2>2. t <= now'
    BY <1>1, <2>1, DueDay
  <2>. QED  BY <2>2
<1>. QED  BY <1>2, ReasonStep DEF Begun, OwesForReason

LEMMA WeeklyInvStep ==
    ASSUME LeaseTypeOK', WeeklyInv, [WeeklyNext]_weeklyVars
    PROVE  WeeklyInv'
<1>1. WeeklyTypeOK'
  BY WeeklyTypeStep DEF WeeklyInv
<1>2. Begun'
  BY <1>1, BegunStep
<1>3. ASSUME NEW g \in Groups PROVE BudgetKept(g) /\ SpareKept(g)
  BY <1>1, StartWeeklyKeeps, SendKeeps, MarkKeeps, EndKeeps, OthersKeep
     DEF WeeklyNext, WeeklyStep
<1>. QED  BY <1>1, <1>2, <1>3, KeptSuffices DEF WeeklyInv

LEMMA WeeklyInvInit == WeeklyInit => WeeklyInv
<1>. SUFFICES ASSUME WeeklyInit PROVE WeeklyInv
  OBVIOUS
<1>1. /\ \A p \in Calls : ~Scheduled(p) /\ pc[p] = "idle"
      /\ \A g \in Groups : reports[g] = 0
  BY DEF WeeklyInit, LeaseInit, Scheduled
<1>2. Begun
  BY <1>1 DEF Begun, Owes
<1>3. ASSUME NEW g \in Groups
      PROVE  /\ reports[g] + Cardinality(Listing(g)) <= 1 + faults + overlaps
             /\ reports[g] + Cardinality(Listing(g)) <= faults + overlaps + Cardinality(Unovertaken(g))
  <2>1. Listing(g) = {} /\ Unovertaken(g) = {}
    BY <1>1 DEF Listing, Unovertaken, Owes
  <2>2. Cardinality(Listing(g)) = 0 /\ Cardinality(Unovertaken(g)) = 0
    BY <2>1, FS_EmptySet
  <2>. QED  BY <1>1, <2>2 DEF WeeklyInit
<1>. QED  BY <1>2, <1>3, WeeklyTypeInit DEF WeeklyInv, Budget, Spare

-----------------------------------------------------------------------------
(* Theorems of the weekly reports. *)

\* The jobs of the service use the lease as it is meant to be used: whatever the
\* lease promises holds of them (the "async with lease" of main.py).
THEOREM WeeklyKeepsTheLease == WeeklySpec => LeaseSpec /\ []WeeklyTypeOK
<1>1. WeeklyInit => LeaseInit /\ LeaseInv /\ WeeklyTypeOK
  BY LeaseInvInit, WeeklyTypeInit DEF WeeklyInit
<1>2. LeaseInv /\ WeeklyTypeOK /\ [WeeklyNext]_weeklyVars
        => [LeaseNext]_leaseVars /\ LeaseInv' /\ WeeklyTypeOK'
  <2>. SUFFICES ASSUME LeaseInv, WeeklyTypeOK, [WeeklyNext]_weeklyVars
                PROVE  [LeaseNext]_leaseVars /\ LeaseInv' /\ WeeklyTypeOK'
    OBVIOUS
  <2>1. [LeaseNext]_leaseVars
    BY WeeklyStepIsLeaseStep
  <2>2. LeaseInv'
    BY <2>1, LeaseTypeStep, ExclusiveStep DEF LeaseInv
  <2>. QED  BY <2>1, <2>2, WeeklyTypeStep DEF LeaseInv
<1>. QED  BY <1>1, <1>2, PTL DEF WeeklySpec, LeaseSpec

\* Two runs of the job at once need a lapse of their lease for each run beyond the
\* first (leases.py:68).
THEOREM WeeklyExcludes == WeeklySpec => [](ExclusiveUnlessLapsed) /\ OwnTokenOnly
BY WeeklyKeepsTheLease, LeaseExcludes, LeaseKeepsTokens, PTL

\* Each report of a group beyond the first was bought by a fault or by a start of the
\* job that overtook another (weekly_reports.py:114, main.py:108).
THEOREM ReportsAreBudgeted == WeeklySpec => []ReportBudget
<1>1. WeeklyInv => ReportBudget
  <2>. SUFFICES ASSUME WeeklyInv, NEW g \in Groups
                PROVE  reports[g] <= 1 + faults + overlaps
    BY DEF ReportBudget
  <2>1. /\ reports[g] + Cardinality(Listing(g)) <= 1 + faults + overlaps
        /\ reports[g] \in Nat /\ faults \in Nat /\ overlaps \in Nat
    BY DEF WeeklyInv, Budget, WeeklyTypeOK
  <2>. QED  BY <2>1, OwingFinite
<1>2. WeeklyInit => LeaseInv /\ WeeklyInv
  BY LeaseInvInit, WeeklyInvInit DEF WeeklyInit
<1>3. LeaseInv /\ WeeklyInv /\ [WeeklyNext]_weeklyVars => LeaseInv' /\ WeeklyInv'
  <2>. SUFFICES ASSUME LeaseInv, WeeklyInv, [WeeklyNext]_weeklyVars
                PROVE  LeaseInv' /\ WeeklyInv'
    OBVIOUS
  <2>1. LeaseInv'
    BY WeeklyStepIsLeaseStep, LeaseTypeStep, ExclusiveStep DEF LeaseInv, WeeklyInv
  <2>. QED  BY <2>1, WeeklyInvStep DEF LeaseInv
<1>. QED  BY <1>1, <1>2, <1>3, PTL DEF WeeklySpec

\* A marked week has had its rewards, or they are on their way, unless something failed
\* (weekly_reports.py:120).
THEOREM MarkedIsRewarded == WeeklySpec => []RewardedUnlessFailed
<1>1. WeeklyInit => RewardedUnlessFailed
  BY WeeklyAssumption DEF WeeklyInit, RewardedUnlessFailed
<1>2. WeeklyTypeOK /\ RewardedUnlessFailed /\ [WeeklyNext]_weeklyVars => RewardedUnlessFailed'
  BY RewardStep
<1>. QED  BY <1>1, <1>2, WeeklyKeepsTheLease, PTL DEF WeeklySpec

=============================================================================
