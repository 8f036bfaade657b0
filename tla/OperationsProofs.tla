--------------------------- MODULE OperationsProofs ---------------------------
(***************************************************************************)
(* Theorems of RateLimiter, for every policy, of KeyedLock, for any finite *)
(* set of tasks and any keys and locks, and of AccessCache, for any        *)
(* callers, keys and times to live.  They have nothing in common but that  *)
(* each is one device a request passes.                                    *)
(*                                                                         *)
(* RateBound is inductive once what is left in the bucket is counted with  *)
(* what was granted (Conserved): a request takes from the one what it adds *)
(* to the other, and the key that Redis forgets held a full burst by then, *)
(* which is where KeyTtl * RefillUnits >= BurstUnits is needed.  For       *)
(* RetryIsHonoured the promise is kept for the moment it names             *)
(* (Promised), at which nothing but time has touched the bucket.           *)
(*                                                                         *)
(* One lock excludes; the point of OneHolderPerKey is that all the tasks   *)
(* that ask for a key ask for the same lock.  They do because the entry of *)
(* the key is that lock while anybody has asked (EntryStays), which rests  *)
(* on the count of users (UsersCounted): the entry is dropped by the last  *)
(* of them.  The order of the queue has no part in it.                     *)
(*                                                                         *)
(* For AnswersCurrent what counts is that a result is used at the time it  *)
(* was loaded: a task that is over stays in flight only while the caller   *)
(* that created it is ready to take it out (LoadsShared), and time does    *)
(* not pass meanwhile.  What is evicted, and when, has no part in it.      *)
(***************************************************************************)
EXTENDS WeeklyReportsProofs, MCOperations, SequenceTheorems

-----------------------------------------------------------------------------
(* Sequences without repetitions: one element out, one more at the end, or *)
(* the first one out.  They are the queues of locks and the order of the    *)
(* cache.                                                                   *)

LEMMA RemoveFirstOf ==
    ASSUME NEW S, NEW s \in Seq(S), IsInjective(s), NEW e
    PROVE  /\ RemoveFirst(s, e) \in Seq(S) /\ IsInjective(RemoveFirst(s, e))
           /\ ToSet(RemoveFirst(s, e)) = ToSet(s) \ {e}
           /\ Len(RemoveFirst(s, e)) = IF e \in ToSet(s) THEN Len(s) - 1 ELSE Len(s)
<1>. DEFINE N == Len(s)
            r == RemoveFirst(s, e)
<1>0. N \in Nat /\ DOMAIN s = 1..N /\ \A i \in 1..N : s[i] \in S
  OBVIOUS
<1>1. CASE e \notin ToSet(s)
  <2>1. RemoveFirst(s, e) = s
    BY <1>0, <1>1 DEF RemoveFirst, ToSet
  <2>. QED  BY <1>1, <2>1
<1>2. CASE e \in ToSet(s)
  <2>1. PICK i \in 1..N : s[i] = e
    BY <1>0, <1>2 DEF ToSet
  <2>2. \A j \in 1..N : s[j] = e => j = i
    BY <1>0, <2>1 DEF IsInjective
  <2>3. SelectInSeq(s, LAMBDA v : v = e) = i
    <3>1. {j \in 1..Len(s) : s[j] = e} = {i}
      BY <2>1, <2>2
    <3>2. Min({i}) = i
      BY <1>0, <2>1 DEF Min
    <3>. QED  BY <3>1, <3>2 DEF SelectInSeq
  <2>4. r = SubSeq(s, 1, i - 1) \o SubSeq(s, i + 1, N)
    BY <1>0, <2>1, <2>3 DEF RemoveFirst, RemoveAt
  <2>. HIDE DEF r
  <2>. DEFINE a == SubSeq(s, 1, i - 1)
              b == SubSeq(s, i + 1, N)
  <2>5. /\ a \in Seq(S) /\ Len(a) = i - 1 /\ \A j \in 1..(i - 1) : a[j] = s[j]
        /\ b \in Seq(S) /\ Len(b) = N - i /\ \A j \in 1..(N - i) : b[j] = s[i + j]
    <3>1. a \in Seq(S) /\ Len(a) = i - 1 /\ \A j \in 1..(i - 1) : a[j] = s[j]
      <4>1. 1 \in Int /\ i - 1 \in Int /\ \A j \in 1..(i - 1) : s[j] \in S
        BY <1>0, <2>1
      <4>2. /\ a \in Seq(S) /\ Len(a) = IF 1 <= i - 1 THEN i - 1 - 1 + 1 ELSE 0
            /\ \A j \in 1..(i - 1 - 1 + 1) : a[j] = s[1 + j - 1]
        BY <4>1, SubSeqProperties
      <4>. HIDE DEF a
      <4>3. i - 1 - 1 + 1 = i - 1 /\ \A j \in 1..(i - 1) : 1 + j - 1 = j
        BY <2>1
      <4>4. Len(a) = i - 1
        BY <2>1, <4>2
      <4>. QED  BY <4>2, <4>3, <4>4
    <3>2. b \in Seq(S) /\ Len(b) = N - i /\ \A j \in 1..(N - i) : b[j] = s[i + 1 + j - 1]
      <4>1. i + 1 \in Int /\ N \in Int /\ \A j \in (i + 1)..N : s[j] \in S
        BY <1>0, <2>1
      <4>2. /\ b \in Seq(S) /\ Len(b) = IF i + 1 <= N THEN N - (i + 1) + 1 ELSE 0
            /\ \A j \in 1..(N - (i + 1) + 1) : b[j] = s[i + 1 + j - 1]
        BY <4>1, SubSeqProperties
      <4>. HIDE DEF b, N
      <4>3. N - (i + 1) + 1 = N - i
        BY <1>0, <2>1
      <4>4. Len(b) = N - i
        BY <1>0, <2>1, <4>2
      <4>. QED  BY <4>2, <4>3, <4>4
    <3>3. \A j \in 1..(N - i) : i + 1 + j - 1 = i + j
      BY <1>0, <2>1
    <3>. QED  BY <3>1, <3>2, <3>3
  <2>. HIDE DEF a, b
  <2>6. r \in Seq(S) /\ Len(r) = N - 1 /\ DOMAIN r = 1..(N - 1)
    <3>1. r = a \o b
      BY <2>4 DEF a, b
    <3>2. a \o b \in Seq(S) /\ Len(a \o b) = Len(a) + Len(b)
      BY <2>5, ConcatProperties
    <3>3. Len(r) = N - 1
      BY <1>0, <2>1, <2>5, <3>1, <3>2
    <3>. QED  BY <3>1, <3>2, <3>3
  <2>7. \A j \in 1..(N - 1) : r[j] = IF j < i THEN s[j] ELSE s[j + 1]
    <3>. SUFFICES ASSUME NEW j \in 1..(N - 1) PROVE r[j] = IF j < i THEN s[j] ELSE s[j + 1]
      OBVIOUS
    <3>1. r = a \o b
      BY <2>4 DEF a, b
    <3>0. r[j] = IF j <= Len(a) THEN a[j] ELSE b[j - Len(a)]
      <4>1. \A k \in 1..(Len(a) + Len(b)) : (a \o b)[k] = IF k <= Len(a) THEN a[k] ELSE b[k - Len(a)]
        BY <2>5, ConcatProperties
      <4>2. j \in 1..(Len(a) + Len(b))
        BY <1>0, <2>1, <2>5
      <4>. QED  BY <3>1, <4>1, <4>2
    <3>2. CASE j < i
      BY <1>0, <2>1, <2>5, <3>0, <3>2
    <3>3. CASE j >= i
      <4>1. r[j] = b[j - (i - 1)] /\ j - (i - 1) \in 1..(N - i)
        <5>1. i \in Nat /\ N \in Nat /\ i >= 1 /\ i <= N /\ j \in Nat /\ j >= 1 /\ j <= N - 1
          BY <1>0, <2>1
        <5>2. ~(j <= Len(a)) /\ j - Len(a) = j - (i - 1)
          BY <2>5, <3>3, <5>1
        <5>3. j - (i - 1) \in 1..(N - i)
          BY <3>3, <5>1
        <5>. HIDE DEF N
        <5>. QED  BY <3>0, <5>2, <5>3
      <4>2. i + (j - (i - 1)) = j + 1
        BY <2>1
      <4>3. b[j - (i - 1)] = s[j + 1]
        BY <2>5, <4>1, <4>2
      <4>4. ~(j < i)
        BY <2>1, <3>3
      <4>. QED  BY <4>1, <4>3, <4>4
    <3>. QED  BY <1>0, <2>1, <3>2, <3>3
  <2>8. IsInjective(r)
    <3>. SUFFICES ASSUME NEW j \in 1..(N - 1), NEW k \in 1..(N - 1), r[j] = r[k] PROVE j = k
      BY <2>6 DEF IsInjective
    <3>1. \A m, n \in 1..N : s[m] = s[n] => m = n
      BY <1>0 DEF IsInjective
    <3>. QED  BY <1>0, <2>1, <2>7, <3>1
  <2>9. ToSet(r) = ToSet(s) \ {e}
    <3>1. ASSUME NEW x \in ToSet(r) PROVE x \in ToSet(s) \ {e}
      <4>1. PICK j \in 1..(N - 1) : r[j] = x
        BY <2>6, <3>1 DEF ToSet
      <4>2. PICK m \in 1..N : s[m] = x /\ m # i
        BY <1>0, <2>1, <2>7, <4>1
      <4>. QED  BY <1>0, <2>2, <4>2 DEF ToSet
    <3>2. ASSUME NEW x \in ToSet(s) \ {e} PROVE x \in ToSet(r)
      <4>1. PICK m \in 1..N : s[m] = x /\ m # i
        BY <1>0, <2>1, <3>2 DEF ToSet
      <4>2. CASE m < i
        <5>1. m \in 1..(N - 1) /\ r[m] = x
          BY <1>0, <2>1, <2>7, <4>1, <4>2
        <5>. QED  BY <2>6, <5>1 DEF ToSet
      <4>3. CASE m > i
        <5>1. m - 1 \in 1..(N - 1) /\ ~(m - 1 < i) /\ (m - 1) + 1 = m
          BY <1>0, <2>1, <4>1, <4>3
        <5>2. r[m - 1] = x
          BY <2>7, <4>1, <5>1
        <5>. QED  BY <2>6, <5>1, <5>2 DEF ToSet
      <4>. QED  BY <2>1, <4>1, <4>2, <4>3
    <3>. QED  BY <3>1, <3>2
  <2>. QED  BY <1>2, <2>6, <2>8, <2>9 DEF r
<1>. QED  BY <1>1, <1>2

LEMMA AppendTo ==
    ASSUME NEW S, NEW s \in Seq(S), IsInjective(s), NEW e \in S, e \notin ToSet(s)
    PROVE  /\ Append(s, e) \in Seq(S) /\ IsInjective(Append(s, e))
           /\ ToSet(Append(s, e)) = ToSet(s) \union {e} /\ Len(Append(s, e)) = Len(s) + 1
<1>. DEFINE N == Len(s)
            r == Append(s, e)
<1>1. /\ N \in Nat /\ DOMAIN s = 1..N /\ r \in Seq(S) /\ Len(r) = N + 1 /\ DOMAIN r = 1..(N + 1)
      /\ r[N + 1] = e /\ \A i \in 1..N : r[i] = s[i]
  OBVIOUS
<1>. HIDE DEF r, N
<1>2. \A i \in 1..N : s[i] # e
  BY <1>1 DEF ToSet
<1>3. IsInjective(r)
  BY <1>1, <1>2 DEF IsInjective
<1>4. ToSet(r) = ToSet(s) \union {e}
  BY <1>1 DEF ToSet
<1>. QED  BY <1>1, <1>3, <1>4 DEF r, N

LEMMA WithoutFirst ==
    ASSUME NEW S, NEW s \in Seq(S), IsInjective(s), s # << >>
    PROVE  /\ Tail(s) \in Seq(S) /\ IsInjective(Tail(s))
           /\ ToSet(Tail(s)) = ToSet(s) \ {Head(s)}
           /\ Len(Tail(s)) = Len(s) - 1 /\ SubSeq(s, 2, Len(s)) = Tail(s)
<1>. DEFINE N == Len(s)
            r == Tail(s)
<1>1. /\ N \in Nat \ {0} /\ DOMAIN s = 1..N /\ r \in Seq(S) /\ Len(r) = N - 1
      /\ DOMAIN r = 1..(N - 1)
      /\ \A i \in 1..(N - 1) : r[i] = s[i + 1]
      /\ Head(s) = s[1]
  OBVIOUS
<1>2. SubSeq(s, 2, N) = r
  BY TailIsSubSeq
<1>. HIDE DEF r, N
<1>3. IsInjective(r)
  <2>. SUFFICES ASSUME NEW i \in 1..(N - 1), NEW j \in 1..(N - 1), r[i] = r[j] PROVE i = j
    BY <1>1 DEF IsInjective
  <2>1. /\ i + 1 \in DOMAIN s /\ j + 1 \in DOMAIN s /\ i \in Nat /\ j \in Nat
        /\ s[i + 1] = s[j + 1]
    BY <1>1
  <2>2. i + 1 = j + 1
    BY <2>1 DEF IsInjective
  <2>. QED  BY <2>1, <2>2
<1>4. ToSet(r) = ToSet(s) \ {Head(s)}
  <2>0. \A i, j \in 1..N : s[i] = s[j] => i = j
    BY <1>1 DEF IsInjective
  <2>1. ASSUME NEW i \in 1..(N - 1) PROVE r[i] \in ToSet(s) \ {Head(s)}
    <3>1. i + 1 \in 1..N /\ i + 1 # 1 /\ 1 \in 1..N /\ r[i] = s[i + 1]
      BY <1>1
    <3>2. s[i + 1] # s[1]
      BY <2>0, <3>1
    <3>. QED  BY <1>1, <3>1, <3>2 DEF ToSet
  <2>2. ASSUME NEW i \in 1..N, s[i] # Head(s) PROVE s[i] \in ToSet(r)
    <3>1. i # 1
      BY <1>1, <2>2
    <3>2. i - 1 \in 1..(N - 1) /\ (i - 1) + 1 = i
      BY <1>1, <3>1
    <3>3. r[i - 1] = s[i]
      BY <1>1, <3>2
    <3>. QED  BY <1>1, <3>2, <3>3 DEF ToSet
  <2>3. ASSUME NEW x \in ToSet(r) PROVE x \in ToSet(s) \ {Head(s)}
    <3>1. PICK i \in 1..(N - 1) : r[i] = x
      BY <1>1, <2>3 DEF ToSet
    <3>. QED  BY <2>1, <3>1
  <2>4. ASSUME NEW x \in ToSet(s) \ {Head(s)} PROVE x \in ToSet(r)
    <3>1. PICK i \in 1..N : s[i] = x
      BY <1>1, <2>4 DEF ToSet
    <3>. QED  BY <2>2, <2>4, <3>1
  <2>. QED  BY <2>3, <2>4
<1>5. Len(r) = Len(s) - 1
  BY <1>1 DEF N
<1>. QED  BY <1>1, <1>2, <1>3, <1>4, <1>5 DEF r, N

-----------------------------------------------------------------------------
(* The limiter. *)

\* What was granted and what can be granted at once came with the burst or flowed in.
Conserved ==
    granted * TokenUnit + Available(clock) <= BurstUnits + (clock - since) * RefillUnits

\* The bucket of a request that was refused holds a token at the time it was given.
Promised ==
    retryAt # 0 /\ bucket =>
       /\ retryAt >= updatedAt
       /\ tokens + (retryAt - updatedAt) * RefillUnits >= TokenUnit

RateInv == RateTypeOK /\ Conserved /\ Promised

-----------------------------------------------------------------------------
(* Arithmetic. *)

\* More time lets no less flow in.
LEMMA FlowMonotonic ==
    ASSUME NEW a \in Nat, NEW b \in Nat, a <= b
    PROVE  /\ a * RefillUnits \in Nat /\ b * RefillUnits \in Nat
           /\ a * RefillUnits <= b * RefillUnits
BY RateAssumption

\* A tick lets RefillUnits flow in.
LEMMA FlowOfTick ==
    ASSUME NEW a \in Nat
    PROVE  (a + 1) * RefillUnits = a * RefillUnits + RefillUnits
BY RateAssumption

\* What is rounded up to whole ticks suffices.
LEMMA RoundedUp ==
    ASSUME NEW x \in Nat
    PROVE  /\ (x + RefillUnits - 1) \div RefillUnits \in Nat
           /\ ((x + RefillUnits - 1) \div RefillUnits) * RefillUnits >= x
<1>. DEFINE d == (x + RefillUnits - 1) \div RefillUnits
            r == (x + RefillUnits - 1) % RefillUnits
<1>1. x + RefillUnits - 1 \in Nat /\ RefillUnits \in Nat /\ RefillUnits > 0
  BY RateAssumption
<1>2. d \in Nat /\ r \in 0..(RefillUnits - 1)
  BY <1>1
<1>3. x + RefillUnits - 1 = RefillUnits * d + r
  BY <1>1
<1>4. RefillUnits * d = d * RefillUnits /\ RefillUnits * d \in Nat
  BY <1>1, <1>2
<1>. HIDE DEF d, r
<1>5. d * RefillUnits >= x
  BY <1>1, <1>2, <1>3, <1>4
<1>. QED  BY <1>2, <1>5 DEF d

LEMMA AvailableType ==
    ASSUME RateTypeOK, NEW at \in Nat, at >= updatedAt
    PROVE  Available(at) \in 0..BurstUnits
<1>1. (at - updatedAt) \in Nat /\ (at - updatedAt) * RefillUnits \in Nat
  BY RateAssumption DEF RateTypeOK
<1>. QED  BY <1>1, RateAssumption DEF Available, AtMost, RateTypeOK

-----------------------------------------------------------------------------
(* The inductive invariant. *)

LEMMA RateInvInit == RateInit => RateInv
<1>. SUFFICES ASSUME RateInit PROVE RateInv
  OBVIOUS
<1>1. RateTypeOK
  <2>1. 0 \in 0..BurstUnits
    BY RateAssumption
  <2>2. outcome \in Outcomes
    BY DEF RateInit, Outcomes
  <2>3. bucket \in BOOLEAN
    BY DEF RateInit
  <2>. QED  BY <2>1, <2>2, <2>3 DEF RateInit, RateTypeOK
<1>2. Conserved
  <2>1. Available(clock) = BurstUnits
    BY DEF RateInit, Available
  <2>2. (clock - since) * RefillUnits = 0 /\ granted * TokenUnit = 0
    BY RateAssumption DEF RateInit
  <2>. QED  BY <2>1, <2>2, RateAssumption DEF Conserved
<1>3. Promised
  BY DEF RateInit, Promised
<1>. QED  BY <1>1, <1>2, <1>3 DEF RateInv

\* What the script leaves in the bucket when it has run.
LEMMA ScriptStep ==
    ASSUME RateInv, Script
    PROVE  /\ tokens' \in 0..BurstUnits /\ granted' \in Nat /\ retryAt' \in Nat
           /\ Conserved' /\ Promised'
<1>. DEFINE have == Available(clock)
<1>. USE RateAssumption
<1>1. have \in 0..BurstUnits
  <2>1. RateTypeOK /\ clock \in Nat /\ clock >= updatedAt
    BY DEF RateInv, RateTypeOK
  <2>. QED  BY <2>1, AvailableType
<1>2. /\ granted * TokenUnit + have <= BurstUnits + (clock - since) * RefillUnits
      /\ granted * TokenUnit \in Nat /\ (clock - since) * RefillUnits \in Nat
      /\ (granted + 1) * TokenUnit = granted * TokenUnit + TokenUnit
  BY DEF RateInv, RateTypeOK, Conserved
<1>3. /\ bucket' = TRUE /\ updatedAt' = clock /\ clock' = clock /\ since' = since
      /\ clock \in Nat /\ granted \in Nat
  BY DEF Script, RateInv, RateTypeOK
<1>4. tokens' \in 0..BurstUnits => Available(clock)' = tokens'
  <2>. SUFFICES ASSUME tokens' \in 0..BurstUnits PROVE Available(clock)' = tokens'
    OBVIOUS
  <2>1. (clock' - updatedAt') * RefillUnits = 0
    BY <1>3
  <2>2. Available(clock)' = AtMost(tokens' + (clock' - updatedAt') * RefillUnits, BurstUnits)
    BY <1>3 DEF Available
  <2>3. tokens' \in Nat /\ tokens' <= BurstUnits
    BY RateAssumption
  <2>. QED  BY <2>1, <2>2, <2>3, RateAssumption DEF AtMost
<1>5. CASE Allow
  <2>. HIDE DEF have
  <2>1. have >= TokenUnit /\ tokens' = have - TokenUnit /\ granted' = granted + 1 /\ retryAt' = 0
    BY <1>5 DEF Allow, have
  <2>2. tokens' \in 0..BurstUnits
    BY <1>1, <2>1
  <2>3. Conserved'
    BY <1>1, <1>2, <1>3, <1>4, <2>1, <2>2 DEF Conserved
  <2>. QED  BY <1>3, <2>1, <2>2, <2>3 DEF Promised
<1>6. CASE Refuse
  <2>. HIDE DEF have
  <2>1. /\ have < TokenUnit /\ tokens' = have /\ granted' = granted
        /\ retryAt' = clock + (TokenUnit - have + RefillUnits - 1) \div RefillUnits
    BY <1>6 DEF Refuse, RetryAfter, have
  <2>. DEFINE wait == (TokenUnit - have + RefillUnits - 1) \div RefillUnits
  <2>2. TokenUnit - have \in Nat
    BY <1>1, <2>1
  <2>3. wait \in Nat /\ wait * RefillUnits >= TokenUnit - have
    BY <2>2, RoundedUp
  <2>4. retryAt' = clock + wait
    BY <2>1
  <2>. HIDE DEF wait
  <2>5. Conserved'
    BY <1>1, <1>2, <1>3, <1>4, <2>1 DEF Conserved
  <2>6. (retryAt - updatedAt)' = wait /\ wait * RefillUnits \in Nat
    <3>1. (retryAt - updatedAt)' = wait
      BY <1>3, <2>3, <2>4
    <3>2. wait * RefillUnits \in Nat
      BY <2>3
    <3>. QED  BY <3>1, <3>2
  <2>7. (tokens + (retryAt - updatedAt) * RefillUnits)' >= TokenUnit
    BY <1>1, <2>1, <2>3, <2>6
  <2>8. Promised'
    BY <1>3, <2>3, <2>4, <2>7 DEF Promised
  <2>. QED  BY <1>1, <1>3, <2>1, <2>3, <2>4, <2>5, <2>8
<1>. QED  BY <1>5, <1>6 DEF Script

\* By the time the key of a bucket is gone, it held a full burst again.
LEMMA ForgottenWasFull ==
    ASSUME RateTypeOK, bucket, clock >= updatedAt + KeyTtl
    PROVE  Available(clock) = BurstUnits
<1>. USE RateAssumption DEF RateTypeOK
<1>1. clock - updatedAt \in Nat /\ KeyTtl <= clock - updatedAt
  OBVIOUS
<1>2. KeyTtl * RefillUnits <= (clock - updatedAt) * RefillUnits
  BY <1>1, FlowMonotonic
<1>3. (clock - updatedAt) * RefillUnits \in Nat /\ KeyTtl * RefillUnits \in Nat
  BY <1>1, FlowMonotonic
<1>. QED  BY <1>2, <1>3 DEF Available, AtMost

LEMMA RateInvStep == RateInv /\ [RateNext]_rateVars => RateInv'
<1>. SUFFICES ASSUME RateInv, [RateNext]_rateVars PROVE RateInv'
  OBVIOUS
<1>. USE RateAssumption
<1>1. CASE RateTick
  <2>. USE <1>1 DEF RateTick
  <2>1. RateTypeOK'
    BY DEF RateInv, RateTypeOK
  <2>2. clock - updatedAt \in Nat /\ clock - since \in Nat
    BY DEF RateInv, RateTypeOK
  <2>3. /\ (clock - updatedAt)' = (clock - updatedAt) + 1
        /\ (clock - since)' = (clock - since) + 1
    BY DEF RateInv, RateTypeOK
  <2>4. /\ ((clock - updatedAt) * RefillUnits)' = (clock - updatedAt) * RefillUnits + RefillUnits
        /\ ((clock - since) * RefillUnits)' = (clock - since) * RefillUnits + RefillUnits
    BY <2>2, <2>3, FlowOfTick
  <2>5. Available(clock)' <= Available(clock) + RefillUnits
    <3>1. (clock - updatedAt) * RefillUnits \in Nat
      BY <2>2
    <3>. QED  BY <2>4, <3>1 DEF RateInv, RateTypeOK, Available, AtMost
  <2>6. Available(clock) \in Nat /\ Available(clock)' \in Nat
    BY <2>1, AvailableType DEF RateInv, RateTypeOK, Available, AtMost
  <2>7. Conserved'
    <3>1. granted * TokenUnit \in Nat /\ (clock - since) * RefillUnits \in Nat
      BY <2>2 DEF RateInv, RateTypeOK
    <3>. QED  BY <2>4, <2>5, <2>6, <3>1 DEF RateInv, Conserved
  <2>8. Promised'
    BY DEF RateInv, Promised
  <2>. QED  BY <2>1, <2>7, <2>8 DEF RateInv
<1>2. CASE Check \/ CheckUnanswered
  <2>1. Script
    BY <1>2 DEF Check, CheckUnanswered
  <2>2. outcome' \in Outcomes
    BY <1>2 DEF Check, CheckUnanswered, WithoutRedis, Outcomes
  <2>3. RateTypeOK'
    BY <2>1, <2>2, ScriptStep DEF RateInv, RateTypeOK, Script
  <2>. QED  BY <2>1, <2>3, ScriptStep DEF RateInv
<1>3. CASE CheckFails
  <2>1. outcome' \in Outcomes
    BY <1>3 DEF CheckFails, WithoutRedis, Outcomes
  <2>. QED  BY <1>3, <2>1 DEF CheckFails, RateInv, RateTypeOK, Conserved, Promised, Available
<1>4. CASE ExpireBucket
  <2>. USE <1>4 DEF ExpireBucket
  <2>1. RateTypeOK'
    BY DEF RateInv, RateTypeOK
  <2>2. Available(clock) = BurstUnits
    BY ForgottenWasFull DEF RateInv
  <2>3. Available(clock)' = BurstUnits
    BY DEF Available
  <2>4. Conserved'
    BY <2>2, <2>3 DEF RateInv, Conserved
  <2>5. Promised'
    BY DEF Promised
  <2>. QED  BY <2>1, <2>4, <2>5 DEF RateInv
<1>5. CASE Watch
  <2>. USE <1>5 DEF Watch
  <2>1. RateTypeOK'
    BY DEF RateInv, RateTypeOK
  <2>2. Available(clock)' = Available(clock) /\ Available(clock) \in 0..BurstUnits
    BY AvailableType DEF RateInv, RateTypeOK, Available
  <2>3. (granted * TokenUnit)' = 0 /\ ((clock - since) * RefillUnits)' = 0
    BY DEF RateInv, RateTypeOK
  <2>4. Conserved'
    BY <2>2, <2>3 DEF Conserved
  <2>5. Promised'
    BY DEF RateInv, Promised
  <2>. QED  BY <2>1, <2>4, <2>5 DEF RateInv
<1>6. CASE UNCHANGED rateVars
  BY <1>6 DEF rateVars, RateInv, RateTypeOK, Conserved, Promised, Available
<1>. QED  BY <1>1, <1>2, <1>3, <1>4, <1>5, <1>6 DEF RateNext

-----------------------------------------------------------------------------
(* Theorems. *)

\* The state of the limiter is always one of its states.
THEOREM RateTypes == RateSpec => []RateTypeOK
<1>1. RateInv => RateTypeOK
  BY DEF RateInv
<1>. QED  BY <1>1, RateInvInit, RateInvStep, PTL DEF RateSpec

\* A policy allows, over any stretch of time, a burst and what flows in meanwhile
\* (the script of rate_limits.py).
THEOREM RateIsBounded == RateSpec => []RateBound
<1>1. RateInv => RateBound
  <2>. SUFFICES ASSUME RateInv PROVE RateBound
    OBVIOUS
  <2>1. Available(clock) \in 0..BurstUnits
    BY AvailableType DEF RateInv, RateTypeOK
  <2>2. granted * TokenUnit \in Nat /\ (clock - since) * RefillUnits \in Nat
    BY RateAssumption DEF RateInv, RateTypeOK
  <2>. QED  BY <2>1, <2>2, RateAssumption DEF RateInv, Conserved, RateBound
<1>. QED  BY <1>1, RateInvInit, RateInvStep, PTL DEF RateSpec

\* Whoever comes again when Retry-After said, finds a token (rate_limits.py:29).
THEOREM RetryIsKept == RateSpec => []RetryIsHonoured
<1>1. RateInv => RetryIsHonoured
  <2>. SUFFICES ASSUME RateInv, retryAt # 0, clock >= retryAt
                PROVE  Available(clock) >= TokenUnit
    BY DEF RetryIsHonoured
  <2>. USE RateAssumption DEF RateInv, RateTypeOK
  <2>1. CASE ~bucket
    BY <2>1 DEF Available
  <2>2. CASE bucket
    <3>1. /\ retryAt - updatedAt \in Nat /\ clock - updatedAt \in Nat
          /\ retryAt - updatedAt <= clock - updatedAt
          /\ tokens + (retryAt - updatedAt) * RefillUnits >= TokenUnit
      BY <2>2 DEF Promised
    <3>2. /\ (retryAt - updatedAt) * RefillUnits <= (clock - updatedAt) * RefillUnits
          /\ (retryAt - updatedAt) * RefillUnits \in Nat
          /\ (clock - updatedAt) * RefillUnits \in Nat
      BY <3>1, FlowMonotonic
    <3>. QED  BY <2>2, <3>1, <3>2 DEF Available, AtMost
  <2>. QED  BY <2>1, <2>2
<1>. QED  BY <1>1, RateInvInit, RateInvStep, PTL DEF RateSpec

-----------------------------------------------------------------------------
(* The locks of a process. *)


Users(l) == {t \in Tasks : asked[t] = l}

KeyedTypes ==
    /\ entryOf \in [LockKeys -> Locks \union {NoLock}]
    /\ holder \in [Locks -> SUBSET Tasks]
    /\ users \in [Locks -> Nat]
    /\ asked \in [Tasks -> Locks \union {NoLock}]
    /\ wanted \in [Tasks -> LockKeys]

UsersCounted == \A l \in Locks : users[l] = Cardinality(Users(l))

\* Who has asked for a lock asked for that of the key.
EntryStays == \A t \in Tasks : asked[t] # NoLock => entryOf[wanted[t]] = asked[t]

\* A lock serves one key, and has one holder at most, who has asked for it.
LockExcludes ==
    /\ \A k, m \in LockKeys : entryOf[k] # NoLock /\ entryOf[k] = entryOf[m] => k = m
    /\ \A l \in Locks : \A t, o \in holder[l] : t = o
    /\ \A l \in Locks : \A t \in holder[l] : asked[t] = l

KeyedInv == KeyedTypes /\ UsersCounted /\ EntryStays /\ LockExcludes

-----------------------------------------------------------------------------

LEMMA UsersFinite ==
    ASSUME NEW l \in Locks
    PROVE  /\ IsFiniteSet(Users(l)) /\ Cardinality(Users(l)) \in Nat
           /\ IsFiniteSet(Users(l)') /\ Cardinality(Users(l)') \in Nat
<1>1. Users(l) \subseteq Tasks /\ Users(l)' \subseteq Tasks
  BY DEF Users
<1>. QED  BY <1>1, KeyedLockAssumption, FS_Subset, FS_CardinalityType

\* The only user of a lock is the one who finds the count at one.
LEMMA OnlyUser ==
    ASSUME KeyedInv, NEW l \in Locks, users[l] = 1, NEW t \in Users(l), NEW o \in Users(l)
    PROVE  t = o
<1>1. Cardinality(Users(l)) = 1
  BY DEF KeyedInv, UsersCounted
<1>2. Cardinality(Users(l) \ {t}) = 0 /\ IsFiniteSet(Users(l) \ {t})
  BY <1>1, UsersFinite, FS_RemoveElement
<1>3. Users(l) \ {t} = {}
  BY <1>2, FS_EmptySet
<1>. QED  BY <1>3

LEMMA KeyedInvInit == KeyedInit => KeyedInv
<1>. SUFFICES ASSUME KeyedInit PROVE KeyedInv
  OBVIOUS
<1>1. KeyedTypes
  BY DEF KeyedInit, KeyedTypes
<1>2. UsersCounted
  <2>. SUFFICES ASSUME NEW l \in Locks PROVE users[l] = Cardinality(Users(l))
    BY DEF UsersCounted
  <2>1. Users(l) = {}
    BY KeyedLockAssumption DEF KeyedInit, Users
  <2>. QED  BY <2>1, FS_EmptySet DEF KeyedInit
<1>3. EntryStays /\ LockExcludes
  BY DEF KeyedInit, EntryStays, LockExcludes
<1>. QED  BY <1>1, <1>2, <1>3 DEF KeyedInv

LEMMA HoldStep ==
    ASSUME KeyedInv, NEW t \in Tasks, NEW k \in LockKeys, NEW l \in Locks, Hold(t, k, l)
    PROVE  KeyedInv'
<1>. USE KeyedLockAssumption DEF KeyedInv, KeyedTypes
<1>1. /\ asked[t] = NoLock
      /\ entryOf' = [entryOf EXCEPT ![k] = l]
      /\ users' = [users EXCEPT ![l] = @ + 1]
      /\ asked' = [asked EXCEPT ![t] = l]
      /\ wanted' = [wanted EXCEPT ![t] = k]
      /\ UNCHANGED holder \/ (holder[l] = {} /\ holder' = [holder EXCEPT ![l] = {t}])
  <2>1. UNCHANGED holder \/ (holder[l] = {} /\ holder' = [holder EXCEPT ![l] = {t}])
    <3>1. CASE holder[l] = {} /\ queue[l] = << >>
      BY <3>1, Zenon DEF Hold
    <3>2. CASE ~(holder[l] = {} /\ queue[l] = << >>)
      BY <3>2, Zenon DEF Hold
    <3>. QED  BY <3>1, <3>2
  <2>. QED  BY <2>1 DEF Hold
<1>2. \/ entryOf[k] = NoLock /\ Unused(l)
      \/ entryOf[k] = l
  BY DEF Hold, LockFor
<1>3. KeyedTypes'
  BY <1>1
<1>4. UsersCounted'
  <2>. SUFFICES ASSUME NEW m \in Locks PROVE users'[m] = Cardinality(Users(m)')
    BY DEF UsersCounted
  <2>1. CASE m = l
    <3>1. t \notin Users(l) /\ Users(l)' = Users(l) \union {t}
      BY <1>1 DEF Users
    <3>2. Cardinality(Users(l)') = Cardinality(Users(l)) + 1
      BY <3>1, UsersFinite, FS_AddElement
    <3>. QED  BY <1>1, <2>1, <3>2 DEF UsersCounted
  <2>2. CASE m # l
    <3>1. Users(m)' = Users(m)
      BY <1>1, <2>2 DEF Users
    <3>. QED  BY <1>1, <2>2, <3>1 DEF UsersCounted
  <2>. QED  BY <2>1, <2>2
<1>5. EntryStays'
  BY <1>1, <1>2 DEF EntryStays
<1>6. LockExcludes'
  <2>1. \A j, m \in LockKeys : entryOf'[j] # NoLock /\ entryOf'[j] = entryOf'[m] => j = m
    BY <1>1, <1>2 DEF LockExcludes, Unused
  <2>2. \A m \in Locks : \A u, o \in holder'[m] : u = o
    BY <1>1 DEF LockExcludes
  <2>3. \A m \in Locks : \A u \in holder'[m] : asked'[u] = m
    BY <1>1 DEF LockExcludes
  <2>. QED  BY <2>1, <2>2, <2>3 DEF LockExcludes
<1>. QED  BY <1>3, <1>4, <1>5, <1>6

LEMMA ResumeStep ==
    ASSUME KeyedInv, NEW t \in Tasks, Resume(t)
    PROVE  KeyedInv'
<1>. USE KeyedLockAssumption DEF KeyedInv, KeyedTypes, Resume, Queued
<1>1. asked[t] \in Locks
  OBVIOUS
<1>2. KeyedTypes' /\ EntryStays'
  BY <1>1 DEF EntryStays
<1>3. UsersCounted'
  BY DEF UsersCounted, Users
<1>4. LockExcludes'
  BY <1>1 DEF LockExcludes
<1>. QED  BY <1>2, <1>3, <1>4

\* A task that has gone, from inside or from the queue, leaves no entry of a lock
\* that others use behind it undone.
LEMMA GoneStep ==
    ASSUME KeyedInv, NEW t \in Tasks, NEW l \in Locks, asked[t] = l, NEW inside,
           Forget(t, l, inside),
           asked' = [asked EXCEPT ![t] = NoLock], UNCHANGED wanted,
           \/ holder' = [holder EXCEPT ![l] = {}]
           \/ UNCHANGED holder /\ t \notin holder[l]
    PROVE  KeyedInv'
<1>. USE KeyedLockAssumption DEF KeyedInv, KeyedTypes
<1>1. t \in Users(l)
  BY DEF Users
<1>2. users[l] \in Nat /\ users[l] >= 1 /\ users' = [users EXCEPT ![l] = users[l] - 1]
  <2>1. Cardinality(Users(l)) # 0
    BY <1>1, UsersFinite, FS_EmptySet
  <2>2. users[l] \in Nat /\ users[l] # 0
    BY <1>1, <2>1 DEF UsersCounted
  <2>. QED  BY <2>2 DEF Forget
<1>3. KeyedTypes'
  <2>1. users[l] - 1 \in Nat
    BY <1>2
  <2>2. wanted[t] \in LockKeys
    OBVIOUS
  <2>. QED  BY <1>1, <1>2, <2>1, <2>2 DEF Forget
<1>4. UsersCounted'
  <2>. SUFFICES ASSUME NEW m \in Locks PROVE users'[m] = Cardinality(Users(m)')
    BY DEF UsersCounted
  <2>1. CASE m = l
    <3>1. Users(l)' = Users(l) \ {t}
      BY <1>1 DEF Users
    <3>2. Cardinality(Users(l)') = Cardinality(Users(l)) - 1
      BY <1>1, <3>1, UsersFinite, FS_RemoveElement
    <3>. QED  BY <1>1, <1>2, <2>1, <3>2 DEF UsersCounted
  <2>2. CASE m # l
    <3>1. Users(m)' = Users(m)
      BY <2>2 DEF Users
    <3>. QED  BY <1>2, <2>2, <3>1 DEF UsersCounted
  <2>. QED  BY <2>1, <2>2
<1>5. \/ entryOf' = entryOf
      \/ users[l] = 1 /\ entryOf' = [entryOf EXCEPT ![wanted[t]] = NoLock]
  BY DEF Forget
<1>6. EntryStays'
  <2>. SUFFICES ASSUME NEW o \in Tasks, asked'[o] # NoLock
                PROVE  entryOf'[wanted'[o]] = asked'[o]
    BY DEF EntryStays
  <2>1. o # t /\ asked'[o] = asked[o] /\ entryOf[wanted[o]] = asked[o]
    BY DEF EntryStays
  <2>2. CASE entryOf' = entryOf
    BY <2>1, <2>2
  <2>3. CASE users[l] = 1 /\ entryOf' = [entryOf EXCEPT ![wanted[t]] = NoLock]
    <3>1. wanted[o] # wanted[t]
      <4>1. SUFFICES ASSUME wanted[o] = wanted[t] PROVE FALSE
        OBVIOUS
      <4>2. asked[o] = l
        BY <2>1, <4>1 DEF EntryStays
      <4>3. o \in Users(l)
        BY <4>2 DEF Users
      <4>. QED  BY <1>1, <2>1, <2>3, <4>3, OnlyUser
    <3>. QED  BY <2>1, <2>3, <3>1
  <2>. QED  BY <1>5, <2>2, <2>3
<1>7. LockExcludes'
  <2>1. \A j, m \in LockKeys : entryOf'[j] # NoLock /\ entryOf'[j] = entryOf'[m] => j = m
    BY <1>5 DEF LockExcludes
  <2>2. \A m \in Locks : holder'[m] \subseteq holder[m]
    BY <1>1
  <2>3. \A m \in Locks : \A u \in holder'[m] : u # t
    BY <1>1, <2>2 DEF LockExcludes
  <2>. QED  BY <2>1, <2>2, <2>3 DEF LockExcludes
<1>. QED  BY <1>3, <1>4, <1>6, <1>7

LEMMA KeyedInvStep == KeyedInv /\ [KeyedNext]_keyedVars => KeyedInv'
<1>. SUFFICES ASSUME KeyedInv, [KeyedNext]_keyedVars PROVE KeyedInv'
  OBVIOUS
<1>1. ASSUME NEW t \in Tasks, LeaveLock(t) PROVE KeyedInv'
  <2>1. asked[t] \in Locks
    BY <1>1 DEF LeaveLock, Inside, KeyedInv, KeyedTypes
  <2>. QED  BY <1>1, <2>1, GoneStep DEF LeaveLock
<1>2. ASSUME NEW t \in Tasks, CancelWait(t) PROVE KeyedInv'
  <2>1. asked[t] \in Locks /\ t \notin holder[asked[t]]
    BY <1>2 DEF CancelWait, Queued, KeyedInv, KeyedTypes
  <2>. QED  BY <1>2, <2>1, GoneStep DEF CancelWait
<1>3. CASE UNCHANGED keyedVars
  BY <1>3 DEF keyedVars, KeyedInv, KeyedTypes, UsersCounted, Users, EntryStays, LockExcludes
<1>. QED  BY <1>1, <1>2, <1>3, HoldStep, ResumeStep DEF KeyedNext

-----------------------------------------------------------------------------

\* No two tasks are inside for one key, although its lock comes and goes
\* (keyed_lock.py:36).
THEOREM OneTaskPerKey == KeyedSpec => []OneHolderPerKey
<1>1. KeyedInv => OneHolderPerKey
  <2>. SUFFICES ASSUME KeyedInv, NEW t \in Tasks, NEW o \in Tasks,
                       Inside(t), Inside(o), wanted[t] = wanted[o]
                PROVE  t = o
    BY DEF OneHolderPerKey
  <2>1. asked[t] = asked[o] /\ asked[t] \in Locks
    BY DEF KeyedInv, KeyedTypes, EntryStays, Inside
  <2>. QED  BY <2>1 DEF KeyedInv, LockExcludes, Inside
<1>. QED  BY <1>1, KeyedInvInit, KeyedInvStep, PTL DEF KeyedSpec

\* Who has asked for a lock and is not inside waits in its queue, once.
QueueOfLock ==
    /\ queue \in [Locks -> Seq(Tasks)]
    /\ \A l \in Locks :
          /\ IsInjective(queue[l])
          /\ ToSet(queue[l]) = {t \in Tasks : asked[t] = l /\ t \notin holder[l]}

KeyedTyped == KeyedInv /\ QueueOfLock

LEMMA KeyedTypedInit == KeyedInit => KeyedTyped
<1>. SUFFICES ASSUME KeyedInit PROVE QueueOfLock
  BY KeyedInvInit DEF KeyedTyped
<1>1. << >> \in Seq(Tasks) /\ IsInjective(<< >>) /\ ToSet(<< >>) = {}
  BY DEF IsInjective, ToSet
<1>. QED  BY <1>1, KeyedLockAssumption DEF KeyedInit, QueueOfLock

LEMMA HoldQueues ==
    ASSUME KeyedTyped, NEW t \in Tasks, NEW k \in LockKeys, NEW l \in Locks, Hold(t, k, l)
    PROVE  QueueOfLock'
<1>. USE KeyedLockAssumption
<1>1. /\ asked[t] = NoLock /\ asked' = [asked EXCEPT ![t] = l]
      /\ \/ holder[l] = {} /\ queue[l] = << >> /\ holder' = [holder EXCEPT ![l] = {t}]
            /\ UNCHANGED queue
         \/ queue' = [queue EXCEPT ![l] = Append(@, t)] /\ UNCHANGED holder
  <2>1. CASE holder[l] = {} /\ queue[l] = << >>
    BY <2>1, Zenon DEF Hold
  <2>2. CASE ~(holder[l] = {} /\ queue[l] = << >>)
    BY <2>2, Zenon DEF Hold
  <2>. QED  BY <2>1, <2>2
<1>2. /\ asked \in [Tasks -> Locks \union {NoLock}] /\ holder \in [Locks -> SUBSET Tasks]
      /\ \A m \in Locks : \A u \in holder[m] : asked[u] = m
      /\ queue \in [Locks -> Seq(Tasks)]
      /\ \A m \in Locks : IsInjective(queue[m])
      /\ \A m \in Locks : ToSet(queue[m]) = {u \in Tasks : asked[u] = m /\ u \notin holder[m]}
  BY DEF KeyedTyped, KeyedInv, KeyedTypes, LockExcludes, QueueOfLock
<1>3. t \notin ToSet(queue[l]) /\ \A m \in Locks : t \notin holder[m]
  BY <1>1, <1>2
<1>4. CASE holder[l] = {} /\ queue[l] = << >> /\ holder' = [holder EXCEPT ![l] = {t}]
           /\ UNCHANGED queue
  <2>1. \A m \in Locks : ToSet(queue[m]) = {u \in Tasks : asked'[u] = m /\ u \notin holder'[m]}
    BY <1>1, <1>2, <1>3, <1>4
  <2>. QED  BY <1>2, <1>4, <2>1 DEF QueueOfLock
<1>5. CASE queue' = [queue EXCEPT ![l] = Append(@, t)] /\ UNCHANGED holder
  <2>1. /\ Append(queue[l], t) \in Seq(Tasks) /\ IsInjective(Append(queue[l], t))
        /\ ToSet(Append(queue[l], t)) = ToSet(queue[l]) \union {t}
    BY <1>2, <1>3, AppendTo
  <2>2. queue'[l] = Append(queue[l], t) /\ \A m \in Locks \ {l} : queue'[m] = queue[m]
    BY <1>2, <1>5
  <2>3. queue' \in [Locks -> Seq(Tasks)]
    BY <1>2, <1>5, <2>1
  <2>4. ASSUME NEW m \in Locks
        PROVE  /\ IsInjective(queue'[m])
               /\ ToSet(queue'[m]) = {u \in Tasks : asked'[u] = m /\ u \notin holder'[m]}
    <3>1. CASE m = l
      <4>1. {u \in Tasks : asked'[u] = l /\ u \notin holder'[l]} = ToSet(queue[l]) \union {t}
        BY <1>1, <1>2, <1>3, <1>5
      <4>. QED  BY <2>1, <2>2, <3>1, <4>1
    <3>2. CASE m # l
      <4>1. {u \in Tasks : asked'[u] = m /\ u \notin holder'[m]} = ToSet(queue[m])
        BY <1>1, <1>2, <1>5, <3>2
      <4>. QED  BY <1>2, <2>2, <3>2, <4>1
    <3>. QED  BY <3>1, <3>2
  <2>. QED  BY <2>3, <2>4 DEF QueueOfLock
<1>. QED  BY <1>1, <1>4, <1>5

\* A step of one task that shortens the queue of its lock by that task, or leaves it.
LEMMA QueueShrinks ==
    ASSUME KeyedTyped, NEW t \in Tasks, NEW l \in Locks, asked[t] = l, NEW shorter \in Seq(Tasks),
           queue' = [queue EXCEPT ![l] = shorter],
           IsInjective(shorter), ToSet(shorter) = ToSet(queue[l]) \ {t},
           \/ asked' = [asked EXCEPT ![t] = NoLock]
                /\ (holder' = holder \/ (t \in holder[l] /\ holder' = [holder EXCEPT ![l] = {}]))
           \/ asked' = asked /\ holder[l] = {} /\ holder' = [holder EXCEPT ![l] = {t}]
    PROVE  QueueOfLock'
<1>. USE KeyedLockAssumption
<1>2. /\ asked \in [Tasks -> Locks \union {NoLock}] /\ holder \in [Locks -> SUBSET Tasks]
      /\ \A m \in Locks : \A u \in holder[m] : asked[u] = m
      /\ \A m \in Locks : \A u, o \in holder[m] : u = o
      /\ queue \in [Locks -> Seq(Tasks)]
      /\ \A m \in Locks : IsInjective(queue[m])
      /\ \A m \in Locks : ToSet(queue[m]) = {u \in Tasks : asked[u] = m /\ u \notin holder[m]}
  BY DEF KeyedTyped, KeyedInv, KeyedTypes, LockExcludes, QueueOfLock
<1>3. queue' \in [Locks -> Seq(Tasks)]
  BY <1>2
<1>4. queue'[l] = shorter /\ \A m \in Locks \ {l} : queue'[m] = queue[m]
  BY <1>2
<1>5. {u \in Tasks : asked'[u] = l /\ u \notin holder'[l]} = ToSet(queue[l]) \ {t}
  <2>1. CASE asked' = [asked EXCEPT ![t] = NoLock] /\ holder' = holder
    BY <1>2, <2>1
  <2>2. CASE asked' = [asked EXCEPT ![t] = NoLock] /\ t \in holder[l]
             /\ holder' = [holder EXCEPT ![l] = {}]
    <3>1. \A u \in Tasks : asked'[u] = l /\ u \notin holder'[l] <=> asked[u] = l /\ u # t
      BY <1>2, <2>2
    <3>2. \A u \in Tasks : u \in holder[l] <=> u = t
      BY <1>2, <2>2
    <3>. QED  BY <1>2, <3>1, <3>2
  <2>3. CASE asked' = asked /\ holder[l] = {} /\ holder' = [holder EXCEPT ![l] = {t}]
    BY <1>2, <2>3
  <2>. QED  BY <2>1, <2>2, <2>3
<1>6. \A m \in Locks \ {l} :
         {u \in Tasks : asked'[u] = m /\ u \notin holder'[m]} = ToSet(queue[m])
  BY <1>2
<1>. QED  BY <1>2, <1>3, <1>4, <1>5, <1>6 DEF QueueOfLock

LEMMA KeyedTypedStep == KeyedTyped /\ [KeyedNext]_keyedVars => KeyedTyped'
<1>. SUFFICES ASSUME KeyedTyped, [KeyedNext]_keyedVars PROVE QueueOfLock'
  BY KeyedInvStep DEF KeyedTyped
<1>1. /\ asked \in [Tasks -> Locks \union {NoLock}] /\ holder \in [Locks -> SUBSET Tasks]
      /\ queue \in [Locks -> Seq(Tasks)]
      /\ \A m \in Locks : IsInjective(queue[m])
      /\ \A m \in Locks : ToSet(queue[m]) = {u \in Tasks : asked[u] = m /\ u \notin holder[m]}
  BY DEF KeyedTyped, KeyedInv, KeyedTypes, QueueOfLock
<1>2. ASSUME NEW t \in Tasks, Resume(t) PROVE QueueOfLock'
  <2>. DEFINE l == asked[t]
  <2>1. /\ l \in Locks /\ t \notin holder[l] /\ Head(queue[l]) = t /\ holder[l] = {}
        /\ holder' = [holder EXCEPT ![l] = {t}] /\ queue' = [queue EXCEPT ![l] = Tail(@)]
        /\ UNCHANGED asked
    BY <1>1, <1>2 DEF Resume, Queued
  <2>2. t \in ToSet(queue[l]) /\ queue[l] \in Seq(Tasks) /\ IsInjective(queue[l])
    BY <1>1, <2>1
  <2>3. queue[l] # << >>
    BY <2>2 DEF ToSet
  <2>4. /\ Tail(queue[l]) \in Seq(Tasks) /\ IsInjective(Tail(queue[l]))
        /\ ToSet(Tail(queue[l])) = ToSet(queue[l]) \ {t}
    BY <2>1, <2>2, <2>3, WithoutFirst
  <2>5. queue' = [queue EXCEPT ![l] = Tail(queue[l])]
    BY <2>1
  <2>. HIDE DEF l
  <2>. QED  BY <2>1, <2>4, <2>5, QueueShrinks DEF l
<1>3. ASSUME NEW t \in Tasks, LeaveLock(t) PROVE QueueOfLock'
  <2>1. /\ asked[t] \in Locks /\ t \in holder[asked[t]]
        /\ holder' = [holder EXCEPT ![asked[t]] = {}]
        /\ asked' = [asked EXCEPT ![t] = NoLock] /\ UNCHANGED queue
    BY <1>1, <1>3 DEF LeaveLock, Inside
  <2>2. t \notin ToSet(queue[asked[t]])
    BY <1>1, <2>1
  <2>3. queue' = [queue EXCEPT ![asked[t]] = queue[asked[t]]]
    BY <1>1, <2>1
  <2>4. ToSet(queue[asked[t]]) = ToSet(queue[asked[t]]) \ {t}
    BY <2>2
  <2>. QED  BY <1>1, <2>1, <2>3, <2>4, QueueShrinks
<1>4. ASSUME NEW t \in Tasks, CancelWait(t) PROVE QueueOfLock'
  <2>1. /\ asked[t] \in Locks /\ asked' = [asked EXCEPT ![t] = NoLock] /\ UNCHANGED holder
        /\ queue' = [queue EXCEPT ![asked[t]] = RemoveFirst(@, t)]
    BY <1>1, <1>4 DEF CancelWait, Queued
  <2>2. /\ RemoveFirst(queue[asked[t]], t) \in Seq(Tasks)
        /\ IsInjective(RemoveFirst(queue[asked[t]], t))
        /\ ToSet(RemoveFirst(queue[asked[t]], t)) = ToSet(queue[asked[t]]) \ {t}
    BY <1>1, <2>1, RemoveFirstOf
  <2>3. queue' = [queue EXCEPT ![asked[t]] = RemoveFirst(queue[asked[t]], t)]
    BY <2>1
  <2>. QED  BY <2>1, <2>2, <2>3, QueueShrinks
<1>5. CASE UNCHANGED keyedVars
  BY <1>5 DEF keyedVars, KeyedTyped, QueueOfLock
<1>. QED  BY <1>2, <1>3, <1>4, <1>5, HoldQueues DEF KeyedNext

\* Each lock counts those who have asked for it, and queues each of them once
\* (keyed_lock.py:36).
THEOREM LocksAreTyped == KeyedSpec => []KeyedTypeOK
<1>1. KeyedTyped => KeyedTypeOK
  BY DEF KeyedTyped, KeyedInv, KeyedTypes, UsersCounted, Users, QueueOfLock, KeyedTypeOK
<1>. QED  BY <1>1, KeyedTypedInit, KeyedTypedStep, PTL DEF KeyedSpec

-----------------------------------------------------------------------------
(* The cache. *)

CacheTypes ==
    /\ time \in CacheTimes
    /\ entries \in [CacheKeys -> Entry]
    /\ inflight \in [CacheKeys -> Task]
    /\ call \in [Callers -> Call]

\* Who has created the task in flight still waits for it, or for its turn.
LoadsShared ==
    /\ \A c \in Callers : Asked(c) # NoKey /\ call[c].created =>
          /\ inflight[Asked(c)].state # "none"
          /\ Waiting(c) <=> inflight[Asked(c)].state = "running"
    /\ \A c, d \in Callers : c # d /\ Asked(c) # NoKey /\ Asked(c) = Asked(d) =>
          ~(call[c].created /\ call[d].created)
    /\ \A k \in CacheKeys : inflight[k].state # "none" =>
          \E c \in Callers : Asked(c) = k /\ call[c].created
    /\ \A c \in Callers : Waiting(c) => inflight[Asked(c)].state = "running"

\* A result is that of a load that ended now.
ResultsCurrent ==
    /\ \A k \in CacheKeys : /\ inflight[k].state # "cancelled"
                            /\ inflight[k].state = "done" => inflight[k].at = time
    /\ \A c \in Callers : Ready(c) => /\ call[c].result.state # "cancelled"
                                      /\ call[c].result.state = "done" => call[c].result.at = time

AgesKnown ==
    /\ \A k \in CacheKeys : entries[k].kept => entries[k].at <= time
    /\ \A c \in Callers : Asked(c) # NoKey =>
          /\ call[c].asked <= time
          /\ call[c].stale # NoTime => call[c].asked <= call[c].stale + Longest + StaleFor

CacheInv ==
    /\ CacheTypes /\ AgesKnown /\ cancels \in Nat
    /\ cancels = 0 => LoadsShared /\ ResultsCurrent /\ AnswersCurrent

LEMMA MaxOfTwo ==
    ASSUME NEW a \in Nat, NEW b \in Nat
    PROVE  Max({a, b}) \in {a, b} /\ Max({a, b}) >= a /\ Max({a, b}) >= b
<1>1. \E x \in {a, b} : \A y \in {a, b} : x >= y
  OBVIOUS
<1>. QED  BY <1>1 DEF Max

LEMMA LongestIsLongest == Longest \in Nat /\ \A value \in BOOLEAN : FreshFor[value] <= Longest
<1>1. FreshFor[TRUE] \in Nat /\ FreshFor[FALSE] \in Nat
  BY CacheAssumption
<1>2. {FreshFor[value] : value \in BOOLEAN} = {FreshFor[TRUE], FreshFor[FALSE]}
  OBVIOUS
<1>3. Longest \in {FreshFor[TRUE], FreshFor[FALSE]}
      /\ Longest >= FreshFor[TRUE] /\ Longest >= FreshFor[FALSE]
  BY <1>1, <1>2, MaxOfTwo DEF Longest
<1>. QED  BY <1>1, <1>3

\* A task that has just begun, or ended without a value.
LEMMA TaskWithoutValue ==
    ASSUME NEW state \in {"none", "running", "failed", "cancelled"}
    PROVE  [NoTask EXCEPT !.state = state] \in Task /\ [NoTask EXCEPT !.state = state].state = state
<1>1. 0 \in CacheTimes
  BY CacheAssumption DEF CacheTimes
<1>2. NoTask \in [state : {"none"}, value : BOOLEAN, at : CacheTimes]
  BY <1>1 DEF NoTask
<1>. QED  BY <1>2 DEF Task

LEMMA CacheInvInit == CacheInit => CacheInv
<1>. SUFFICES ASSUME CacheInit PROVE CacheInv
  OBVIOUS
<1>1. CacheTypes
  BY CacheAssumption DEF CacheInit, CacheTypes, CacheTimes, Entry, NoEntry, Task, NoTask, Call, NoCall
<1>2. /\ \A c \in Callers : Asked(c) = NoKey
      /\ \A k \in CacheKeys : inflight[k].state = "none" /\ ~entries[k].kept
      /\ cancels = 0 /\ answer.how = "none"
  BY DEF CacheInit, Asked, NoCall, NoTask, NoEntry, NoAnswer
<1>3. LoadsShared /\ ResultsCurrent
  BY <1>2 DEF LoadsShared, ResultsCurrent, Waiting, Ready
<1>4. AgesKnown /\ AnswersCurrent
  BY <1>2 DEF AgesKnown, AnswersCurrent
<1>. QED  BY <1>1, <1>2, <1>3, <1>4 DEF CacheInv

\* The answer to a question, from a value that was true at a known time.
LEMMA AnsweredWithin ==
    ASSUME NEW how, NEW from \in Nat, NEW at \in Nat, Answered(how, from, at),
           how = "fresh" => from <= at + Longest,
           how = "stale" => from <= at + Longest + StaleFor
    PROVE  AnswersCurrent'
<1>1. answer'.how = how /\ answer'.age = IF at < from THEN from - at ELSE 0
  BY DEF Answered
<1>2. Longest \in Nat /\ StaleFor \in Nat
  BY LongestIsLongest, CacheAssumption
<1>3. /\ how = "fresh" => answer'.age <= Longest
      /\ how = "stale" => answer'.age <= Longest + StaleFor
  BY <1>1, <1>2
<1>. QED  BY <1>1, <1>3 DEF AnswersCurrent, Longest

LEMMA FreshAndStale ==
    ASSUME CacheTypes, NEW k \in CacheKeys
    PROVE  /\ entries[k].at \in Nat /\ time \in Nat
           /\ Fresh(k) => time <= entries[k].at + Longest
           /\ Stale(k) => entries[k].kept /\ time <= entries[k].at + Longest + StaleFor
<1>1. entries[k].at \in Nat /\ time \in Nat /\ entries[k].value \in BOOLEAN
  BY CacheAssumption DEF CacheTypes, CacheTimes, Entry
<1>2. FreshFor[entries[k].value] \in Nat /\ FreshFor[entries[k].value] <= Longest
      /\ Longest \in Nat /\ StaleFor \in Nat
  BY <1>1, LongestIsLongest, CacheAssumption
<1>. QED  BY <1>1, <1>2 DEF Fresh, Stale, FreshUntil, StaleUntil

\* A caller goes on, and takes the task out of flight if it has created it.
LEMMA CallEnds ==
    ASSUME CacheInv, NEW c \in Callers, Ready(c), cancels = 0,
           inflight' = Remain(c), call' = [call EXCEPT ![c] = NoCall], time' = time
    PROVE  LoadsShared' /\ ResultsCurrent'
<1>. DEFINE k == Asked(c)
<1>1. /\ k \in CacheKeys /\ k # NoKey
  BY DEF CacheInv, CacheTypes, Call, Ready, Asked
<1>2. /\ call'[c] = NoCall /\ NoCall.key = NoKey
      /\ \A d \in Callers \ {c} : call'[d] = call[d]
  BY DEF CacheInv, CacheTypes, NoCall
<1>3. \A j \in CacheKeys : inflight'[j] = IF j = k /\ call[c].created THEN NoTask ELSE inflight[j]
  BY <1>1 DEF Remain, CacheInv, CacheTypes
<1>4. /\ \A d \in Callers : Asked(d)' = IF d = c THEN NoKey ELSE Asked(d)
      /\ \A d \in Callers \ {c} : Waiting(d)' = Waiting(d) /\ Ready(d)' = Ready(d)
      /\ ~Waiting(c)' /\ ~Ready(c)'
  BY <1>2 DEF Asked, Waiting, Ready
<1>5. LoadsShared /\ ResultsCurrent
  BY DEF CacheInv
<1>6. call[c].created => inflight[k].state # "running"
  BY <1>1, <1>5 DEF LoadsShared, Waiting, Ready
<1>7. ASSUME NEW d \in Callers \ {c}, Asked(d) # NoKey, call[d].created \/ Waiting(d)
      PROVE  Asked(d) \in CacheKeys /\ inflight'[Asked(d)] = inflight[Asked(d)]
  <2>1. Asked(d) \in CacheKeys
    BY <1>7 DEF CacheInv, CacheTypes, Call, Asked
  <2>2. Asked(d) # k \/ ~call[c].created
    BY <1>1, <1>5, <1>6, <1>7 DEF LoadsShared
  <2>. QED  BY <1>3, <2>1, <2>2
<1>8. \A d \in Callers : Asked(d)' # NoKey /\ call'[d].created =>
         /\ inflight'[Asked(d)'].state # "none"
         /\ Waiting(d)' <=> inflight'[Asked(d)'].state = "running"
  BY <1>2, <1>4, <1>5, <1>7 DEF LoadsShared
<1>9. \A d, e \in Callers : d # e /\ Asked(d)' # NoKey /\ Asked(d)' = Asked(e)' =>
         ~(call'[d].created /\ call'[e].created)
  BY <1>2, <1>4, <1>5 DEF LoadsShared
<1>10. ASSUME NEW j \in CacheKeys, inflight'[j].state # "none"
       PROVE  \E d \in Callers : Asked(d)' = j /\ call'[d].created
  <2>1. ~(j = k /\ call[c].created) /\ inflight[j].state # "none"
    BY <1>3, <1>10 DEF NoTask
  <2>2. PICK d \in Callers : Asked(d) = j /\ call[d].created
    BY <1>5, <2>1 DEF LoadsShared
  <2>. QED  BY <1>2, <1>4, <2>1, <2>2
<1>11. \A d \in Callers : Waiting(d)' => inflight'[Asked(d)'].state = "running"
  BY <1>4, <1>5, <1>7 DEF LoadsShared, Waiting
<1>12. LoadsShared'
  BY <1>8, <1>9, <1>10, <1>11 DEF LoadsShared
<1>13. ResultsCurrent'
  BY <1>2, <1>3, <1>4, <1>5 DEF ResultsCurrent, NoTask
<1>. QED  BY <1>12, <1>13

\* What a caller that ends leaves behind has the types it had.
LEMMA CallEndsTypes ==
    ASSUME CacheTypes, AgesKnown, NEW c \in Callers, call' = [call EXCEPT ![c] = NoCall],
           inflight' \in {inflight, Remain(c)}, time' = time,
           entries' \in [CacheKeys -> Entry],
           \A k \in CacheKeys : entries'[k].kept => entries'[k].at <= time
    PROVE  CacheTypes' /\ AgesKnown'
<1>1. NoCall \in Call /\ NoTask \in Task /\ NoCall.key = NoKey
  BY CacheAssumption DEF NoCall, Call, NoTask, Task, CacheTimes
<1>2. /\ call' \in [Callers -> Call] /\ inflight' \in [CacheKeys -> Task]
      /\ call'[c] = NoCall /\ \A d \in Callers \ {c} : call'[d] = call[d]
  BY <1>1 DEF CacheTypes, Remain
<1>3. CacheTypes'
  BY <1>2 DEF CacheTypes, CacheTimes, Entry, Task, Call
<1>4. AgesKnown'
  BY <1>1, <1>2 DEF AgesKnown, Asked
<1>. QED  BY <1>3, <1>4

LEMMA TickStep == CacheInv /\ CacheTick => CacheInv'
<1>. SUFFICES ASSUME CacheInv, CacheTick PROVE CacheInv'
  OBVIOUS
<1>1. /\ time \in Nat /\ time' = time + 1 /\ time' \in CacheTimes
      /\ UNCHANGED <<entries, order, inflight, call, cancels>> /\ answer' = NoAnswer
      /\ \A c \in Callers : ~Ready(c)
  BY CacheAssumption DEF CacheTick, CacheInv, CacheTypes, CacheTimes
<1>2. CacheTypes'
  BY <1>1 DEF CacheInv, CacheTypes, CacheTimes, Entry, Task, Call
<1>3. /\ \A k \in CacheKeys : entries[k].at \in Nat
      /\ \A c \in Callers : call[c].asked \in Nat
  BY DEF CacheInv, CacheTypes, Entry, Call, CacheTimes
<1>4. AgesKnown'
  BY <1>1, <1>3 DEF CacheInv, AgesKnown, Asked
<1>5. AnswersCurrent'
  BY <1>1 DEF AnswersCurrent, NoAnswer
<1>6. ASSUME cancels = 0 PROVE LoadsShared' /\ ResultsCurrent'
  <2>1. LoadsShared /\ ResultsCurrent
    BY <1>6 DEF CacheInv
  <2>2. LoadsShared' /\ \A c \in Callers : Ready(c)' = Ready(c)
    BY <1>1, <2>1 DEF LoadsShared, Waiting, Ready, Asked
  <2>3. \A k \in CacheKeys : inflight[k].state # "done"
    BY <1>1, <2>1, CacheAssumption DEF LoadsShared, Waiting, Ready
  <2>4. ResultsCurrent'
    BY <1>1, <2>1, <2>2, <2>3 DEF ResultsCurrent
  <2>. QED  BY <2>2, <2>4
<1>. QED  BY <1>1, <1>2, <1>4, <1>5, <1>6 DEF CacheInv

LEMMA HitStep ==
    ASSUME CacheInv, NEW c \in Callers, NEW k \in CacheKeys, Hit(c, k)
    PROVE  CacheInv'
<1>1. /\ UNCHANGED <<time, entries, inflight, call, cancels>>
      /\ Answered("fresh", time, entries[k].at) /\ Fresh(k)
  BY DEF Hit
<1>2. CacheTypes
  BY DEF CacheInv
<1>3. AnswersCurrent'
  BY <1>1, <1>2, FreshAndStale, AnsweredWithin
<1>. QED
  BY <1>1, <1>3 DEF CacheInv, CacheTypes, CacheTimes, Entry, Task, Call, AgesKnown, Asked,
                    LoadsShared, ResultsCurrent, Waiting, Ready

LEMMA MissStep ==
    ASSUME CacheInv, NEW c \in Callers, NEW k \in CacheKeys, Miss(c, k)
    PROVE  CacheInv'
<1>. DEFINE created == inflight[k].state = "none"
            result == IF inflight[k].state = "running" THEN NoTask ELSE inflight[k]
            new == [key |-> k, asked |-> time, stale |-> Kept(entries'[k]),
                    created |-> created, result |-> result]
<1>1. /\ Asked(c) = NoKey
      /\ entries' = IF Stale(k) THEN entries ELSE [entries EXCEPT ![k] = NoEntry]
      /\ inflight' = IF created THEN [inflight EXCEPT ![k] = [NoTask EXCEPT !.state = "running"]]
                     ELSE inflight
      /\ call' = [call EXCEPT ![c] = new]
      /\ answer' = NoAnswer /\ UNCHANGED <<time, cancels>>
  BY DEF Miss
<1>2. /\ CacheTypes /\ k # NoKey /\ inflight[k] \in Task /\ entries[k] \in Entry
  BY CacheAssumption DEF CacheInv, CacheTypes
<1>3. /\ NoTask \in Task /\ NoEntry \in Entry /\ [NoTask EXCEPT !.state = "running"] \in Task
      /\ [NoTask EXCEPT !.state = "running"].state = "running" /\ NoTask.state = "none" /\ ~NoEntry.kept
  <2>1. 0 \in CacheTimes
    BY CacheAssumption DEF CacheTimes
  <2>2. NoTask \in Task /\ NoEntry \in Entry /\ NoTask.state = "none" /\ ~NoEntry.kept
    BY <2>1 DEF NoTask, Task, NoEntry, Entry
  <2>. QED  BY <2>2, TaskWithoutValue
<1>4. /\ entries' \in [CacheKeys -> Entry] /\ inflight' \in [CacheKeys -> Task]
      /\ entries'[k] = IF Stale(k) THEN entries[k] ELSE NoEntry
      /\ \A j \in CacheKeys \ {k} : entries'[j] = entries[j] /\ inflight'[j] = inflight[j]
      /\ inflight'[k] = IF created THEN [NoTask EXCEPT !.state = "running"] ELSE inflight[k]
  BY <1>1, <1>2, <1>3 DEF CacheTypes
<1>5. Kept(entries'[k]) \in CacheTimes \union {NoTime} /\ time \in CacheTimes
  BY <1>2, <1>3, <1>4 DEF Kept, Entry, CacheTypes
<1>6. new \in Call
  BY <1>2, <1>3, <1>5 DEF Call
<1>7. /\ call' \in [Callers -> Call] /\ call'[c] = new
      /\ \A d \in Callers \ {c} : call'[d] = call[d]
  BY <1>1, <1>2, <1>6 DEF CacheTypes
<1>8. CacheTypes'
  BY <1>1, <1>4, <1>5, <1>7 DEF CacheTypes, CacheTimes, Entry, Task, Call
<1>9. new.key = k /\ new.asked = time /\ new.stale = Kept(entries'[k])
      /\ new.created = created /\ new.result = result
  OBVIOUS
<1>. HIDE DEF new
<1>10. AgesKnown'
  <2>1. new.stale # NoTime => new.asked <= new.stale + Longest + StaleFor
    BY <1>2, <1>3, <1>4, <1>9, FreshAndStale DEF Kept
  <2>2. time <= time
    BY FreshAndStale, <1>2
  <2>3. \A j \in CacheKeys : entries'[j].kept => entries'[j].at <= time
    BY <1>3, <1>4 DEF CacheInv, AgesKnown
  <2>. QED  BY <1>1, <1>7, <1>9, <2>1, <2>2, <2>3 DEF CacheInv, AgesKnown, Asked
<1>11. AnswersCurrent'
  BY <1>1 DEF AnswersCurrent, NoAnswer
<1>12. ASSUME cancels = 0 PROVE LoadsShared' /\ ResultsCurrent'
  <2>1. LoadsShared /\ ResultsCurrent
    BY <1>12 DEF CacheInv
  <2>2. /\ \A d \in Callers \ {c} : /\ Asked(d)' = Asked(d)
                                    /\ Waiting(d)' = Waiting(d) /\ Ready(d)' = Ready(d)
        /\ Asked(c)' = k /\ call'[c].created = created
        /\ Waiting(c)' <=> result.state = "none"
        /\ Ready(c)' <=> result.state # "none"
    BY <1>2, <1>7, <1>9 DEF Asked, Waiting, Ready
  <2>3. \A d \in Callers : Asked(d) # NoKey => Asked(d) \in CacheKeys
    BY <1>2 DEF CacheTypes, Call, Asked
  <2>4. \A d \in Callers : Asked(d) = k /\ call[d].created => ~created
    BY <1>2, <2>1 DEF LoadsShared
  <2>5. /\ Waiting(c)' <=> inflight'[k].state = "running"
        /\ inflight'[k].state # "none"
    BY <1>3, <1>4, <2>2
  <2>6. ASSUME NEW d \in Callers, Asked(d)' # NoKey, call'[d].created
        PROVE  /\ inflight'[Asked(d)'].state # "none"
               /\ Waiting(d)' <=> inflight'[Asked(d)'].state = "running"
    <3>1. CASE d = c
      BY <2>2, <2>5, <3>1
    <3>2. CASE d # c
      BY <1>4, <1>7, <2>1, <2>2, <2>3, <2>4, <2>6, <3>2 DEF LoadsShared
    <3>. QED  BY <3>1, <3>2
  <2>7. ASSUME NEW d \in Callers, NEW e \in Callers, d # e, Asked(d)' # NoKey, Asked(d)' = Asked(e)'
        PROVE  ~(call'[d].created /\ call'[e].created)
    <3>1. CASE d = c
      BY <1>7, <2>2, <2>4, <2>7, <3>1
    <3>2. CASE e = c
      BY <1>7, <2>2, <2>4, <2>7, <3>2
    <3>3. CASE d # c /\ e # c
      BY <1>7, <2>1, <2>2, <2>7, <3>3 DEF LoadsShared
    <3>. QED  BY <3>1, <3>2, <3>3
  <2>8. ASSUME NEW j \in CacheKeys, inflight'[j].state # "none"
        PROVE  \E d \in Callers : Asked(d)' = j /\ call'[d].created
    <3>1. CASE j = k /\ created
      BY <2>2, <3>1
    <3>2. CASE ~(j = k /\ created)
      <4>1. PICK d \in Callers : Asked(d) = j /\ call[d].created
        BY <1>4, <2>1, <2>8, <3>2 DEF LoadsShared
      <4>2. d # c
        BY <1>1, <4>1, <2>3, CacheAssumption
      <4>. QED  BY <1>7, <2>2, <4>1, <4>2
    <3>. QED  BY <3>1, <3>2
  <2>9. ASSUME NEW d \in Callers, Waiting(d)' PROVE inflight'[Asked(d)'].state = "running"
    <3>1. CASE d = c
      BY <2>2, <2>5, <2>9, <3>1
    <3>2. CASE d # c
      <4>1. Waiting(d) /\ Asked(d)' = Asked(d) /\ Asked(d) \in CacheKeys
        BY <2>2, <2>3, <2>9, <3>2 DEF Waiting
      <4>2. inflight[Asked(d)].state = "running"
        BY <2>1, <4>1 DEF LoadsShared
      <4>. QED  BY <1>4, <4>1, <4>2
    <3>. QED  BY <3>1, <3>2
  <2>10. LoadsShared'
    BY <2>6, <2>7, <2>8, <2>9 DEF LoadsShared
  <2>11. ResultsCurrent'
    BY <1>1, <1>3, <1>4, <1>7, <1>9, <2>1, <2>2 DEF ResultsCurrent
  <2>. QED  BY <2>10, <2>11
<1>. QED  BY <1>1, <1>8, <1>10, <1>11, <1>12 DEF CacheInv

LEMMA LoadStep ==
    ASSUME CacheInv, NEW k \in CacheKeys, Load(k)
    PROVE  CacheInv'
<1>1. PICK state \in {"done", "failed"} : EndTask(k, state)
  BY DEF Load
<1>2. PICK value \in BOOLEAN :
         LET task == IF state = "done" THEN [state |-> state, value |-> value, at |-> time]
                     ELSE [NoTask EXCEPT !.state = state]
         IN  /\ inflight' = [inflight EXCEPT ![k] = task]
             /\ call' = [c \in Callers |-> IF Waiting(c) /\ Asked(c) = k
                                           THEN [call[c] EXCEPT !.result = task] ELSE call[c]]
  BY <1>1 DEF EndTask
<1>3. PICK task : /\ task = IF state = "done" THEN [state |-> state, value |-> value, at |-> time]
                            ELSE [NoTask EXCEPT !.state = state]
                  /\ inflight' = [inflight EXCEPT ![k] = task]
                  /\ call' = [c \in Callers |-> IF Waiting(c) /\ Asked(c) = k
                                                THEN [call[c] EXCEPT !.result = task] ELSE call[c]]
  BY <1>2
<1>4. task.state = state /\ (state = "done" => task.at = time) /\ task \in Task
  <2>1. 0 \in CacheTimes /\ time \in CacheTimes
    BY CacheAssumption DEF CacheTimes, CacheInv, CacheTypes
  <2>2. CASE state = "done"
    BY <1>3, <2>1, <2>2 DEF Task
  <2>3. CASE state = "failed"
    BY <1>3, <2>3, TaskWithoutValue
  <2>. QED  BY <2>2, <2>3
<1>5. /\ CacheTypes /\ UNCHANGED <<time, entries, order, cancels>> /\ answer' = NoAnswer
      /\ inflight[k].state = "running"
  BY DEF CacheInv, Load
<1>6. /\ inflight' \in [CacheKeys -> Task] /\ inflight'[k] = task
      /\ \A j \in CacheKeys \ {k} : inflight'[j] = inflight[j]
  BY <1>3, <1>4, <1>5 DEF CacheTypes
<1>7. \A c \in Callers :
         /\ call'[c] \in Call /\ call'[c].key = call[c].key /\ call'[c].created = call[c].created
         /\ call'[c].asked = call[c].asked /\ call'[c].stale = call[c].stale
         /\ call'[c].result = IF Waiting(c) /\ Asked(c) = k THEN task ELSE call[c].result
  BY <1>3, <1>4, <1>5 DEF CacheTypes, Call
<1>8. CacheTypes'
  BY <1>3, <1>5, <1>6, <1>7 DEF CacheTypes, CacheTimes, Entry, Task, Call
<1>9. AgesKnown' /\ AnswersCurrent'
  BY <1>5, <1>7 DEF CacheInv, AgesKnown, Asked, AnswersCurrent, NoAnswer
<1>10. ASSUME cancels = 0 PROVE LoadsShared' /\ ResultsCurrent'
  <2>1. LoadsShared /\ ResultsCurrent
    BY <1>10 DEF CacheInv
  <2>2. \A c \in Callers :
           /\ Asked(c)' = Asked(c)
           /\ Waiting(c)' <=> Waiting(c) /\ Asked(c) # k
           /\ Ready(c)' <=> Ready(c) \/ (Waiting(c) /\ Asked(c) = k)
    BY <1>4, <1>7 DEF Asked, Waiting, Ready
  <2>3. \A c \in Callers : Asked(c) # NoKey => Asked(c) \in CacheKeys
    BY <1>5 DEF CacheTypes, Call, Asked
  <2>4. ASSUME NEW c \in Callers, Asked(c) # NoKey
        PROVE  inflight'[Asked(c)] = IF Asked(c) = k THEN task ELSE inflight[Asked(c)]
    BY <1>6, <2>3, <2>4
  <2>5. \A c \in Callers : Asked(c)' # NoKey /\ call'[c].created =>
           /\ inflight'[Asked(c)'].state # "none"
           /\ Waiting(c)' <=> inflight'[Asked(c)'].state = "running"
    BY <1>4, <1>7, <2>1, <2>2, <2>4 DEF LoadsShared
  <2>6. \A c, d \in Callers : c # d /\ Asked(c)' # NoKey /\ Asked(c)' = Asked(d)' =>
           ~(call'[c].created /\ call'[d].created)
    BY <1>7, <2>1, <2>2 DEF LoadsShared
  <2>7. \A j \in CacheKeys : inflight'[j].state # "none" =>
           \E c \in Callers : Asked(c)' = j /\ call'[c].created
    BY <1>5, <1>6, <1>7, <2>1, <2>2 DEF LoadsShared
  <2>8. \A c \in Callers : Waiting(c)' => inflight'[Asked(c)'].state = "running"
    BY <2>1, <2>2, <2>4 DEF LoadsShared, Waiting
  <2>9. LoadsShared'
    BY <2>5, <2>6, <2>7, <2>8 DEF LoadsShared
  <2>10. \A j \in CacheKeys : /\ inflight'[j].state # "cancelled"
                              /\ inflight'[j].state = "done" => inflight'[j].at = time'
    BY <1>4, <1>5, <1>6, <2>1 DEF ResultsCurrent
  <2>11. ASSUME NEW c \in Callers, Ready(c)'
         PROVE  /\ call'[c].result.state # "cancelled"
                /\ call'[c].result.state = "done" => call'[c].result.at = time'
    BY <1>4, <1>5, <1>7, <2>1, <2>2, <2>11 DEF ResultsCurrent, Waiting, Ready
  <2>12. ResultsCurrent'
    BY <2>10, <2>11 DEF ResultsCurrent
  <2>. QED  BY <2>9, <2>12
<1>. QED  BY <1>5, <1>8, <1>9, <1>10 DEF CacheInv

LEMMA StoreStep ==
    ASSUME CacheInv, NEW c \in Callers, Store(c)
    PROVE  CacheInv'
<1>. DEFINE k == Asked(c)
            kept == Evict(Used(k))
<1>1. /\ Ready(c) /\ call[c].result.state = "done" /\ inflight' = Remain(c)
      /\ Answered("fresh", call[c].asked, call[c].result.at)
      /\ call' = [call EXCEPT ![c] = NoCall]
      /\ UNCHANGED <<time, cancels>>
  BY DEF Store, End
<1>2. entries' = [e \in CacheKeys |->
                    IF e \notin ToSet(kept) THEN NoEntry
                    ELSE IF e = k THEN [kept |-> TRUE, value |-> call[c].result.value, at |-> time]
                    ELSE entries[e]]
  BY DEF Store
<1>. HIDE DEF kept
<1>3. /\ CacheTypes /\ AgesKnown /\ time \in Nat
      /\ call[c].asked \in Nat /\ call[c].result \in Task /\ call[c].result.at \in Nat
      /\ k \in CacheKeys /\ k # NoKey
  BY <1>1, CacheAssumption DEF CacheInv, CacheTypes, Call, Task, CacheTimes, Ready, Asked
<1>4. NoEntry \in Entry /\ ~NoEntry.kept
      /\ [kept |-> TRUE, value |-> call[c].result.value, at |-> time] \in Entry
  BY <1>3, CacheAssumption DEF NoEntry, Entry, Task, CacheTimes, CacheTypes
<1>5. /\ entries' \in [CacheKeys -> Entry]
      /\ \A e \in CacheKeys : entries'[e].kept => entries'[e].at <= time
  BY <1>2, <1>3, <1>4 DEF CacheTypes, AgesKnown
<1>6. CacheTypes' /\ AgesKnown'
  BY <1>1, <1>3, <1>5, CallEndsTypes
<1>7. ASSUME cancels = 0 PROVE LoadsShared' /\ ResultsCurrent' /\ AnswersCurrent'
  <2>1. call[c].result.at = time /\ call[c].asked <= time
    BY <1>1, <1>3, <1>7 DEF CacheInv, ResultsCurrent, AgesKnown
  <2>2. Longest \in Nat
    BY LongestIsLongest
  <2>3. call[c].asked <= call[c].result.at + Longest
    BY <1>3, <2>1, <2>2
  <2>4. AnswersCurrent'
    BY <1>1, <1>3, <2>3, AnsweredWithin
  <2>. QED  BY <1>1, <1>7, <2>4, CallEnds
<1>. QED  BY <1>1, <1>6, <1>7 DEF CacheInv

LEMMA FallBackStep ==
    ASSUME CacheInv, NEW c \in Callers, FallBack(c)
    PROVE  CacheInv'
<1>. DEFINE k == Asked(c)
            at == IF Stale(k) THEN entries[k].at ELSE call[c].stale
<1>1. /\ Ready(c) /\ inflight' = Remain(c)
      /\ IF at # NoTime THEN Answered("stale", call[c].asked, at) ELSE Answered("failed", call[c].asked, time)
      /\ call' = [call EXCEPT ![c] = NoCall]
      /\ UNCHANGED <<time, entries, cancels>>
  BY DEF FallBack, End
<1>2. /\ CacheTypes /\ AgesKnown /\ time \in Nat
      /\ call[c].asked \in Nat /\ call[c].stale \in Nat \union {NoTime}
      /\ k \in CacheKeys /\ k # NoKey /\ call[c].asked <= time
  BY <1>1, CacheAssumption DEF CacheInv, CacheTypes, AgesKnown, Call, CacheTimes, Ready, Asked
<1>3. CacheTypes' /\ AgesKnown'
  BY <1>1, <1>2, CallEndsTypes DEF CacheTypes, AgesKnown
<1>4. at # NoTime => at \in Nat /\ call[c].asked <= at + Longest + StaleFor
  <2>1. CASE Stale(k)
    BY <1>2, <2>1, FreshAndStale, LongestIsLongest, CacheAssumption
  <2>2. CASE ~Stale(k)
    BY <1>2, <2>2 DEF AgesKnown
  <2>. QED  BY <2>1, <2>2
<1>. HIDE DEF at
<1>5. AnswersCurrent'
  <2>1. CASE at # NoTime
    BY <1>1, <1>2, <1>4, <2>1, AnsweredWithin
  <2>2. CASE at = NoTime
    BY <1>1, <1>2, <2>2, AnsweredWithin
  <2>. QED  BY <2>1, <2>2
<1>. QED  BY <1>1, <1>3, <1>5, CallEnds DEF CacheInv

LEMMA RaiseStep ==
    ASSUME CacheInv, NEW c \in Callers, Raise(c)
    PROVE  CacheInv'
<1>1. /\ Ready(c) /\ call[c].result.state = "cancelled"
      /\ call' = [call EXCEPT ![c] = NoCall]
      /\ UNCHANGED <<time, entries, inflight, cancels>>
  BY DEF Raise, End
<1>2. cancels # 0
  BY <1>1 DEF CacheInv, ResultsCurrent
<1>3. CacheTypes' /\ AgesKnown'
  BY <1>1, CallEndsTypes DEF CacheInv, CacheTypes, AgesKnown
<1>. QED  BY <1>1, <1>2, <1>3 DEF CacheInv

LEMMA CancelStep ==
    ASSUME CacheInv, NEW c \in Callers, Cancel(c)
    PROVE  CacheInv'
<1>1. cancels' \in Nat /\ cancels' # 0 /\ UNCHANGED <<time, entries>>
  BY DEF Cancel, CacheInv
<1>2. CacheTypes' /\ AgesKnown'
  <2>1. CASE Waiting(c) /\ EndTask(Asked(c), "cancelled")
    <3>. DEFINE k == Asked(c)
                task == [NoTask EXCEPT !.state = "cancelled"]
    <3>1. /\ inflight' = [inflight EXCEPT ![k] = task]
          /\ call' = [d \in Callers |-> IF Waiting(d) /\ Asked(d) = k
                                        THEN [call[d] EXCEPT !.result = task] ELSE call[d]]
      BY <2>1 DEF EndTask
    <3>2. task \in Task
      BY TaskWithoutValue
    <3>. HIDE DEF task
    <3>3. \A d \in Callers :
             /\ call'[d] \in Call /\ call'[d].key = call[d].key
             /\ call'[d].asked = call[d].asked /\ call'[d].stale = call[d].stale
      BY <3>1, <3>2 DEF CacheInv, CacheTypes, Call
    <3>4. CacheTypes'
      BY <1>1, <3>1, <3>2, <3>3 DEF CacheInv, CacheTypes, CacheTimes, Entry, Task, Call
    <3>. QED  BY <1>1, <3>3, <3>4 DEF CacheInv, AgesKnown, Asked
  <2>2. CASE End(c, "raised", time) /\ UNCHANGED inflight
    BY <1>1, <2>2, CallEndsTypes DEF End, CacheInv, CacheTypes, AgesKnown
  <2>. QED  BY <2>1, <2>2 DEF Cancel
<1>. QED  BY <1>1, <1>2 DEF CacheInv

LEMMA InvalidateStep ==
    ASSUME CacheInv, NEW k \in CacheKeys, Invalidate(k)
    PROVE  CacheInv'
<1>1. /\ entries' = [entries EXCEPT ![k] = NoEntry]
      /\ answer' = NoAnswer /\ UNCHANGED <<time, inflight, call, cancels>>
  BY DEF Invalidate
<1>2. NoEntry \in Entry /\ ~NoEntry.kept
  BY CacheAssumption DEF NoEntry, Entry, CacheTimes
<1>3. CacheTypes'
  BY <1>1, <1>2 DEF CacheInv, CacheTypes, CacheTimes, Entry, Task, Call
<1>4. AgesKnown'
  BY <1>1, <1>2 DEF CacheInv, AgesKnown, Asked
<1>5. AnswersCurrent'
  BY <1>1 DEF AnswersCurrent, NoAnswer
<1>. QED
  BY <1>1, <1>3, <1>4, <1>5 DEF CacheInv, LoadsShared, ResultsCurrent, Waiting, Ready, Asked

LEMMA CacheInvStep == CacheInv /\ [CacheNext]_cacheVars => CacheInv'
<1>. SUFFICES ASSUME CacheInv, [CacheNext]_cacheVars PROVE CacheInv'
  OBVIOUS
<1>1. CASE UNCHANGED cacheVars
  BY <1>1 DEF cacheVars, CacheInv, CacheTypes, CacheTimes, Entry, Task, Call, AgesKnown, Asked,
              LoadsShared, ResultsCurrent, AnswersCurrent, Waiting, Ready
<1>. QED
  BY <1>1, TickStep, HitStep, MissStep, LoadStep, StoreStep, FallBackStep, RaiseStep, CancelStep,
     InvalidateStep DEF CacheNext, CallerStep

\* While no caller was cancelled, no answer called fresh is older, at the time of the
\* question, than the longest time to live, and no stale one than the grace behind that
\* (telegram_access_cache.py:115).
THEOREM AnswersAreCurrent == CacheSpec => []AnswersCurrent
<1>1. CacheInv => AnswersCurrent
  BY DEF CacheInv, AnswersCurrent
<1>. QED
  BY <1>1, CacheInvInit, CacheInvStep, PTL DEF CacheSpec

\* The order of use names the keys with an entry, each once.
OrderOfKeys ==
    /\ order \in Seq(CacheKeys) /\ IsInjective(order)
    /\ ToSet(order) = {k \in CacheKeys : entries[k].kept}
    /\ Len(order) <= MaxEntries

CacheTyped == CacheInv /\ OrderOfKeys /\ answer \in Answer /\ cancels \in 0..MaxCancels

LEMMA CacheTypedInit == CacheInit => CacheTyped
<1>. SUFFICES ASSUME CacheInit PROVE CacheTyped
  OBVIOUS
<1>1. << >> \in Seq(CacheKeys) /\ IsInjective(<< >>) /\ ToSet(<< >>) = {} /\ Len(<< >>) = 0
  BY DEF IsInjective, ToSet
<1>2. OrderOfKeys
  BY <1>1, CacheAssumption DEF CacheInit, OrderOfKeys, NoEntry
<1>3. answer \in Answer /\ cancels \in 0..MaxCancels
  BY CacheAssumption DEF CacheInit, Answer, NoAnswer
<1>. QED  BY <1>2, <1>3, CacheInvInit DEF CacheTyped

LEMMA AnsweredTyped ==
    ASSUME NEW how \in {"fresh", "stale", "failed", "raised"}, NEW question \in Nat, NEW at \in Nat,
           Answered(how, question, at)
    PROVE  answer' \in Answer
BY DEF Answered, Answer

LEMMA UsedKeys ==
    ASSUME OrderOfKeys, NEW k \in CacheKeys
    PROVE  /\ Used(k) \in Seq(CacheKeys) /\ IsInjective(Used(k))
           /\ ToSet(Used(k)) = ToSet(order) \union {k}
           /\ Len(Used(k)) = IF k \in ToSet(order) THEN Len(order) ELSE Len(order) + 1
<1>. DEFINE rest == RemoveFirst(order, k)
<1>1. order \in Seq(CacheKeys) /\ IsInjective(order) /\ Len(order) \in Nat
  BY DEF OrderOfKeys
<1>2. /\ rest \in Seq(CacheKeys) /\ IsInjective(rest) /\ ToSet(rest) = ToSet(order) \ {k}
      /\ Len(rest) = IF k \in ToSet(order) THEN Len(order) - 1 ELSE Len(order)
  BY <1>1, RemoveFirstOf
<1>. HIDE DEF rest
<1>3. k \notin ToSet(rest)
  BY <1>2
<1>4. /\ Append(rest, k) \in Seq(CacheKeys) /\ IsInjective(Append(rest, k))
      /\ ToSet(Append(rest, k)) = ToSet(rest) \union {k} /\ Len(Append(rest, k)) = Len(rest) + 1
  BY <1>2, <1>3, AppendTo
<1>5. Used(k) = Append(rest, k)
  BY DEF Used, rest
<1>. QED  BY <1>1, <1>2, <1>4, <1>5

LEMMA EvictedKeys ==
    ASSUME NEW s \in Seq(CacheKeys), IsInjective(s), Len(s) <= MaxEntries + 1
    PROVE  /\ Evict(s) \in Seq(CacheKeys) /\ IsInjective(Evict(s))
           /\ ToSet(Evict(s)) \subseteq ToSet(s) /\ Len(Evict(s)) <= MaxEntries
<1>1. MaxEntries \in Nat /\ MaxEntries > 0 /\ Len(s) \in Nat
  BY CacheAssumption
<1>2. CASE Len(s) > MaxEntries
  <2>1. s # << >>
    BY <1>1, <1>2
  <2>2. /\ Tail(s) \in Seq(CacheKeys) /\ IsInjective(Tail(s)) /\ ToSet(Tail(s)) = ToSet(s) \ {Head(s)}
        /\ Len(Tail(s)) = Len(s) - 1 /\ SubSeq(s, 2, Len(s)) = Tail(s)
    BY <2>1, WithoutFirst
  <2>3. Evict(s) = Tail(s)
    BY <1>2, <2>2 DEF Evict
  <2>4. Len(Tail(s)) <= MaxEntries
    BY <1>1, <2>2
  <2>. QED  BY <2>2, <2>3, <2>4
<1>3. CASE ~(Len(s) > MaxEntries)
  <2>1. SubSeq(s, 1, Len(s)) = s
    BY SubSeqFull
  <2>2. Evict(s) = s
    BY <1>3, <2>1 DEF Evict
  <2>. QED  BY <1>1, <1>3, <2>2
<1>. QED  BY <1>2, <1>3

LEMMA KeptOrder ==
    ASSUME OrderOfKeys, UNCHANGED entries, NEW k \in CacheKeys, entries[k].kept,
           order' = Used(k)
    PROVE  OrderOfKeys'
<1>1. k \in ToSet(order)
  BY DEF OrderOfKeys
<1>. QED  BY <1>1, UsedKeys DEF OrderOfKeys

LEMMA DroppedOrder ==
    ASSUME CacheInv, OrderOfKeys, NEW k \in CacheKeys, entries' = [entries EXCEPT ![k] = NoEntry],
           order' = RemoveFirst(order, k)
    PROVE  OrderOfKeys'
<1>. DEFINE rest == RemoveFirst(order, k)
<1>1. order \in Seq(CacheKeys) /\ IsInjective(order) /\ Len(order) \in Nat
  BY DEF OrderOfKeys
<1>2. /\ rest \in Seq(CacheKeys) /\ IsInjective(rest) /\ ToSet(rest) = ToSet(order) \ {k}
      /\ Len(rest) = IF k \in ToSet(order) THEN Len(order) - 1 ELSE Len(order)
  BY <1>1, RemoveFirstOf
<1>. HIDE DEF rest
<1>3. order' = rest
  BY DEF rest
<1>4. Len(rest) <= MaxEntries
  BY <1>1, <1>2, CacheAssumption DEF OrderOfKeys
<1>5. ToSet(rest) = {e \in CacheKeys : entries'[e].kept}
  BY <1>2 DEF OrderOfKeys, CacheInv, CacheTypes, NoEntry
<1>. QED  BY <1>2, <1>3, <1>4, <1>5 DEF OrderOfKeys

LEMMA StoredOrder ==
    ASSUME CacheInv, OrderOfKeys, NEW c \in Callers, Store(c)
    PROVE  OrderOfKeys'
<1>. DEFINE k == Asked(c)
            kept == Evict(Used(k))
            new == [kept |-> TRUE, value |-> call[c].result.value, at |-> time]
<1>1. k \in CacheKeys
  BY DEF Store, Ready, Asked, CacheInv, CacheTypes, Call
<1>2. /\ Used(k) \in Seq(CacheKeys) /\ IsInjective(Used(k))
      /\ ToSet(Used(k)) = ToSet(order) \union {k} /\ Len(Used(k)) <= MaxEntries + 1
  <2>1. Len(order) \in Nat /\ MaxEntries \in Nat /\ Len(order) <= MaxEntries
    BY CacheAssumption DEF OrderOfKeys
  <2>. QED  BY <1>1, <2>1, UsedKeys
<1>3. /\ kept \in Seq(CacheKeys) /\ IsInjective(kept)
      /\ ToSet(kept) \subseteq ToSet(order) \union {k} /\ Len(kept) <= MaxEntries
  BY <1>2, EvictedKeys
<1>4. /\ order' = kept
      /\ entries' = [e \in CacheKeys |-> IF e \notin ToSet(kept) THEN NoEntry
                                         ELSE IF e = k THEN new ELSE entries[e]]
  BY DEF Store
<1>5. ~NoEntry.kept /\ new.kept
  BY DEF NoEntry
<1>. HIDE DEF kept, new
<1>6. \A e \in CacheKeys : entries'[e].kept <=> e \in ToSet(kept)
  BY <1>3, <1>4, <1>5 DEF OrderOfKeys
<1>7. ToSet(kept) \subseteq CacheKeys
  BY <1>1, <1>3 DEF OrderOfKeys
<1>. QED  BY <1>3, <1>4, <1>6, <1>7 DEF OrderOfKeys

LEMMA OrderStep == CacheInv /\ OrderOfKeys /\ [CacheNext]_cacheVars => OrderOfKeys'
<1>. SUFFICES ASSUME CacheInv, OrderOfKeys, [CacheNext]_cacheVars PROVE OrderOfKeys'
  OBVIOUS
<1>1. ASSUME UNCHANGED <<entries, order>> PROVE OrderOfKeys'
  BY <1>1 DEF OrderOfKeys
<1>2. CASE CacheTick
  BY <1>1, <1>2 DEF CacheTick
<1>3. ASSUME NEW k \in CacheKeys, Load(k) PROVE OrderOfKeys'
  BY <1>1, <1>3 DEF Load
<1>4. ASSUME NEW k \in CacheKeys, Invalidate(k) PROVE OrderOfKeys'
  BY <1>4, DroppedOrder DEF Invalidate
<1>5. ASSUME NEW c \in Callers, NEW k \in CacheKeys, Hit(c, k) PROVE OrderOfKeys'
  BY <1>5, KeptOrder DEF Hit, Fresh
<1>6. ASSUME NEW c \in Callers, NEW k \in CacheKeys, Miss(c, k) PROVE OrderOfKeys'
  <2>1. /\ entries' = IF Stale(k) THEN entries ELSE [entries EXCEPT ![k] = NoEntry]
        /\ order' = IF Stale(k) THEN order ELSE RemoveFirst(order, k)
    BY <1>6 DEF Miss
  <2>2. CASE Stale(k)
    BY <1>1, <2>1, <2>2
  <2>3. CASE ~Stale(k)
    BY <2>1, <2>3, DroppedOrder
  <2>. QED  BY <2>2, <2>3
<1>7. ASSUME NEW c \in Callers, Store(c) PROVE OrderOfKeys'
  BY <1>7, StoredOrder
<1>8. ASSUME NEW c \in Callers, FallBack(c) PROVE OrderOfKeys'
  <2>1. /\ order' = IF Stale(Asked(c)) THEN Used(Asked(c)) ELSE order
        /\ UNCHANGED entries /\ Asked(c) \in CacheKeys
    BY <1>8 DEF FallBack, Ready, Asked, CacheInv, CacheTypes, Call
  <2>2. CASE Stale(Asked(c))
    BY <2>1, <2>2, KeptOrder DEF Stale
  <2>3. CASE ~Stale(Asked(c))
    BY <1>1, <2>1, <2>3
  <2>. QED  BY <2>2, <2>3
<1>9. ASSUME NEW c \in Callers, Raise(c) PROVE OrderOfKeys'
  BY <1>1, <1>9 DEF Raise
<1>10. ASSUME NEW c \in Callers, Cancel(c) PROVE OrderOfKeys'
  BY <1>1, <1>10 DEF Cancel
<1>11. CASE UNCHANGED cacheVars
  BY <1>1, <1>11 DEF cacheVars
<1>. QED
  BY <1>2, <1>3, <1>4, <1>5, <1>6, <1>7, <1>8, <1>9, <1>10, <1>11 DEF CacheNext, CallerStep

LEMMA AnswerStep ==
    ASSUME CacheInv, answer \in Answer, cancels \in 0..MaxCancels, [CacheNext]_cacheVars
    PROVE  answer' \in Answer /\ cancels' \in 0..MaxCancels
<1>0. NoAnswer \in Answer /\ MaxCancels \in Nat
  BY CacheAssumption DEF NoAnswer, Answer
<1>1. /\ time \in Nat /\ \A k \in CacheKeys : entries[k].at \in Nat
      /\ \A c \in Callers : /\ call[c].asked \in Nat /\ call[c].result.at \in Nat
                            /\ call[c].stale # NoTime => call[c].stale \in Nat
                            /\ Ready(c) => Asked(c) \in CacheKeys
  BY CacheAssumption DEF CacheInv, CacheTypes, CacheTimes, Entry, Call, Task, Ready, Asked
<1>2. CASE CacheTick
  BY <1>0, <1>2 DEF CacheTick
<1>3. ASSUME NEW k \in CacheKeys, Load(k) \/ Invalidate(k)
      PROVE  answer' \in Answer /\ cancels' \in 0..MaxCancels
  BY <1>0, <1>3 DEF Load, Invalidate
<1>4. ASSUME NEW c \in Callers, NEW k \in CacheKeys, Hit(c, k)
      PROVE  answer' \in Answer /\ cancels' \in 0..MaxCancels
  BY <1>1, <1>4, AnsweredTyped DEF Hit
<1>5. ASSUME NEW c \in Callers, NEW k \in CacheKeys, Miss(c, k)
      PROVE  answer' \in Answer /\ cancels' \in 0..MaxCancels
  BY <1>0, <1>5 DEF Miss
<1>6. ASSUME NEW c \in Callers, Store(c) PROVE answer' \in Answer /\ cancels' \in 0..MaxCancels
  <2>1. Answered("fresh", call[c].asked, call[c].result.at) /\ UNCHANGED cancels
    BY <1>6 DEF Store, End
  <2>. QED  BY <1>1, <2>1, AnsweredTyped
<1>7. ASSUME NEW c \in Callers, FallBack(c) PROVE answer' \in Answer /\ cancels' \in 0..MaxCancels
  <2>. DEFINE at == IF Stale(Asked(c)) THEN entries[Asked(c)].at ELSE call[c].stale
  <2>1. /\ IF at # NoTime THEN Answered("stale", call[c].asked, at)
           ELSE Answered("failed", call[c].asked, time)
        /\ UNCHANGED cancels /\ Ready(c)
    BY <1>7 DEF FallBack, End
  <2>2. at # NoTime => at \in Nat
    BY <1>1, <2>1
  <2>. HIDE DEF at
  <2>3. CASE at # NoTime
    BY <1>1, <2>1, <2>2, <2>3, AnsweredTyped
  <2>4. CASE at = NoTime
    BY <1>1, <2>1, <2>4, AnsweredTyped
  <2>. QED  BY <2>3, <2>4
<1>8. ASSUME NEW c \in Callers, Raise(c) PROVE answer' \in Answer /\ cancels' \in 0..MaxCancels
  BY <1>1, <1>8, AnsweredTyped DEF Raise, End
<1>9. ASSUME NEW c \in Callers, Cancel(c) PROVE answer' \in Answer /\ cancels' \in 0..MaxCancels
  <2>1. cancels < MaxCancels /\ cancels' = cancels + 1
    BY <1>9 DEF Cancel
  <2>2. cancels' \in 0..MaxCancels
    BY <1>0, <2>1
  <2>3. answer' = NoAnswer \/ Answered("raised", call[c].asked, time)
    BY <1>9 DEF Cancel, End
  <2>4. answer' \in Answer
    BY <1>0, <1>1, <2>3, AnsweredTyped
  <2>. QED  BY <2>2, <2>4
<1>10. CASE UNCHANGED cacheVars
  BY <1>10 DEF cacheVars
<1>. QED
  BY <1>2, <1>3, <1>4, <1>5, <1>6, <1>7, <1>8, <1>9, <1>10 DEF CacheNext, CallerStep

\* The order of use names exactly the keys with an entry, and never more of them than
\* MAX_ENTRIES (telegram_access_cache.py:118).
THEOREM CacheIsTyped == CacheSpec => []CacheTypeOK
<1>1. CacheTyped /\ [CacheNext]_cacheVars => CacheTyped'
  BY CacheInvStep, OrderStep, AnswerStep DEF CacheTyped
<1>2. CacheTyped => CacheTypeOK
  BY DEF CacheTyped, OrderOfKeys, CacheTypeOK, CacheInv, CacheTypes
<1>. QED  BY <1>1, <1>2, CacheTypedInit, PTL DEF CacheSpec

-----------------------------------------------------------------------------
(* The life of a process.  What is open follows from where the process     *)
(* stands (PoolsByPhase); a probe that goes on has seen everything that is *)
(* up (ProbeSees).                                                         *)

\* The database is opened behind Redis, the bot behind the database, and they are
\* closed the other way round.
PoolsByPhase ==
    /\ phase \in {"off", "ping", "drop", "database", "schema", "setup", "webhook", "menu"}
          => ~broken /\ unclosed = {} /\ probe = NoProbe
    /\ phase \in {"ping", "drop"} => held
    /\ phase = "off" => ~held /\ pool["redis"] = "none"
    /\ held => pool["redis"] = "open"
    /\ ~held /\ pool["redis"] = "open" => "redis" \in unclosed
    /\ phase \in {"database", "schema", "setup", "webhook", "menu", "serving", "close_bot"}
       /\ config.redis_required => held
    /\ phase \in {"dispose", "stopped"} => ~held
    /\ phase \in {"off", "ping", "drop", "database"} => pool["database"] = "none"
    /\ phase \in {"schema", "setup", "webhook", "menu", "serving", "close_bot", "dispose"}
          => pool["database"] = "open"
    /\ phase = "close_redis" => pool["database"] \in {"none", "open"}
    /\ phase = "stopped" /\ pool["database"] = "open" =>
          unclosed \intersect {"redis", "database"} # {}
    /\ phase \in {"webhook", "menu", "serving"} => initialized
    /\ phase \in {"off", "ping", "drop", "database", "schema", "setup"} => pool["bot"] = "none"
    /\ phase \in {"close_redis", "dispose", "stopped"} /\ pool["bot"] = "open" =>
          "bot" \in unclosed \/ broken

ProbeSees ==
    /\ probe.step \in {"database", "migration", "redis"} => up \subseteq wasUp
    /\ probe.kind = "ready" =>
          /\ probe.step = "migration" => "database" \in wasUp
          /\ probe.step = "redis" => Required \ {"redis"} \subseteq wasUp
          /\ probe.step = "ok" => Required \subseteq wasUp

LifespanInv == LifespanTypeOK /\ PoolsByPhase /\ ProbeSees

LEMMA LifespanInvInit == LifespanInit => LifespanInv
<1>. SUFFICES ASSUME LifespanInit PROVE LifespanInv
  OBVIOUS
<1>1. LifespanTypeOK
  <2>1. changes \in 0..MaxChanges /\ phase \in Phases
    BY LifespanAssumption DEF LifespanInit, Phases
  <2>2. probe \in [kind : {"ready", "diagnostics"},
                   step : {"none", "database", "migration", "redis", "ok", "unavailable"}]
    BY DEF LifespanInit, NoProbe
  <2>3. pool \in [Pools -> {"none", "open", "closed"}]
    BY DEF LifespanInit
  <2>. QED  BY <2>1, <2>2, <2>3 DEF LifespanInit, LifespanTypeOK
<1>2. pool["redis"] = "none" /\ pool["database"] = "none" /\ pool["bot"] = "none"
  BY DEF LifespanInit, Pools
<1>3. PoolsByPhase /\ ProbeSees
  BY <1>2 DEF LifespanInit, PoolsByPhase, ProbeSees, NoProbe
<1>. QED  BY <1>1, <1>3 DEF LifespanInv

\* What serves or has stopped is clean.
LEMMA LifespanInvClean == LifespanInv => LifespanIsClean
BY DEF LifespanInv, LifespanTypeOK, PoolsByPhase, ProbeSees, LifespanIsClean, ReadyIsBacked,
       ClosedWhenStopped

LEMMA LifespanTypeStep == LifespanInv /\ [LifespanNext]_lifespanVars => LifespanTypeOK'
<1>. SUFFICES ASSUME LifespanInv, [LifespanNext]_lifespanVars PROVE LifespanTypeOK'
  OBVIOUS
<1>. USE DEF LifespanInv, LifespanTypeOK
<1>1. CASE ChangeDependency
  BY <1>1, LifespanAssumption DEF ChangeDependency
<1>2. CASE CreateRedis \/ PingRedis \/ DropRedis
  <2>1. config.redis_required \in BOOLEAN
    BY DEF Configs
  <2>2. CASE CreateRedis
    BY <2>1, <2>2 DEF CreateRedis, SameWorld, NoProbing, Pools, Phases
  <2>3. CASE PingRedis
    BY <2>3 DEF PingRedis, SameWorld, NoProbing, Phases
  <2>4. CASE DropRedis
    BY <2>1, <2>4 DEF DropRedis, SameWorld, NoProbing, Closed, NotClosed, Pools, Phases
  <2>. QED  BY <1>2, <2>2, <2>3, <2>4
<1>3. CASE OpenDatabase \/ CreateSchema \/ Setup \/ SetWebhook \/ SetMenu
  BY <1>3 DEF OpenDatabase, CreateSchema, Setup, SetWebhook, SetMenu, SameWorld, NoProbing, Pools,
              Phases
<1>4. CASE StopServing \/ CloseBot \/ CloseRedis \/ DisposeDatabase
  BY <1>4 DEF StopServing, CloseBot, CloseRedis, DisposeDatabase, BehindRedis, SameWorld,
              NoProbing, Closed, NotClosed, Pools, Phases
<1>5. CASE AskReady \/ AskDatabase \/ AskMigration \/ AskRedis
  BY <1>5 DEF AskReady, AskDatabase, AskMigration, AskRedis, Probing, Continue
<1>6. CASE UNCHANGED lifespanVars
  BY <1>6 DEF lifespanVars
<1>. QED  BY <1>1, <1>2, <1>3, <1>4, <1>5, <1>6 DEF LifespanNext

LEMMA PoolsStep == LifespanInv /\ [LifespanNext]_lifespanVars => PoolsByPhase'
<1>. SUFFICES ASSUME LifespanInv, [LifespanNext]_lifespanVars PROVE PoolsByPhase'
  OBVIOUS
<1>. USE DEF LifespanInv, LifespanTypeOK, PoolsByPhase
<1>1. CASE ChangeDependency
  BY <1>1 DEF ChangeDependency
<1>2. CASE CreateRedis
  BY <1>2 DEF CreateRedis, SameWorld, NoProbing, Pools
<1>10. CASE PingRedis
  BY <1>10 DEF PingRedis, SameWorld, NoProbing
<1>3. CASE DropRedis
  <2>1. CASE pool' = [pool EXCEPT !["redis"] = "closed"] /\ UNCHANGED unclosed
    BY <1>3, <2>1 DEF DropRedis, SameWorld, NoProbing, Closed, NotClosed, Pools
  <2>2. CASE unclosed' = unclosed \union {"redis"} /\ UNCHANGED pool
    BY <1>3, <2>2 DEF DropRedis, SameWorld, NoProbing, Closed, NotClosed, Pools
  <2>. QED  BY <1>3, <2>1, <2>2 DEF DropRedis, Closed, NotClosed
<1>4. CASE OpenDatabase \/ CreateSchema \/ Setup
  <2>1. CASE OpenDatabase
    BY <2>1 DEF OpenDatabase, SameWorld, NoProbing, Pools
  <2>2. CASE CreateSchema
    BY <2>2 DEF CreateSchema, SameWorld, NoProbing
  <2>3. CASE Setup
    BY <2>3 DEF Setup, SameWorld, NoProbing, Pools
  <2>. QED  BY <1>4, <2>1, <2>2, <2>3
<1>5. CASE SetWebhook \/ SetMenu \/ StopServing
  BY <1>5 DEF SetWebhook, SetMenu, StopServing, SameWorld, NoProbing
<1>6. CASE CloseBot \/ CloseRedis
  <2>1. CASE CloseBot
    <3>1. CASE Closed("bot")
      BY <2>1, <3>1 DEF CloseBot, SameWorld, NoProbing, Closed, Pools
    <3>2. CASE NotClosed("bot")
      BY <2>1, <3>2 DEF CloseBot, SameWorld, NoProbing, NotClosed
    <3>. QED  BY <2>1, <3>1, <3>2 DEF CloseBot
  <2>2. CASE CloseRedis
    <3>1. /\ phase = "close_redis" /\ ~held' /\ UNCHANGED <<config, broken, initialized, probe>>
          /\ phase' \in {"dispose", "stopped"}
          /\ phase' = "dispose" => pool["database"] # "none"
          /\ phase' = "stopped" => pool["database"] = "none" \/ "redis" \in unclosed'
      BY <2>2 DEF CloseRedis, BehindRedis, SameWorld, NoProbing, Closed, NotClosed
    <3>2. /\ pool'["database"] = pool["database"] /\ pool'["bot"] = pool["bot"]
          /\ unclosed \subseteq unclosed'
          /\ pool'["redis"] = "open" => "redis" \in unclosed'
      BY <2>2 DEF CloseRedis, Closed, NotClosed, Pools
    <3>3. pool["database"] \in {"none", "open"}
      BY <3>1
    <3>. QED  BY <3>1, <3>2, <3>3
  <2>. QED  BY <1>6, <2>1, <2>2
<1>7. CASE DisposeDatabase
  BY <1>7 DEF DisposeDatabase, SameWorld, NoProbing, Closed, NotClosed, Pools
<1>8. CASE AskReady \/ AskDatabase \/ AskMigration \/ AskRedis
  BY <1>8 DEF AskReady, AskDatabase, AskMigration, AskRedis, Probing, Continue
<1>9. CASE UNCHANGED lifespanVars
  BY <1>9 DEF lifespanVars
<1>. QED  BY <1>1, <1>2, <1>3, <1>4, <1>5, <1>6, <1>7, <1>8, <1>9, <1>10 DEF LifespanNext

LEMMA ProbeStep == LifespanInv /\ [LifespanNext]_lifespanVars => ProbeSees'
<1>. SUFFICES ASSUME LifespanInv, [LifespanNext]_lifespanVars PROVE ProbeSees'
  OBVIOUS
<1>. USE DEF LifespanInv, LifespanTypeOK, ProbeSees, Required
<1>1. CASE ChangeDependency
  BY <1>1 DEF ChangeDependency
<1>2. CASE UNCHANGED <<config, up, probe, wasUp>>
  BY <1>2
<1>3. CASE AskReady
  BY <1>3 DEF AskReady, Probing
<1>4. CASE AskDatabase
  BY <1>4 DEF AskDatabase, Probing, Continue
<1>5. CASE AskMigration
  BY <1>5 DEF AskMigration, Probing, Continue
<1>6. CASE AskRedis
  BY <1>6 DEF AskRedis, Probing, Continue
<1>. QED
  BY <1>1, <1>2, <1>3, <1>4, <1>5, <1>6
     DEF LifespanNext, CreateRedis, PingRedis, DropRedis, OpenDatabase, CreateSchema, Setup,
         SetWebhook, SetMenu, StopServing, CloseBot, CloseRedis, DisposeDatabase, SameWorld,
         NoProbing, lifespanVars

LEMMA LifespanInvStep == LifespanInv /\ [LifespanNext]_lifespanVars => LifespanInv'
BY LifespanTypeStep, PoolsStep, ProbeStep DEF LifespanInv

\* A process that serves has what it needs, and says "ready" only where all of it has
\* answered; one that has stopped has closed what it opened (app/main.py:96).
THEOREM LifespanStaysClean == LifespanSpec => [](LifespanTypeOK /\ LifespanIsClean)
<1>1. LifespanInv => LifespanTypeOK /\ LifespanIsClean
  BY LifespanInvClean DEF LifespanInv
<1>. QED  BY <1>1, LifespanInvInit, LifespanInvStep, PTL DEF LifespanSpec

-----------------------------------------------------------------------------
(* The composition.  A behaviour of it is one of every part: of the one at   *)
(* work, and of the others in which nothing happens.  What was shown of the  *)
(* parts is so shown of what Operations.cfg runs.                            *)

LEMMA PartsRun ==
    OperationsSpec => WeeklySpec /\ CacheSpec /\ RateSpec /\ KeyedSpec /\ LifespanSpec
<1>1. OperationsInit => WeeklyInit /\ CacheInit /\ RateInit /\ KeyedInit /\ LifespanInit
  BY DEF OperationsInit
<1>2. ASSUME [OperationsNext]_operationsVars
      PROVE  /\ [WeeklyNext]_weeklyVars /\ [CacheNext]_cacheVars /\ [RateNext]_rateVars
             /\ [KeyedNext]_keyedVars /\ [LifespanNext]_lifespanVars
  BY <1>2 DEF OperationsNext, operationsVars
<1>. QED
  BY <1>1, <1>2, PTL DEF OperationsSpec, WeeklySpec, CacheSpec, RateSpec, KeyedSpec, LifespanSpec

\* Whatever part is at work, its state is what the code can hold: in the cache and in the
\* queues of locks no key and no task twice, and none that is not there.
THEOREM OperationsAreTyped == OperationsSpec => []OperationsTypeOK
<1>. DEFINE PartTypeOK == part \in {"weekly", "cache", "limiter", "lock", "lifespan"}
<1>1. OperationsInit => PartTypeOK
  BY DEF OperationsInit
<1>2. PartTypeOK /\ [OperationsNext]_operationsVars => PartTypeOK'
  BY DEF OperationsNext, operationsVars
<1>3. PartTypeOK /\ WeeklyTypeOK /\ CacheTypeOK /\ RateTypeOK /\ KeyedTypeOK /\ LifespanTypeOK
         => OperationsTypeOK
  BY DEF OperationsTypeOK
<1>. HIDE DEF PartTypeOK
<1>. QED
  BY <1>1, <1>2, <1>3, PartsRun, WeeklyKeepsTheLease, CacheIsTyped, RateTypes, LocksAreTyped,
     LifespanStaysClean, PTL DEF OperationsSpec

\* All that Operations.cfg checks but for its liveness, of the composition it runs: leases
\* exclude and are given back by their holders alone, no week is sent twice nor reported
\* without its rewards, no answer of the cache is too old, no user passes the rate, no two
\* tasks are inside for a key, and no process says "ready" that is not.
THEOREM OperationsAreSafe ==
    OperationsSpec =>
       /\ [](/\ ExclusiveUnlessLapsed /\ ReportBudget /\ RewardedUnlessFailed
             /\ AnswersCurrent /\ RateBound /\ RetryIsHonoured /\ OneHolderPerKey
             /\ LifespanIsClean)
       /\ OwnTokenOnly
<1>. QED
  BY PartsRun, WeeklyExcludes, ReportsAreBudgeted, MarkedIsRewarded, AnswersAreCurrent,
     RateIsBounded, RetryIsKept, OneTaskPerKey, LifespanStaysClean, PTL

===============================================================================
