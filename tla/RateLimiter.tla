----------------------------- MODULE RateLimiter -----------------------------
(***************************************************************************)
(* The token bucket in Redis that limits the requests of one identity      *)
(* under one policy (app/operations/rate_limits.py, enforced by            *)
(* app/api/rate_limit.py).  The script runs atomically and counts time by  *)
(* the clock of Redis, in ticks here.  Tokens are fractions: TokenUnit     *)
(* units make a token, and RefillUnits flow in with every tick.  The key   *)
(* of a bucket nobody has asked for KeyTtl ticks is gone, and with it what *)
(* it held; the next request finds a full one.                             *)
(*                                                                         *)
(* The answer of the script may be lost, or Redis not be reached at all.   *)
(* Redis neither loses a key before its time nor sets its clock back.      *)
(***************************************************************************)
EXTENDS Naturals

CONSTANTS
    TokenUnit,          \* units of one token
    RefillUnits,        \* units per tick: requests / period
    BurstUnits,         \* capacity: burst tokens
    KeyTtl,             \* ttl_ms: two periods
    FailOpen,           \* whether the policy lets requests through without Redis
    LastTick            \* bound: ticks

\* For every policy of POLICIES, two periods refill more than the burst.
ASSUME RateAssumption ==
    /\ TokenUnit \in Nat \ {0} /\ RefillUnits \in Nat \ {0} /\ BurstUnits \in Nat
    /\ BurstUnits >= TokenUnit
    /\ KeyTtl \in Nat /\ KeyTtl * RefillUnits >= BurstUnits
    /\ FailOpen \in BOOLEAN
    /\ LastTick \in Nat

VARIABLES
    clock,              \* TIME of Redis
    bucket,             \* whether the key exists
    tokens,             \* its hash: tokens
    updatedAt,          \* its hash: updated_at
    outcome,            \* what the last request was told
    since,              \* history: when somebody began to count
    granted,            \* history: requests the script has allowed since
    retryAt             \* history: when the last refusal said to come again, 0 if nobody is waiting

rateVars == <<clock, bucket, tokens, updatedAt, outcome, since, granted, retryAt>>

Outcomes == {"none", "allowed", "limited", "bypassed", "unavailable"}

RateTypeOK ==
    /\ clock \in Nat
    /\ bucket \in BOOLEAN
    /\ tokens \in 0..BurstUnits
    /\ updatedAt \in Nat /\ updatedAt <= clock
    /\ outcome \in Outcomes
    /\ since \in Nat /\ since <= clock
    /\ granted \in Nat
    /\ retryAt \in Nat

AtMost(n, most) == IF n > most THEN most ELSE n

\* What the script finds in the bucket at a time.
Available(at) ==
    IF bucket THEN AtMost(tokens + (at - updatedAt) * RefillUnits, BurstUnits) ELSE BurstUnits

RateInit ==
    /\ clock = 1
    /\ bucket = FALSE
    /\ tokens = 0
    /\ updatedAt = 0
    /\ outcome = "none"
    /\ since = 1
    /\ granted = 0
    /\ retryAt = 0

RateTick ==
    /\ clock < LastTick
    /\ clock' = clock + 1
    /\ UNCHANGED <<bucket, tokens, updatedAt, outcome, since, granted, retryAt>>

Allow ==
    /\ Available(clock) >= TokenUnit
    /\ tokens' = Available(clock) - TokenUnit
    /\ granted' = granted + 1
    /\ retryAt' = 0

\* Faulty: the waiting time is rounded down.
RetryTooSoon == (TokenUnit - Available(clock)) \div RefillUnits

\* retry_ms, rounded up.
RetryAfter == (TokenUnit - Available(clock) + RefillUnits - 1) \div RefillUnits

Refuse ==
    /\ Available(clock) < TokenUnit
    /\ tokens' = Available(clock)
    /\ retryAt' = clock + RetryAfter
    /\ UNCHANGED granted

\* Faulty: only the first request writes updated_at.
ScriptKeepingTime ==
    /\ Allow \/ Refuse
    /\ bucket' = TRUE
    /\ updatedAt' = IF bucket THEN updatedAt ELSE clock
    /\ UNCHANGED <<clock, since>>

Script ==
    /\ Allow \/ Refuse
    /\ bucket' = TRUE
    /\ updatedAt' = clock
    /\ UNCHANGED <<clock, since>>

\* check, and enforce_rate_limit on its answer.
Check ==
    /\ Script
    /\ outcome' = IF granted' > granted THEN "allowed" ELSE "limited"

WithoutRedis == IF FailOpen THEN "bypassed" ELSE "unavailable"

\* RateLimitUnavailable although the script has run: its answer was lost.
CheckUnanswered ==
    /\ Script
    /\ outcome' = WithoutRedis

\* RateLimitUnavailable because Redis was not reached.
CheckFails ==
    /\ outcome' = WithoutRedis
    /\ UNCHANGED <<clock, bucket, tokens, updatedAt, since, granted, retryAt>>

ExpireBucket ==
    /\ bucket
    /\ clock >= updatedAt + KeyTtl
    /\ bucket' = FALSE
    /\ UNCHANGED <<clock, tokens, updatedAt, outcome, since, granted, retryAt>>

\* Somebody begins to count the requests.
Watch ==
    /\ since' = clock
    /\ granted' = 0
    /\ UNCHANGED <<clock, bucket, tokens, updatedAt, outcome, retryAt>>

RateNext == RateTick \/ Check \/ CheckUnanswered \/ CheckFails \/ ExpireBucket \/ Watch

RateSpec == RateInit /\ [][RateNext]_rateVars

-----------------------------------------------------------------------------
(* Properties. *)

\* From whatever moment one counts, the script has allowed no more than a burst
\* and what has flowed in since, although refills are cut, answers lost and
\* buckets forgotten and made anew (rate_limits.py:23).
RateBound == granted * TokenUnit <= BurstUnits + (clock - since) * RefillUnits

\* A refused request that comes again when it was told to, with no other request
\* in between, is let through (rate_limits.py:29).
RetryIsHonoured == retryAt # 0 /\ clock >= retryAt => Available(clock) >= TokenUnit

=============================================================================
