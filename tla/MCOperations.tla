----------------------------- MODULE MCOperations -----------------------------
(***************************************************************************)
(* What guards the service at work: the leases of scheduled jobs with the  *)
(* weekly reports under them, the cache of memberships, the limiter of     *)
(* requests, the locks of a process and its life.  They share no state, so *)
(* that a behaviour of the run is one of one part, chosen at the start;    *)
(* the others stay where they began.                                       *)
(***************************************************************************)
EXTENDS WeeklyReports, AccessCache, RateLimiter, KeyedLock, ServiceLifespan, TLC

VARIABLE part

operationsVars == <<weeklyVars, cacheVars, rateVars, keyedVars, lifespanVars, part>>

OperationsTypeOK ==
    /\ part \in {"weekly", "cache", "limiter", "lock", "lifespan"}
    /\ part = "weekly" => WeeklyTypeOK
    /\ part = "cache" => CacheTypeOK
    /\ part = "limiter" => RateTypeOK
    /\ part = "lock" => KeyedTypeOK
    /\ part = "lifespan" => LifespanTypeOK

OperationsInit ==
    /\ part \in {"weekly", "cache", "limiter", "lock", "lifespan"}
    /\ WeeklyInit /\ CacheInit /\ RateInit /\ KeyedInit /\ LifespanInit
    /\ part # "weekly" => open = {}      \* no report is due where none is sent
    /\ part # "lock" => wanted = [t \in Tasks |-> CHOOSE k \in LockKeys : TRUE]
    /\ part # "lifespan" => config = CHOOSE c \in Configs : TRUE

OperationsNext ==
    /\ UNCHANGED part
    /\ \/ /\ part = "weekly" /\ WeeklyNext
          /\ UNCHANGED <<cacheVars, rateVars, keyedVars, lifespanVars>>
       \/ /\ part = "cache" /\ CacheNext
          /\ UNCHANGED <<weeklyVars, rateVars, keyedVars, lifespanVars>>
       \/ /\ part = "limiter" /\ RateNext
          /\ UNCHANGED <<weeklyVars, cacheVars, keyedVars, lifespanVars>>
       \/ /\ part = "lock" /\ KeyedNext
          /\ UNCHANGED <<weeklyVars, cacheVars, rateVars, lifespanVars>>
       \/ /\ part = "lifespan" /\ LifespanNext
          /\ UNCHANGED <<weeklyVars, cacheVars, rateVars, keyedVars>>

OperationsSpec == OperationsInit /\ [][OperationsNext]_operationsVars

\* A job under way goes on, a key of Redis expires, the scheduler calls again and
\* again; a load of the cache ends, and the event loop goes on with who awaited it.
FairOperationsSpec ==
    /\ OperationsSpec
    /\ \A p \in Calls : WF_weeklyVars(part = "weekly" /\ WeeklyStep(p))
    /\ \A l \in Leases : WF_weeklyVars(part = "weekly" /\ TokenEnds(l))
    /\ SF_weeklyVars(part = "weekly" /\ \E p \in Calls : StartWeekly(p))
    /\ \A k \in CacheKeys : WF_cacheVars(part = "cache" /\ Load(k))
    /\ \A c \in Callers : WF_cacheVars(part = "cache" /\ CallerStep(c))

\* A report day of the group that spans the end of a week in UTC.
WeekLeases == {"2024-W01", "2024-W02"}
MCDueAt == [g \in Groups |-> 0..1]
MCWeekOf == [t \in Times |-> IF t = 0 THEN "2024-W01" ELSE "2024-W02"]

\* MEMBER_POSITIVE_TTL is longer than MEMBER_NEGATIVE_TTL.
MCFreshFor == [value \in BOOLEAN |-> IF value THEN 1 ELSE 0]

===============================================================================
