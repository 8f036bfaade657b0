SPECIFICATION FairOperationsSpec
CONSTANTS
    Free = Free
    Gone = Gone
    NoLease = NoLease
    Never = Never
    NoGroup = NoGroup
    Calls = {p1, p2}
    Groups = {g1}
    Leases <- WeekLeases
    DueAt <- MCDueAt
    WeekOf <- MCWeekOf
    Horizon = 2
    MaxLapses = 1
    MaxFaults = 1
    NoKey = NoKey
    NoTime = NoTime
    FreshFor <- MCFreshFor
    StaleFor = 1
    Callers = {c1, c2}
    CacheKeys = {k1, k2}
    MaxEntries = 1
    LastTime = 3
    MaxCancels = 1
    TokenUnit = 3
    RefillUnits = 2
    BurstUnits = 6
    KeyTtl = 3
    FailOpen = TRUE
    LastTick = 7
    NoLock = NoLock
    Tasks = {t1, t2, t3}
    LockKeys = {m1, m2}
    Locks = {l1, l2, l3}
    MaxChanges = 3
INVARIANTS
    OperationsTypeOK
    ExclusiveUnlessLapsed
    ReportBudget
    RewardedUnlessFailed
    AnswersCurrent
    RateBound
    RetryIsHonoured
    OneHolderPerKey
    LifespanIsClean
PROPERTIES
    OwnTokenOnly
    DueReportArrives
    InflightEnds
CHECK_DEADLOCK FALSE
