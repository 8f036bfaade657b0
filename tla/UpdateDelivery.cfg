CONSTANTS
    w1 = w1
    w2 = w2
    w3 = w3
    i1 = i1
    i2 = i2
    Updates = {u1, u2}
    Workers = {w1, w2, w3}
    Instances = {i1, i2}
    InstanceOf <- MCInstanceOf
    MaxConcurrency = 1
    MaxConnections = 1
    MaxFaults = 2
    NoUpdate = NoUpdate
SPECIFICATION FairSpec
INVARIANTS
    TypeOK
    ExecutionBudget
    NoLostUpdate
PROPERTIES
    CompletedUnlessLapsed
    ImplementsAtLeastOnce
    EveryUpdateAcknowledged
CHECK_DEADLOCK FALSE
