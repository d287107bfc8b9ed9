SPECIFICATION Spec
CONSTANTS
    Events = {1, 2, 3}
    Lanes = {1, 2}
    LaneOf <- MCLaneOf
    Legacy = {1, 2}
    Dispatchers = {d1, d2}
    Limit = 2
    Lease = 1
    Retention = 0
    Delays <- MCDelays
    MaxLag = 1
    MaxFaults = 1
SYMMETRY Replicas
INVARIANTS TypeOK NothingLost
PROPERTIES CompletedIsFinal FairBatch ImplementsContract
CHECK_DEADLOCK FALSE
