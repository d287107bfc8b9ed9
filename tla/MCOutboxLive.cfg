SPECIFICATION FairSpec
CONSTANTS
    Events = {1, 2}
    Lanes = {1}
    LaneOf <- MCLaneOf
    Legacy = {2}
    Dispatchers = {d1, d2}
    Limit = 2
    Lease = 1
    Retention = 0
    Delays <- MCDelays
    MaxLag = 1
    MaxFaults = 1
PROPERTIES Delivered
CHECK_DEADLOCK FALSE
