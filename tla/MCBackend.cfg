SPECIFICATION MCSpec
CONSTANTS
    Events = {1, 2, 3, 4}
    Lanes = {1, 2, 3}
    LaneOf <- MCLaneOf
    Legacy = {2}
    Dispatchers = {d1, d2}
    Limit = 1
    Lease = 1
    Retention = 0
    Delays <- MCDelays
    MaxLag = 0
    MaxFaults = 0
    People = {61, 62}
    Links = {71, 72}
    Clients = {51, 52, 53, 54}
    Serves <- MCServes
    Said = {"confirmed", "declined"}
    Edits <- MCEdits
    Lists <- MCLists
    Kept = Kept
    NoLink = 0
    Ids = {1, 2}
    Keys = {1, 2, 3}
    Uploads = {11, 12}
    Presigned = {1}
    NewKey <- MCNewKey
    Staff = {21, 22}
    Typed <- MCTyped
    MaxUploads = 1
    MaxJobs = 2
    NoId = 0
    NoJob = 0
    NoObject = NoObject
SYMMETRY Replicas
INVARIANTS
    LaneNotStarved
    StatusFollows 
    WallServes DoneIsEarned UploadLimit
PROPERTY DeletedStays
\* Events end up deleted, requests used up.
CHECK_DEADLOCK FALSE
