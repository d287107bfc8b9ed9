SPECIFICATION MCSpec
CONSTANTS
    i1 = i1  i2 = i2  i3 = i3  i4 = i4
    Jobs = {1, 2, 3, 4, 5, 6}
    ItemOf <- MCItemOf
    RunsOf <- MCRunsOf
    CallsOf <- MCCallsOf
    Quota <- MCQuota
    Routes = 2
    Budget = 2
    ItemBudget <- MCItemBudget
    RunLease = 1
    NoHolder = 0
    Plans = {91, 92, 93}
    StepsOf <- MCStepsOf
    DependsOn <- MCDependsOn
    Integration <- MCIntegration
    Machines = {81, 82, 83}
    Capacity <- MCCapacity
    MaxConcurrency = 2
    Reached = {1, 2, 3, 4}
    MaxOpen = 2
    Lapsing = {83}
    NoMachine = 0
    PlanIntent = 31
    Grants = {32}
    Manual = {35, 36}
    Replicas = {38, 39}
    Writers = {37}
    MaxAttempts = 2
    MaxDiffs = 2
    MaxPlans = 2
    Nothing = 0
    Hooks = {101, 102}
    Pollers = {111}
    MaxPushes = 1
    MaxRetries = 1
    MaxClaims = 2
    ReviewLease = 1
    RecoveryDelay = 1
    RecoveryLimit = 2
    Tries = {121, 122}
    TryLease = 1
    NoTry = 0
INVARIANTS
    PaidOnce WithinBudget
    SlotsRespected LastFansIn NoFanInCycle
    OneRun
    OneOpenReview RecoveryBounded
    InferredOnce AckedIsSettled OneLateEffect
PROPERTIES
    ChargedOnce WithdrawnStays LiveReviewKept
CHECK_DEADLOCK FALSE
