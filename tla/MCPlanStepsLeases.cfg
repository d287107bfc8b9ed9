SPECIFICATION Spec
CONSTANTS
    r1 = r1  r2 = r2  r3 = r3
    t1 = t1  t2 = t2
    general = general  expert = expert
    NoRun = NoRun  NoAgent = NoAgent  AnyStep = 0
    Steps = {1, 2}
    Deps <- FreeDeps
    Tasks = {t1}
    Target <- SequentialTarget
    Runs = {r1, r2}
    TaskOf <- SequentialTaskOf
    AgentOf <- SequentialAgents
    TaskLease = 4
    Requests = {2, 4}
    Reports = {"failed", "blocked"}
    MinTTL = 2
    MaxFence = 2
    MaxSeq = 0
    MaxWait = 1
INVARIANTS
    TypeOK
    LeaseNested
    OneLiveStep
PROPERTIES
    StepGuarded
