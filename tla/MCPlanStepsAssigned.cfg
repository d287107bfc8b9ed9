SPECIFICATION Spec
CONSTANTS
    r1 = r1  r2 = r2  r3 = r3
    t1 = t1  t2 = t2
    general = general  expert = expert
    NoRun = NoRun  NoAgent = NoAgent  AnyStep = 0
    Steps = {1, 2}
    Deps <- ChainDeps
    Tasks = {t1, t2}
    Target <- AssignedTarget
    Runs = {r1, r2, r3}
    TaskOf <- AssignedTaskOf
    AgentOf <- AssignedAgents
    TaskLease = 2
    Requests = {2}
    Reports = {"completed", "failed"}
    MinTTL = 1
    MaxFence = 2
    MaxSeq = 1
    MaxWait = 0
PROPERTIES
    CancelHonoured
