SPECIFICATION Spec
CONSTANTS
    r1 = r1  r2 = r2  r3 = r3
    t1 = t1  t2 = t2
    general = general  expert = expert
    NoRun = NoRun  NoAgent = NoAgent  AnyStep = 0
    Steps = {1, 2}
    Deps <- ReversedDeps
    Tasks = {t1}
    Target <- SequentialTarget
    Runs = {r1}
    TaskOf <- SequentialTaskOf
    AgentOf <- SequentialAgents
    TaskLease = 2
    Requests = {2}
    Reports = {"completed"}
    MinTTL = 1
    MaxFence = 2
    MaxSeq = 2
    MaxWait = 0
INVARIANTS
    CompletedOnEvidence DependenciesFirst
