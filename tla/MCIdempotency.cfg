SPECIFICATION Spec
CONSTANTS
    h1 = h1
    h2 = h2
    Attempts = {a1, a2, a3, b1}
    Others = {b1}
    HashOf <- MCHashOf
    Nobody = Nobody
    StaleAfter = 1
    RecordTTL = 3
    Prompt = TRUE
    MaxTime = 5
SYMMETRY MCSymmetry
INVARIANTS TypeOK ReplayFaithful AtMostOnce
PROPERTY SuccessReplayed
CHECK_DEADLOCK FALSE
