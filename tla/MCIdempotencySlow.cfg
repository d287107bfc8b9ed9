SPECIFICATION Spec
CONSTANTS
    h1 = h1
    h2 = h2
    Attempts = {a1, a2, a3}
    Others = {}
    HashOf <- MCHashOf
    Nobody = Nobody
    StaleAfter = 1
    RecordTTL = 3
    Prompt = FALSE
    MaxTime = 5
SYMMETRY MCSymmetry
PROPERTY SuccessReplayed
CHECK_DEADLOCK FALSE
