SPECIFICATION Spec
CONSTANTS
    c0 = c0
    c1 = c1
    Nobody = Nobody
    Cores = {c0, c1}
    IsrCores = {}
    IsrCalls = {}
    BrkCores = {c1}
    Size = 4
    Lengths = {1, 2}
    MaxCalls = 3
PROPERTY
    BrkReturns
CHECK_DEADLOCK FALSE
