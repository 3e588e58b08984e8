SPECIFICATION Spec
CONSTANTS
    c0 = c0
    c1 = c1
    Nobody = Nobody
    Cores = {c0, c1}
    IsrCores = {c0}
    IsrCalls = {"free"}
    BrkCores = {c1}
    Size = 5
    Lengths = {1, 2}
    MaxCalls = 5
INVARIANTS
    TagsAreBlocks
    LineBelowBlocks
PROPERTY
    ImplementsSharedHeap
CHECK_DEADLOCK FALSE
