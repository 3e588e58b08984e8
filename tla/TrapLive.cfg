SPECIFICATION Spec
CONSTANTS
    c0 = c0
    c1 = c1
    low = low
    high = high
    Cores = {c0, c1}
    Sources = {low, high}
    NoSource = NoSource
    Priority <- TwoPriorities
    Enabled <- MixedEnables
    StartMie = {"ext", "soft"}
    MainCalls = {"ipi_send"}
    CallbackCalls = {"ipi_send"}
    MaxCalls = 1
    MaxRaises = 2
INVARIANTS
    ServedOnce
PROPERTIES
    IpiServed
    SourceServed
CHECK_DEADLOCK FALSE
