SPECIFICATION Spec
CONSTANTS
    c0 = c0
    c1 = c1
    low = low
    high = high
    Cores = {c0}
    Sources = {low, high}
    NoSource = NoSource
    Priority <- TwoPriorities
    Enabled <- OneEnabled
    StartMie = {"ext", "soft"}
    MainCalls = {"plic_enable"}
    CallbackCalls = {"plic_enable"}
    MaxCalls = 2
    MaxRaises = 2
INVARIANT
    EnablesAsAsked
CHECK_DEADLOCK FALSE
