SPECIFICATION Spec
CONSTANTS
    c0 = c0
    c1 = c1
    low = low
    high = high
    Cores = {c0}
    Sources = {low, high}
    NoSource = NoSource
    Priority <- TwoPriorities
    Enabled <- PrivateEnables
    StartMie = {"ext", "soft"}
    MainCalls = {"ipi_send", "ipi_enable", "ipi_disable", "timer_start", "timer_stop", "plic_enable", "plic_disable", "disable_irq", "enable_irq"}
    CallbackCalls = {"ipi_send"}
    MaxCalls = 3
    MaxRaises = 4
INVARIANTS
    NestingOrder
    PriorityNesting
    MaskRestored
CHECK_DEADLOCK FALSE
