SPECIFICATION Spec
CONSTANTS
    NDevices = 2
    Used <- PairAndOne
    Unregisters <- One
    CallbackCalls = {"disable", "unregister", "enable"}
    MaxCalls = 6
    MaxTicks = 2
INVARIANTS ServedWhileRegistered TickNotLost SingleShotOnce
PROPERTY TickAnswered
CHECK_DEADLOCK FALSE
