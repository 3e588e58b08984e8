SPECIFICATION FairSpec
CONSTANTS
    Cores = {c0, c1}
    Core0 = c0
    Locks = {l1, l2, l3}
    NoLock = NoLock
    NSlots = 2
    MaxCalls = 2
    MaxHeld = 2
INVARIANTS
    NoOrphanWord
    OneSlotPerLock
    SlotIsNesting
PROPERTIES
    ImplementsRecursiveLock
    StuckOnlyOnFirstSlot
\* Clients that nest locks really deadlock on the first slot's counter.
CHECK_DEADLOCK FALSE
