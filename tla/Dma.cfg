SPECIFICATION FairSpec
CONSTANTS
    c0 = c0
    c1 = c1
    Cores = {c0, c1}
    Calls <- MCCalls
    CallbackModes = {"sync", "async"}
    TakeTurns = TRUE
    MaxTransfers = 4
    MaxAborts = 1
    MaxOthers = 1
INVARIANTS BufferLive QuietWhenFree ToldOnceWhenDone
PROPERTIES TransferEnds
CHECK_DEADLOCK FALSE
