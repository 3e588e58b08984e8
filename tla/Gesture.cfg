SPECIFICATION FairSpec
CONSTANTS Core1Late = FALSE
INVARIANTS FrameKept TargetsWhole Core1Called
PROPERTIES FramesShown
