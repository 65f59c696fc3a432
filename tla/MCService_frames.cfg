CONSTANTS
    MaxLen = 1
    MaxFrames = 3
SPECIFICATION FairSpec
INVARIANTS ServiceInv
PROPERTIES EndEndsHandler FramesTakenUp
CHECK_DEADLOCK FALSE
