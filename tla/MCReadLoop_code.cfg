CONSTANTS
    Length <- ShortAndLong
    MaxFrames = 2
    Timeouts = TRUE
SPECIFICATION FairReadSpec
INVARIANTS ReadInv
PROPERTIES EndEndsLoop FramesHandled
CHECK_DEADLOCK FALSE
