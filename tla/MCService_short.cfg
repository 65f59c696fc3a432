CONSTANTS
    MaxLen = 2
    MaxFrames = 2
SPECIFICATION Spec
INVARIANT FramesInOrder
CHECK_DEADLOCK FALSE
