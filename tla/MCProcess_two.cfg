\* Two goroutines, two calls each, a stack of three Fires.
CONSTANTS
    g1 = g1
    g2 = g2
    Nobody = Nobody
    Goroutines <- TwoGoroutines
    MaxCalls = 2
    MaxDepth = 3
SPECIFICATION FairSpec
INVARIANTS IInv UniqueIDs FailureReported InstalledAlive OneWorker
PROPERTIES CallsReturn
CHECK_DEADLOCK FALSE
