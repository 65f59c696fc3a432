CONSTANTS
    Size = 4
    Decay = 1
    Resample = 4
    Draws <- MCDraws
    Percent = 3
    Whole = 4
    Resources <- CpuAndMem
    Readings <- MCReadings
    NumCPU <- MCNumCPU
    Failing = {"cpu"}
    Interval = {1}
    MaxTime = 6
SPECIFICATION Spec
INVARIANTS MonitorInv
PROPERTIES SamplingSpec HookCurrent
CHECK_DEADLOCK FALSE
