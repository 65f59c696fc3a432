CONSTANTS
    a = a
    b = b
    c = c
    x = x
    Project <- ThreePackages
    Others <- OneOther
    Graphs <- AllGraphs
SPECIFICATION FairSpec
INVARIANTS SortedSoFar ImportsAvailable CyclesReported IInv
PROPERTY BuildEnds
CHECK_DEADLOCK FALSE
