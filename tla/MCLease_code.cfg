\* The ratios of the code: period = 7 polls, six errors, no lag.
CONSTANTS
    h1 = h1
    h2 = h2
    c1 = c1
    c2 = c2
    Holders <- TwoHolders
    Challengers <- OneChallenger
    Proc <- MCProc
    Flaky <- MCProc
    Period = 7
    Poll = 1
    MaxAttempts = 6
    Lag = 0
    MaxCalls = 2
SPECIFICATION Spec
INVARIANTS MutualExclusion SafeToProceed IInv
PROPERTIES OnlyDefeatedLeaseRemoved LockSpec
SYMMETRY Symmetry
