\* Two challengers in each other's way.
CONSTANTS
    h1 = h1
    h2 = h2
    c1 = c1
    c2 = c2
    Holders <- TwoHolders
    Challengers <- TwoChallengers
    Proc <- MCProc
    Flaky <- Nobody
    Period = 7
    Poll = 1
    MaxAttempts = 6
    Lag = 0
    MaxCalls = 1
SPECIFICATION Spec
PROPERTIES OnlyDefeatedLeaseRemoved
