\* Two holders and two challengers; requests of the first challenger and of
\* whoever crashes may come late.
CONSTANTS
    h1 = h1
    h2 = h2
    c1 = c1
    c2 = c2
    Holders <- TwoHolders
    Challengers <- TwoChallengers
    Proc <- MCProc
    Flaky <- OneChallenger
    Period = 3
    Poll = 1
    MaxAttempts = 2
    Lag = 0
    MaxCalls = 1
    MaxLate = 1
SPECIFICATION LateFairSpec
INVARIANTS LateCASHarmless
PROPERTIES ChallengesReturn InvalidatedHolderStops InvalidationIsFinal
