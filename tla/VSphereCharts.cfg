CONSTANTS
    Ids <- MCIds
    Extends <- MCExtends
    Subjects <- MCVSphere
    Deviating <- MCDeviating
    Straying <- MCStraying
    NeverReconnecting <- MCNeverReconnecting
    GivingUp <- MCGivingUp
    MaxFaults = 3
SPECIFICATION Spec
INVARIANT EveryChartFollows
