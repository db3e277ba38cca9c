CONSTANTS
    Ids <- MCIds
    Extends <- MCExtends
    Subjects <- MCSubjects
    Deviating <- MCDeviating
    Straying <- MCStraying
    NeverReconnecting <- MCNeverReconnecting
    GivingUp <- MCGivingUp
    MaxFaults = 3
SPECIFICATION Spec
INVARIANT ChartsFollow
INVARIANT NoClientStrays
PROPERTY Recovers
