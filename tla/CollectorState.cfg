CONSTANTS
    maxEOF = 3
    Parsers = {"json", "text"}
    MaxUnits = 6
    MaxRotations = 2
    Kinds = {"pod", "node"}
    MaxChanges = 2
SPECIFICATION MCSpec
INVARIANT OwedIsAhead
PROPERTY InOrderOnce CatchesUp ChartsFollowCluster GoroutinesReturn
CHECK_DEADLOCK FALSE
