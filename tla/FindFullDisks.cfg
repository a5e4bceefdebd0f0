SPECIFICATION FairSpec
CONSTANTS
    MaxParallel = 2
    Documents <- MCDocuments
    CapStep = 2
    StdoutCap = 3
    MaxOutput = 3
    MaxFaults = 1
INVARIANTS
    ParallelLimit
    VisitedInOrder
PROPERTIES
    PointersStayValid
    EveryDeviceVisited
