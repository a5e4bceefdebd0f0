SPECIFICATION FairSpec
CONSTANTS
    NumSources = 2
    EnvCap = 1
    PoolCap = 1
    InitCap = 2
    GrowBy = 1
    MaxEntry = 4
    MaxFaults = 1
    Headers <- MCHeaders
    Inputs <- FaultInputs
PROPERTIES
    NothingWrittenAfterFailure
    ComesToRest
    Terminates
\* A refill that gives up keeps its await token: runUntilDone() never returns.
CHECK_DEADLOCK FALSE
