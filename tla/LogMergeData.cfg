SPECIFICATION RefSpec
CONSTANTS
    NumSources = 2
    EnvCap = 1
    PoolCap = 2
    InitCap = 3
    GrowBy = 2
    MaxEntry = 12
    MaxFaults = 0
    Headers <- MCHeaders
    Inputs <- RefInputs
INVARIANTS
    NoAbort
    BufferInv
    OverlapsMerge
    NothingLost
    ChronologicalOutput
PROPERTY
    ImplementsMerge
