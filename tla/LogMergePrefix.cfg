SPECIFICATION RefSpec
CONSTANTS
    NumSources = 2
    EnvCap = 1
    PoolCap = 1
    InitCap = 4
    GrowBy = 2
    MaxEntry = 12
    MaxFaults = 0
    Headers <- MCHeaders
    Inputs <- PrefixInputs
INVARIANT
    EveryTextWritten
