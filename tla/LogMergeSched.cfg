SPECIFICATION Spec
CONSTANTS
    NumSources = 4
    EnvCap = 1
    PoolCap = 1
    InitCap = 2
    GrowBy = 1
    MaxEntry = 9
    MaxFaults = 0
    Headers <- MCHeaders
    Inputs <- SchedInputs
INVARIANTS
    LoopOwnsBuffers
    LoopNeverBlocksOnItself
    NoWaitCycle
    BatchInv
