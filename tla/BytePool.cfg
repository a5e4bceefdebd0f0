SPECIFICATION FairSpec
CONSTANTS
    Thread = {t1, t2}
    Handle = {h1, h2}
    PoolSize = 3
    MaxInt = 4
    Requests <- MCRequests
    Lengths <- MCLengths
INVARIANTS
    TypeOK
    Conservation
    CloseThrowsOnDebtOnly
PROPERTIES
    AmountOnlyShrinks
    ImplementsPool
    CallsReturn
