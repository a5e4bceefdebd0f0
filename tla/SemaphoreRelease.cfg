SPECIFICATION FairSpec
CONSTANTS
    Thread = {t1, t2}
    Permits = 1
    Ops = {"acquireUninterruptibly", "release"}
    MaxExtra = 0
    MaxTraffic = 3
PROPERTIES
    ReleaseGetsThrough
\* A thread that waits for permits keeps the monitor: nobody else gets on.
CHECK_DEADLOCK FALSE
