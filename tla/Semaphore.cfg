SPECIFICATION FairSpec
CONSTANTS
    Thread = {t1, t2}
    Permits = 2
    Ops = {"acquire", "acquireUninterruptibly", "tryAcquireTimed", "tryAcquire", "drainPermits", "release"}
    MaxExtra = 0
    MaxTraffic = 3
PROPERTIES
    NoFalseAlarm
    LeakReported
\* A thread that waits for permits keeps the monitor: nobody else gets on.
CHECK_DEADLOCK FALSE
