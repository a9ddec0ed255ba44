\* Both builds, feature "cc" and the default: one thread allocates first
\* and spawns the other two; three blocks per region, so blocks held by
\* several threads exhaust a region and reach the OOM handler. Under cc the
\* VM launch moves allocation to the shared heap while blocks are out.
CONSTANTS
    t1 = t1
    t2 = t2
    t3 = t3
    Threads <- MCThreads
    InitialThreads = {t1}
    BlocksPer = 3
    Builds = {TRUE, FALSE}

SPECIFICATION Spec

INVARIANT TypeOK
INVARIANT DeallocRoutedHome

\* The process stops only at the OOM panic, which ends every thread.
CHECK_DEADLOCK FALSE
