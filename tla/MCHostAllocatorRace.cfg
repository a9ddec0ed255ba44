\* Default build with two threads running before the first allocation
\* (threads not created through the Rust allocator).
CONSTANTS
    t1 = t1
    t2 = t2
    t3 = t3
    Threads <- MCThreads
    InitialThreads = {t1, t2}
    BlocksPer = 2
    Builds = {FALSE}

SPECIFICATION Spec

INVARIANT NoOverlap

\* The process stops only at the OOM panic, which ends every thread.
CHECK_DEADLOCK FALSE
