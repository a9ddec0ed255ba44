\* Two threads drain the completion queue of one client while the service
\* pushes up to two completions on one descriptor.
CONSTANTS
    d1 = d1
    d2 = d2
    f1 = f1
    NoOwner = NoOwner
    Drainers <- MCDrainers
    Fds <- MCFds
    MaxMsgs = 2

SPECIFICATION Spec

INVARIANT NoLockCycle

\* Once the service has pushed its completions and they are handled, every
\* drainer waits at the loop head.
CHECK_DEADLOCK FALSE
