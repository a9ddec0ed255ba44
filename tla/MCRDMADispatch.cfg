\* Three fds and a 2-bit RDMA id counter (ids 0..3): every fd is registered
\* or accepted at most once, so ids are never reused. No close.
CONSTANTS
    Fds = {1, 2, 3}
    W = 2
    MaxChannels = 3
    MaxEvents = 2
    QueueCap = 2
    AllowClose = FALSE
    NoFd = NoFd
    NoId = NoId
    NoChan = NoChan

SPECIFICATION Spec

INVARIANT TypeOK
INVARIANT NoPanic
INVARIANT MappingsConsistent

PROPERTY ConnectCompletes

\* Once the id, channel and event budgets are spent and the ring is
\* drained, nothing is left to do.
CHECK_DEADLOCK FALSE
