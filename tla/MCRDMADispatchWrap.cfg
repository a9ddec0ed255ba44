\* A 1-bit nextRDMAId (ids 0..1) and three sockets: the counter wraps while
\* every id it handed out is still mapped. No close.
CONSTANTS
    Fds = {1, 2, 3}
    W = 1
    MaxChannels = 3
    MaxEvents = 2
    QueueCap = 2
    AllowClose = FALSE
    NoFd = NoFd
    NoId = NoId
    NoChan = NoChan

SPECIFICATION Spec

INVARIANT MappingsConsistent

CHECK_DEADLOCK FALSE
