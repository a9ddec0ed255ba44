\* As MCRDMADispatchCloseNotify: a completion for a closed socket reaches
\* GetByHost(fd).unwrap().
CONSTANTS
    Fds = {1, 2, 3}
    W = 2
    MaxChannels = 3
    MaxEvents = 2
    QueueCap = 2
    AllowClose = TRUE
    NoFd = NoFd
    NoId = NoId
    NoChan = NoChan

SPECIFICATION Spec

INVARIANT NoPanic

CHECK_DEADLOCK FALSE
