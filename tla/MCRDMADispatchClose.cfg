\* As MCRDMADispatch, with the application closing fds: a closed fd can be
\* registered again under a fresh RDMA id while completions for its old id
\* and channel are still queued. At most two ids are handed out, so the
\* 2-bit counter does not wrap.
CONSTANTS
    Fds = {1, 2}
    W = 2
    MaxChannels = 2
    MaxEvents = 1
    QueueCap = 2
    AllowClose = TRUE
    NoFd = NoFd
    NoId = NoId
    NoChan = NoChan

SPECIFICATION Spec

PROPERTY ConnectResolves

\* Once the id, channel and event budgets are spent and the ring is
\* drained, or after an abort, nothing is left to do.
CHECK_DEADLOCK FALSE
