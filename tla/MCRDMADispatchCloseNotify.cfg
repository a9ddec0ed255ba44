\* The application may close a socket while completions for its channel are
\* queued; the mapping tables keep the closed socket's entries.
CONSTANTS
    Fds = {1, 2, 3}
    W = 2
    MaxChannels = 3
    MaxEvents = 2
    QueueCap = 2
    AllowClose = TRUE
    NoFd = NoFd
    NoId = NoId
    NoChan = NoChan

SPECIFICATION Spec

INVARIANT NotifyReachesOwner

CHECK_DEADLOCK FALSE
