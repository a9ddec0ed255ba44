\* Wake protocol with every mapping lookup succeeding.
CONSTANTS
    a1 = a1
    a2 = a2
    t1 = t1
    t2 = t2
    
    NoThread = NoThread
    Agents <- MCAgents
    Threads <- MCThreads
    AgentOf <- MCAgentOf
    QueueCap = 2
    MaxReqs = 3
    AllowMiss = FALSE

SPECIFICATION Spec

INVARIANT TypeOK
INVARIANT SvcNoLostWakeup
INVARIANT CliNoLostWakeup

PROPERTY ImplementsRDMAQueues

\* When every thread has issued its requests, the service and both
\* drainers block on their eventfds for good: the system may stop.
CHECK_DEADLOCK FALSE
