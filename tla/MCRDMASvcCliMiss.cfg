\* Wake protocol when a completion's mapping lookup can miss: the `break`
\* of ProcessRDMASvcMessage ends the pass with completions still queued.
CONSTANTS
    a1 = a1
    a2 = a2
    t1 = t1
    t2 = t2
    NoThread = NoThread
    Agents <- MCAgents
    Threads <- MCThreads
    AgentOf <- MCAgentOf
    QueueCap = 2
    MaxReqs = 3
    AllowMiss = TRUE

SPECIFICATION Spec

INVARIANT CliNoLostWakeup

CHECK_DEADLOCK FALSE
