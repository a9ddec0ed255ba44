\* Two nodes, three pods, agents that disconnect, are deleted on probation
\* timeout and re-register; every received event is handled before the
\* connection is declared lost.
CONSTANTS
    n1 = n1
    n2 = n2
    Nodes <- MCNodes
    Pods = {1, 2, 3}
    PodNode <- MCPodNode
    MaxEvents = 8
    NoEntry = NoEntry

SPECIFICATION Spec

INVARIANT NoPanic
INVARIANT PodIndexConsistent
INVARIANT CacheMatchesAgent
