\* Two nodes, three pods, 4 events: an agent stops a pod while its connection is down,
\* re-registers with the shorter list, and later times out on probation.
CONSTANTS
    n1 = n1
    n2 = n2
    Nodes <- MCNodes
    Pods = {1, 2, 3}
    PodNode <- MCPodNode
    MaxEvents = 4
    NoEntry = NoEntry

SPECIFICATION Spec

PROPERTY LostNodeCleared
