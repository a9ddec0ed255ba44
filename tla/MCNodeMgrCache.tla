---------------------------- MODULE MCNodeMgrCache ----------------------------
EXTENDS NodeMgrCache, TLC

CONSTANTS n1, n2

MCNodes == {n1, n2}

\* Pods 1 and 2 go to n1, pod 3 to n2.
MCPodNode == (1 :> n1) @@ (2 :> n1) @@ (3 :> n2)
=============================================================================
