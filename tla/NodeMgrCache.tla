----------------------------- MODULE NodeMgrCache -----------------------------
(***************************************************************************)
(* The node manager's cache of src/qserverless/src/node_mgr/nm_store.rs:   *)
(* NodeMgrCacheInner (the node and pod Cachers, nodePods, nodeAgents, the  *)
(* probation maps) behind one RwLock, and the handlers that change it:     *)
(* RegisterNodeAgentClient (with RefreshNode), ProcessPodEvent,             *)
(* ProcessNodeUpdate, DeleteNode and CreatePod. Every handler runs under   *)
(* the write lock, so each is one atomic step.                            *)
(*                                                                         *)
(* A Cacher is the set of keys it holds (qobjs::cacher is not under src/:  *)
(* ProcessEvent Added/Modified inserts the key, Deleted removes it, and    *)
(* Refresh(objs) inserts the listed objects).                               *)
(*                                                                         *)
(* The node agents and the node manager's connection handling are not     *)
(* under src/: each node agent owns the pods placed on its node, reports   *)
(* every change of them as a pod event on its stream while connected, and  *)
(* sends its full pod list when it (re)registers. A lost connection puts   *)
(* the node on probation; when probation times out the node is deleted.    *)
(* Every event received on a connection is handled before the connection *)
(* is declared lost.                                                       *)
(***************************************************************************)
EXTENDS Naturals, Sequences, FiniteSets

CONSTANTS
    Nodes,       \* node keys
    Pods,        \* pod keys: naturals, iterated in BTreeSet order
    PodNode,     \* PodNode[p]: the node pod p is placed on
    MaxEvents,   \* bound on pod events the agents generate
    NoEntry      \* no nodePods entry for a node

ASSUME /\ Pods \subseteq Nat
       /\ PodNode \in [Pods -> Nodes]
       /\ MaxEvents \in Nat

EventTypes == {"Add", "Delete", "Update"}
Event == [type : EventTypes, pod : Pods]
NodeUpdateMsg == [type : {"NodeUpdate"}]

VARIABLES
    nodes,       \* keys in the node Cacher
    pods,        \* keys in the pod Cacher
    nodePods,    \* nodePods[n]: the BTreeSet of n's pod keys, or NoEntry
    nodeAgents,  \* nodes with a NodeAgentClient
    probation,   \* nodes in probationNodesMap (and probationNodes)
    agentPods,   \* agentPods[n]: the pods node n's agent runs
    conn,        \* conn[n]: "down", "up" or "lost"
    stream,      \* stream[n]: pod events and node updates received from n,
                 \* not yet handled
    sent,        \* pod events generated so far
    panicked     \* an assert! or unwrap() failed

cacheVars == <<nodes, pods, nodePods, nodeAgents, probation>>
envVars == <<agentPods, conn, stream, sent>>
vars == <<cacheVars, envVars, panicked>>

TypeOK ==
    /\ nodes \subseteq Nodes
    /\ pods \subseteq Pods
    /\ nodePods \in [Nodes -> SUBSET Pods \cup {NoEntry}]
    /\ nodeAgents \subseteq Nodes
    /\ probation \subseteq Nodes
    /\ agentPods \in [Nodes -> SUBSET Pods]
    /\ conn \in [Nodes -> {"down", "up", "lost"}]
    /\ stream \in [Nodes -> Seq(Event \cup NodeUpdateMsg)]
    /\ sent \in 0..MaxEvents
    /\ panicked \in BOOLEAN

\* NodeMgrCache::New: empty maps and empty node and pod Cachers.
Init ==
    /\ nodes = {} /\ pods = {}
    /\ nodePods = [n \in Nodes |-> NoEntry]
    /\ nodeAgents = {} /\ probation = {}
    /\ agentPods = [n \in Nodes |-> {}]
    /\ conn = [n \in Nodes |-> "down"]
    /\ stream = [n \in Nodes |-> <<>>]
    /\ sent = 0
    /\ panicked = FALSE

\* An assert! or unwrap() fails: the handler task panics.
Panic ==
    /\ panicked' = TRUE
    /\ UNCHANGED <<cacheVars, envVars>>

-----------------------------------------------------------------------------
(* Handlers of NodeMgrCache                                                 *)

\* Mutant of RefreshNode: nodePods[n] merged with the old set instead of
\* replaced by the registered list.
RefreshNodeMerge(n, list) ==
    /\ pods' = pods \cup list
    /\ nodePods' = [nodePods EXCEPT ![n] =
                        IF @ = NoEntry THEN list ELSE @ \cup list]
    /\ nodes' = nodes \cup {n}

\* Mutant of RefreshNode: the nodePods.insert of the node's set is lost.
RefreshNodeNoIndex(n, list) ==
    /\ pods' = pods \cup list
    /\ UNCHANGED nodePods
    /\ nodes' = nodes \cup {n}

\* NodeMgrCacheInner::RefreshNode: pods.Refresh(podObjs), nodePods.insert
\* of the node's full set, then the node Added or Modified in the node
\* Cacher (either way the key is present).
RefreshNode(n, list) ==
    /\ pods' = pods \cup list
    /\ nodePods' = [nodePods EXCEPT ![n] = list]
    /\ nodes' = nodes \cup {n}

\* RegisterNodeAgentClient: end any probation, keep the client, refresh the
\* node with the pod list the agent sent.
RegisterNodeAgentClient(n) ==
    /\ ~panicked
    /\ conn[n] \in {"down", "lost"}
    /\ stream[n] = <<>>
    /\ probation' = probation \ {n}
    /\ nodeAgents' = nodeAgents \cup {n}
    /\ RefreshNode(n, agentPods[n])
    /\ conn' = [conn EXCEPT ![n] = "up"]
    /\ UNCHANGED <<agentPods, stream, sent, panicked>>

\* Mutant of ProcessPodEvent: a Delete leaves the key in nodePods.
ProcessPodEventKeepDeleted(n) ==
    LET e == Head(stream[n]) IN
    /\ ~panicked
    /\ stream[n] # <<>>
    /\ e.type \in EventTypes
    /\ IF nodePods[n] = NoEntry \/ (e.type = "Add") = (e.pod \in nodePods[n])
          THEN Panic
          ELSE /\ stream' = [stream EXCEPT ![n] = Tail(@)]
               /\ CASE e.type = "Add" ->
                         /\ nodePods' = [nodePods EXCEPT ![n] = @ \cup {e.pod}]
                         /\ pods' = pods \cup {e.pod}
                    [] e.type = "Delete" ->
                         /\ pods' = pods \ {e.pod}
                         /\ UNCHANGED nodePods
                    [] OTHER -> UNCHANGED <<nodePods, pods>>
               /\ UNCHANGED <<nodes, nodeAgents, probation, agentPods, conn,
                              sent, panicked>>

\* ProcessPodEvent: nodePods.get(nodeKey).unwrap() fails when the node has
\* no entry; Add asserts the pod is not yet in the node's set, Delete and
\* Update assert it is; then the set and the pod Cacher are updated.
ProcessPodEvent(n) ==
    LET e == Head(stream[n]) IN
    /\ ~panicked
    /\ stream[n] # <<>>
    /\ e.type \in EventTypes
    /\ IF nodePods[n] = NoEntry \/ (e.type = "Add") = (e.pod \in nodePods[n])
          THEN Panic
          ELSE /\ stream' = [stream EXCEPT ![n] = Tail(@)]
               /\ CASE e.type = "Add" ->
                         /\ nodePods' = [nodePods EXCEPT ![n] = @ \cup {e.pod}]
                         /\ pods' = pods \cup {e.pod}
                    [] e.type = "Delete" ->
                         /\ nodePods' = [nodePods EXCEPT ![n] = @ \ {e.pod}]
                         /\ pods' = pods \ {e.pod}
                    [] OTHER -> UNCHANGED <<nodePods, pods>>
               /\ UNCHANGED <<nodes, nodeAgents, probation, agentPods, conn,
                              sent, panicked>>

\* ProcessNodeUpdate: asserts the node Cacher holds the node, then
\* processes a Modified event (the key stays).
ProcessNodeUpdate(n) ==
    /\ ~panicked
    /\ stream[n] # <<>>
    /\ Head(stream[n]).type = "NodeUpdate"
    /\ IF n \notin nodes THEN Panic
       ELSE /\ stream' = [stream EXCEPT ![n] = Tail(@)]
            /\ UNCHANGED <<cacheVars, agentPods, conn, sent, panicked>>

\* DeleteNode: remove n's nodePods entry, then a Deleted event for each of
\* its pods in key order; a pod missing from the pod Cacher returns Err
\* there, leaving the later pods in the Cacher. nodeAgents and the node
\* Cacher keep the node.
DeleteNode(n) ==
    LET set == IF nodePods[n] = NoEntry THEN {} ELSE nodePods[n]
        missing == set \ pods
        done == IF missing = {} THEN set
                ELSE {p \in set : \A q \in missing : p < q}
    IN
    /\ nodePods' = [nodePods EXCEPT ![n] = NoEntry]
    /\ pods' = pods \ done

\* CreatePod: a node without a NodeAgentClient is an Err; otherwise the
\* client's CreatePod reaches the agent when its connection is up, and the
\* agent starts the pod and reports it.
CreatePod(n, p) ==
    /\ ~panicked
    /\ PodNode[p] = n
    /\ p \notin agentPods[n]
    /\ n \in nodeAgents
    /\ conn[n] = "up"
    /\ sent < MaxEvents
    /\ agentPods' = [agentPods EXCEPT ![n] = @ \cup {p}]
    /\ stream' = [stream EXCEPT ![n] = Append(@, [type |-> "Add", pod |-> p])]
    /\ sent' = sent + 1
    /\ UNCHANGED <<cacheVars, conn, panicked>>

-----------------------------------------------------------------------------
(* Node agents and connection handling (outside src/)                      *)

\* The agent stops a pod or updates it; while connected it reports this.
AgentPodChange(n, p, type) ==
    /\ ~panicked
    /\ p \in agentPods[n]
    /\ sent < MaxEvents
    /\ sent' = sent + 1
    /\ agentPods' = [agentPods EXCEPT ![n] =
                        IF type = "Delete" THEN @ \ {p} ELSE @]
    /\ stream' = IF conn[n] = "up"
                    THEN [stream EXCEPT ![n] = Append(@, [type |-> type, pod |-> p])]
                    ELSE stream
    /\ UNCHANGED <<cacheVars, conn, panicked>>

\* The agent reports a change of its node object.
AgentNodeUpdate(n) ==
    /\ ~panicked
    /\ conn[n] = "up"
    /\ sent < MaxEvents
    /\ sent' = sent + 1
    /\ stream' = [stream EXCEPT ![n] = Append(@, [type |-> "NodeUpdate"])]
    /\ UNCHANGED <<cacheVars, agentPods, conn, panicked>>

\* The connection to n's agent is lost: the node goes on probation.
\* Every event received on it has been handled by then.
Disconnect(n) ==
    /\ ~panicked
    /\ conn[n] = "up"
    /\ stream[n] = <<>>
    /\ conn' = [conn EXCEPT ![n] = "lost"]
    /\ probation' = probation \cup {n}
    /\ UNCHANGED <<nodes, pods, nodePods, nodeAgents, agentPods, stream,
                   sent, panicked>>

\* Probation times out: the node leaves probation and DeleteNode runs.
ProbationTimeout(n) ==
    /\ ~panicked
    /\ n \in probation
    /\ conn[n] = "lost"
    /\ probation' = probation \ {n}
    /\ DeleteNode(n)
    /\ conn' = [conn EXCEPT ![n] = "down"]
    /\ UNCHANGED <<nodes, nodeAgents, agentPods, stream, sent, panicked>>

Next ==
    \/ \E n \in Nodes :
         \/ RegisterNodeAgentClient(n)
         \/ ProcessPodEvent(n)
         \/ ProcessNodeUpdate(n)
         \/ AgentNodeUpdate(n)
         \/ Disconnect(n)
         \/ ProbationTimeout(n)
    \/ \E p \in Pods :
         \/ CreatePod(PodNode[p], p)
         \/ \E t \in {"Delete", "Update"} : AgentPodChange(PodNode[p], p, t)

\* The node manager's task for a connection handles every message it has
\* received, and the probation timer of a lost node fires; the agents and
\* the connections themselves may stop at any time.
Fairness ==
    \A n \in Nodes :
        /\ WF_vars(ProcessPodEvent(n))
        /\ WF_vars(ProcessNodeUpdate(n))
        /\ WF_vars(ProbationTimeout(n))

Spec == Init /\ [][Next]_vars /\ Fairness

-----------------------------------------------------------------------------
(* Properties                                                              *)

\* No handler task panics: ProcessPodEvent never finds the node without a
\* nodePods entry, an Add for a pod already there, or a Delete/Update for a
\* pod that is not, and ProcessNodeUpdate always finds the node cached.
NoPanic == ~panicked

\* Every pod nodePods lists for a node is in the pod Cacher, so DeleteNode
\* never takes its "inconsistent pods set" Err path and leaves no pod of a
\* deleted node behind.
PodIndexConsistent ==
    \A n \in Nodes : nodePods[n] # NoEntry => nodePods[n] \subseteq pods

\* Once a connected node's received events are all handled, the cache's
\* view of the node (nodePods) is exactly the pods its agent runs: the full
\* list of RegisterNodeAgentClient and the later pod events compose.
CacheMatchesAgent ==
    \A n \in Nodes :
        (conn[n] = "up" /\ stream[n] = <<>>) => nodePods[n] = agentPods[n]

\* A node whose agent connection is lost either re-registers or, once
\* probation times out, has DeleteNode take its pods out of the pod Cacher:
\* no pod of a gone node stays in the cache for ever. DeleteNode removes
\* only the pods nodePods lists, so this needs RegisterNodeAgentClient's
\* RefreshNode to keep every cached pod of the node listed there.
LostNodeCleared ==
    \A n \in Nodes :
        conn[n] = "lost" ~>
            \/ conn[n] = "up"
            \/ nodePods[n] = NoEntry /\ \A p \in Pods : PodNode[p] = n => p \notin pods
            \/ panicked

=============================================================================
