----------------------------- MODULE RDMAQueues -----------------------------
(***************************************************************************)
(* What the RDMA client/service transport promises its callers (spec 3,   *)
(* 4 and 5), with no bitmap, eventfd or lock: every agent has a FIFO      *)
(* submission ring and a FIFO completion ring of fixed capacity.          *)
(*   - Submit: a socket operation pushes a request, or fails at once with *)
(*     NoEnoughSpace when the ring is full (never blocks);                *)
(*   - Serve: the service takes the oldest request and may answer it with *)
(*     a completion, when there is room for one;                          *)
(*   - Consume: the client pops the oldest completion.                    *)
(* Every request submitted is eventually served and every completion      *)
(* eventually consumed. RDMASvcCli refines this module.                   *)
(***************************************************************************)
EXTENDS Naturals, Sequences

CONSTANTS Agents, QueueCap, MaxReqs, Completions

VARIABLES sq, cq, issued

qvars == <<sq, cq, issued>>

Init ==
    /\ sq = [a \in Agents |-> <<>>]
    /\ cq = [a \in Agents |-> <<>>]
    /\ issued = 0

Submit(a) ==
    /\ issued < MaxReqs
    /\ issued' = issued + 1
    /\ sq' = IF Len(sq[a]) < QueueCap
               THEN [sq EXCEPT ![a] = Append(@, "req")]
               ELSE sq
    /\ UNCHANGED cq

Serve(a) ==
    /\ sq[a] # <<>>
    /\ sq' = [sq EXCEPT ![a] = Tail(@)]
    /\ \/ UNCHANGED cq
       \/ \E c \in Completions :
            /\ Len(cq[a]) < QueueCap
            /\ cq' = [cq EXCEPT ![a] = Append(@, c)]
    /\ UNCHANGED issued

Consume(a) ==
    /\ cq[a] # <<>>
    /\ cq' = [cq EXCEPT ![a] = Tail(@)]
    /\ UNCHANGED <<sq, issued>>

Next == \E a \in Agents : Submit(a) \/ Serve(a) \/ Consume(a)

\* Neither side may leave its ring non-empty for ever.
Spec ==
    /\ Init /\ [][Next]_qvars
    /\ \A a \in Agents : WF_qvars(Serve(a)) /\ WF_qvars(Consume(a))

=============================================================================
