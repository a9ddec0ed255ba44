---------------------------- MODULE RDMADrainLocks ----------------------------
(***************************************************************************)
(* The locks ProcessRDMASvcMessage (src/qlib/rdma_svc_cli.rs) takes, with *)
(* several threads draining the completion queue at once (spec 5: threads *)
(* and agents run concurrently, each issuing socket operations and        *)
(* draining completions).                                                  *)
(*                                                                         *)
(* Every loop iteration pops one completion under the cliShareRegion lock  *)
(* ("share"), then takes the locks of its match arm in the order of the    *)
(* code and holds the guards bound with `let` to the end of the arm; a    *)
(* lock used in a single statement (a `.lock().insert(..)`) is taken and  *)
(* dropped in one step. The sockInfo cell locks are leaves (nothing is    *)
(* locked while one is held) and are left out. The new descriptor an      *)
(* Accept installs is fresh and no other thread can hold its lock, so it  *)
(* is left out too. Lookups succeed: a miss `break`s out of the arm and   *)
(* only drops locks earlier. DrainCompletionQueue's two clientBitmap      *)
(* stores also take "share" for one statement, like a pop.                *)
(***************************************************************************)
EXTENDS Naturals, Sequences, Relation

CONSTANTS
    Drainers,   \* threads running DrainCompletionQueue
    Fds,        \* descriptors completions refer to
    MaxMsgs,    \* completions the service pushes in all
    NoOwner

Kinds == {"RDMAConnect", "RDMAAccept", "RDMANotify", "RDMAFinNotify"}
Msgs == [kind : Kinds, fd : Fds]

\* The fd lock is the descriptor's FdInfo mutex; "acceptQueue" is the
\* listening socket's backlog mutex.
Locks == {"share", "rdmaId", "channel", "acceptQueue"} \cup Fds

ASSUME /\ MaxMsgs \in Nat
       /\ NoOwner \notin Drainers
       /\ {"share", "rdmaId", "channel", "acceptQueue"} \cap Fds = {}

VARIABLES
    cq,      \* the completion ring
    pc,      \* pc[d]: "pop" at the loop head, "arm" inside a match arm
    msg,     \* msg[d]: the completion drainer d is handling
    step,    \* step[d]: the next lock of its arm
    owner,   \* owner[l]: the drainer holding lock l
    pushed   \* completions pushed so far

vars == <<cq, pc, msg, step, owner, pushed>>

\* The lock sequence of each match arm: `hold` is FALSE for a guard dropped
\* at the end of its statement.
Acq(l) == [lock |-> l, hold |-> TRUE]
Tmp(l) == [lock |-> l, hold |-> FALSE]

Plan(m) ==
    CASE m.kind = "RDMAConnect" ->
           <<Acq("rdmaId"), Acq(m.fd), Acq("share"), Tmp("channel")>>
      [] m.kind = "RDMAAccept" ->
           <<Acq("rdmaId"), Acq(m.fd), Acq("share"), Tmp("acceptQueue"),
             Tmp("channel")>>
      [] OTHER ->
           <<Acq("channel"), Acq("rdmaId"), Acq(m.fd)>>

TypeOK ==
    /\ cq \in Seq(Msgs)
    /\ pc \in [Drainers -> {"pop", "arm"}]
    /\ msg \in [Drainers -> Msgs]
    /\ step \in [Drainers -> 1..6]
    /\ owner \in [Locks -> Drainers \cup {NoOwner}]
    /\ pushed \in 0..MaxMsgs

Init ==
    /\ cq = <<>>
    /\ pc = [d \in Drainers |-> "pop"]
    /\ msg = [d \in Drainers |-> CHOOSE m \in Msgs : TRUE]
    /\ step = [d \in Drainers |-> 1]
    /\ owner = [l \in Locks |-> NoOwner]
    /\ pushed = 0

Free(l) == owner[l] = NoOwner

\* `self.cliShareRegion.lock().cq.Pop()`: the guard is a temporary, so
\* "share" is dropped again at the end of the statement.
Pop(d) ==
    /\ pc[d] = "pop"
    /\ Free("share")
    /\ cq # <<>>
    /\ msg' = [msg EXCEPT ![d] = Head(cq)]
    /\ cq' = Tail(cq)
    /\ step' = [step EXCEPT ![d] = 1]
    /\ pc' = [pc EXCEPT ![d] = "arm"]
    /\ UNCHANGED <<owner, pushed>>

\* The next lock of the arm: the thread spins until it is free.
Acquire(d) ==
    LET s == Plan(msg[d])[step[d]] IN
    /\ pc[d] = "arm"
    /\ step[d] <= Len(Plan(msg[d]))
    /\ Free(s.lock)
    /\ owner' = IF s.hold THEN [owner EXCEPT ![s.lock] = d] ELSE owner
    /\ step' = [step EXCEPT ![d] = @ + 1]
    /\ UNCHANGED <<cq, pc, msg, pushed>>

\* The end of the arm drops every guard it bound; the loop goes on.
Finish(d) ==
    /\ pc[d] = "arm"
    /\ step[d] > Len(Plan(msg[d]))
    /\ owner' = [l \in Locks |-> IF owner[l] = d THEN NoOwner ELSE owner[l]]
    /\ pc' = [pc EXCEPT ![d] = "pop"]
    /\ UNCHANGED <<cq, msg, step, pushed>>

\* The RDMA service pushes a completion (modelled from the spec).
SvcPush(m) ==
    /\ pushed < MaxMsgs
    /\ pushed' = pushed + 1
    /\ cq' = Append(cq, m)
    /\ UNCHANGED <<pc, msg, step, owner>>

Next ==
    \/ \E d \in Drainers : Pop(d) \/ Acquire(d) \/ Finish(d)
    \/ \E m \in Msgs : SvcPush(m)

Spec == Init /\ [][Next]_vars

-----------------------------------------------------------------------------

\* d waits for e: d is inside an arm and the next lock it needs is e's.
WaitsFor ==
    [p \in Drainers \X Drainers |->
        LET d == p[1] IN
        /\ pc[d] = "arm"
        /\ step[d] <= Len(Plan(msg[d]))
        /\ owner[Plan(msg[d])[step[d]].lock] = p[2]]

\* No set of drainers waits on each other in a cycle: the match arms of
\* ProcessRDMASvcMessage take rdmaIdToSocketMappings, the FdInfo and
\* channelToSocketMappings in an order that never lets two draining threads
\* block each other for ever.
NoLockCycle ==
    IsIrreflexive(TransitiveClosure(WaitsFor, Drainers), Drainers)

=============================================================================
