----------------------------- MODULE RDMASvcCli -----------------------------
(***************************************************************************)
(* The shared-memory submission/completion protocol between RDMA clients  *)
(* (src/qlib/rdma_svc_cli.rs) and the RDMA service, and its wake/sleep    *)
(* coordination.                                                           *)
(*                                                                         *)
(* Client side, from the source:                                           *)
(*   - an application thread calls SentMsgToSvc / read / write / shutdown: *)
(*     it pushes a request on its agent's submission queue under the      *)
(*     cliShareRegion lock (failing with NoEnoughSpace when the ring is   *)
(*     full), then, holding the srvShareRegion lock, sets its agent's bit *)
(*     in the service bitmap and reads srvBitmap, signalling the service  *)
(*     when it reads 1 (updateBitmapAndWakeUpServerIfNecessary);          *)
(*   - the agent's drainer runs DrainCompletionQueue: clientBitmap := 0,  *)
(*     one ProcessRDMASvcMessage pass, clientBitmap := 1, a second pass;  *)
(*     a pass pops until the queue is empty or a mapping lookup misses    *)
(*     (the popped message is then dropped and the pass ends: `break`).   *)
(*                                                                         *)
(* Service side (a separate process, not under src/, modelled from the    *)
(* spec): it serves agents whose bitmap bit is set, goes to sleep by      *)
(* setting srvBitmap := 1 and re-checking the bitmap, and signals a       *)
(* client's eventfd after pushing a completion while clientBitmap = 1.    *)
(* The drainer, between drains, blocks on that eventfd.                   *)
(*                                                                         *)
(* Completions are abstracted to whether their mapping lookup succeeds:   *)
(* "ok" (handled) or "miss" (logged and `break`); RDMADispatch models the *)
(* handling itself.                                                        *)
(***************************************************************************)
EXTENDS Naturals, Sequences, FiniteSets

CONSTANTS
    Agents,     \* RDMA clients (agentId), each with its own rings
    Threads,    \* application threads issuing socket operations
    AgentOf,    \* the agent each thread belongs to
    QueueCap,   \* capacity of every submission and completion ring
    MaxReqs,    \* bound on the requests issued by all threads together
    AllowMiss,  \* whether a completion's mapping lookup may miss
    NoThread

ASSUME /\ AgentOf \in [Threads -> Agents]
       /\ QueueCap \in Nat \ {0}
       /\ MaxReqs \in Nat \ {0}
       /\ AllowMiss \in BOOLEAN
       /\ NoThread \notin Threads

VARIABLES
    sq,           \* sq[a]: submission ring of agent a
    cq,           \* cq[a]: completion ring of agent a ("ok" / "miss")
    pc,           \* pc[t]: where application thread t is
    srvLock,      \* srvLock[a]: holder of agent a's srvShareRegion mutex
    bitmap,       \* bitmap[a]: agent a's bit in the service's bitmap
    srvBitmap,    \* 1 when the service has announced it is sleeping
    svc,          \* service loop state: "idle", "serve", "check", "sleep"
    svcEvent,     \* the service's eventfd has a pending signal
    clientBitmap, \* clientBitmap[a]: agent a's drainer is armed
    dpc,          \* dpc[a]: where agent a's drainer is
    cliEvent,     \* cliEvent[a]: agent a's eventfd has a pending signal
    issued        \* requests issued so far (bounded by MaxReqs)

vars == <<sq, cq, pc, srvLock, bitmap, srvBitmap, svc, svcEvent,
          clientBitmap, dpc, cliEvent, issued>>

Completions == IF AllowMiss THEN {"ok", "miss"} ELSE {"ok"}

ThreadsOf(a) == {t \in Threads : AgentOf[t] = a}

TypeOK ==
    /\ sq \in [Agents -> Seq({"req"})]
    /\ cq \in [Agents -> Seq({"ok", "miss"})]
    /\ \A a \in Agents : Len(sq[a]) <= QueueCap /\ Len(cq[a]) <= QueueCap
    /\ pc \in [Threads -> {"idle", "bitmap", "check"}]
    /\ srvLock \in [Agents -> Threads \cup {NoThread}]
    /\ bitmap \in [Agents -> BOOLEAN]
    /\ srvBitmap \in {0, 1}
    /\ svc \in {"idle", "check", "sleep"} \cup Agents
    /\ svcEvent \in BOOLEAN
    /\ clientBitmap \in [Agents -> {0, 1}]
    /\ dpc \in [Agents -> {"start", "pass1", "arm", "pass2", "sleep"}]
    /\ cliEvent \in [Agents -> BOOLEAN]
    /\ issued \in 0..MaxReqs

Init ==
    /\ sq = [a \in Agents |-> <<>>]
    /\ cq = [a \in Agents |-> <<>>]
    /\ pc = [t \in Threads |-> "idle"]
    /\ srvLock = [a \in Agents |-> NoThread]
    /\ bitmap = [a \in Agents |-> FALSE]
    /\ srvBitmap = 0
    /\ svc = "idle"
    /\ svcEvent = FALSE
    /\ clientBitmap = [a \in Agents |-> 0]
    /\ dpc = [a \in Agents |-> "start"]
    /\ cliEvent = [a \in Agents |-> FALSE]
    /\ issued = 0

-----------------------------------------------------------------------------
(* Client: application threads                                             *)

\* Mutant of SentMsgToSvc: the push ignores the ring's capacity.
SentMsgToSvcNoCapacityCheck(t) ==
    LET a == AgentOf[t] IN
    /\ pc[t] = "idle"
    /\ issued < MaxReqs
    /\ issued' = issued + 1
    /\ sq' = [sq EXCEPT ![a] = Append(@, "req")]
    /\ pc' = [pc EXCEPT ![t] = "bitmap"]
    /\ UNCHANGED <<cq, srvLock, bitmap, srvBitmap, svc, svcEvent,
                   clientBitmap, dpc, cliEvent>>

\* The push of SentMsgToSvc (and of read, write, shutdown), atomic under the
\* cliShareRegion lock. A full ring returns Err(NoEnoughSpace) at once.
SentMsgToSvc(t) ==
    LET a == AgentOf[t] IN
    /\ pc[t] = "idle"
    /\ issued < MaxReqs
    /\ issued' = issued + 1
    /\ \/ /\ Len(sq[a]) < QueueCap
          /\ sq' = [sq EXCEPT ![a] = Append(@, "req")]
          /\ pc' = [pc EXCEPT ![t] = "bitmap"]
       \/ /\ Len(sq[a]) = QueueCap
          /\ UNCHANGED <<sq, pc>>
    /\ UNCHANGED <<cq, srvLock, bitmap, srvBitmap, svc, svcEvent,
                   clientBitmap, dpc, cliEvent>>

\* updateBitmapAndWakeUpServerIfNecessary, first half: take the
\* srvShareRegion lock and set this agent's bit (updateBitmap(agentId)).
updateBitmap(t) ==
    LET a == AgentOf[t] IN
    /\ pc[t] = "bitmap"
    /\ srvLock[a] = NoThread
    /\ srvLock' = [srvLock EXCEPT ![a] = t]
    /\ bitmap' = [bitmap EXCEPT ![a] = TRUE]
    /\ pc' = [pc EXCEPT ![t] = "check"]
    /\ UNCHANGED <<sq, cq, srvBitmap, svc, svcEvent, clientBitmap, dpc,
                   cliEvent, issued>>

\* Mutant of WakeUpServerIfNecessary: the service is never signalled.
WakeUpServerNever(t) ==
    LET a == AgentOf[t] IN
    /\ pc[t] = "check"
    /\ srvLock' = [srvLock EXCEPT ![a] = NoThread]
    /\ pc' = [pc EXCEPT ![t] = "idle"]
    /\ UNCHANGED <<sq, cq, bitmap, srvBitmap, svc, svcEvent, clientBitmap,
                   dpc, cliEvent, issued>>

\* Second half: load srvBitmap; when it is 1, wakeupSvc signals the
\* service's eventfd; the lock guard is dropped on return.
WakeUpServerIfNecessary(t) ==
    LET a == AgentOf[t] IN
    /\ pc[t] = "check"
    /\ svcEvent' = (svcEvent \/ srvBitmap = 1)
    /\ srvLock' = [srvLock EXCEPT ![a] = NoThread]
    /\ pc' = [pc EXCEPT ![t] = "idle"]
    /\ UNCHANGED <<sq, cq, bitmap, srvBitmap, svc, clientBitmap, dpc,
                   cliEvent, issued>>

-----------------------------------------------------------------------------
(* Client: the completion drainer                                           *)

\* DrainCompletionQueue, first statement: clientBitmap.store(0).
DisarmClient(a) ==
    /\ dpc[a] = "start"
    /\ clientBitmap' = [clientBitmap EXCEPT ![a] = 0]
    /\ dpc' = [dpc EXCEPT ![a] = "pass1"]
    /\ UNCHANGED <<sq, cq, pc, srvLock, bitmap, srvBitmap, svc, svcEvent,
                   cliEvent, issued>>

\* One iteration of the ProcessRDMASvcMessage loop in pass `from`: pop
\* under the cliShareRegion lock; an empty ring ends the pass (None =>
\* break); a handled message continues the loop; a lookup miss drops the
\* popped message and ends the pass (`break`).
ProcessRDMASvcMessage(a, from, to) ==
    /\ dpc[a] = from
    /\ \/ /\ cq[a] = <<>>
          /\ dpc' = [dpc EXCEPT ![a] = to]
          /\ UNCHANGED cq
       \/ /\ cq[a] # <<>>
          /\ cq' = [cq EXCEPT ![a] = Tail(@)]
          /\ dpc' = [dpc EXCEPT ![a] = IF Head(cq[a]) = "ok" THEN from ELSE to]
    /\ UNCHANGED <<sq, pc, srvLock, bitmap, srvBitmap, svc, svcEvent,
                   clientBitmap, cliEvent, issued>>

\* Mutant of ArmClient: the re-arm store is lost.
ArmClientNoStore(a) ==
    /\ dpc[a] = "arm"
    /\ dpc' = [dpc EXCEPT ![a] = "pass2"]
    /\ UNCHANGED <<sq, cq, pc, srvLock, bitmap, srvBitmap, svc, svcEvent,
                   clientBitmap, cliEvent, issued>>

\* DrainCompletionQueue, between the passes: clientBitmap.store(1).
ArmClient(a) ==
    /\ dpc[a] = "arm"
    /\ clientBitmap' = [clientBitmap EXCEPT ![a] = 1]
    /\ dpc' = [dpc EXCEPT ![a] = "pass2"]
    /\ UNCHANGED <<sq, cq, pc, srvLock, bitmap, srvBitmap, svc, svcEvent,
                   cliEvent, issued>>

\* Mutant of DrainCompletionQueue: a single pass and no re-arm.
DrainOnePass(a) ==
    \/ DisarmClient(a)
    \/ ProcessRDMASvcMessage(a, "pass1", "sleep")

\* DrainCompletionQueue: the two passes around the re-arm.
DrainCompletionQueue(a) ==
    \/ DisarmClient(a)
    \/ ProcessRDMASvcMessage(a, "pass1", "arm")
    \/ ArmClient(a)
    \/ ProcessRDMASvcMessage(a, "pass2", "sleep")

\* After a drain the caller blocks on cliEventFd and drains again when it
\* is signalled (the eventfd read consumes the signal).
ClientWakeup(a) ==
    /\ dpc[a] = "sleep"
    /\ cliEvent[a]
    /\ cliEvent' = [cliEvent EXCEPT ![a] = FALSE]
    /\ dpc' = [dpc EXCEPT ![a] = "start"]
    /\ UNCHANGED <<sq, cq, pc, srvLock, bitmap, srvBitmap, svc, svcEvent,
                   clientBitmap, issued>>

-----------------------------------------------------------------------------
(* The RDMA service (modelled from the spec)                                *)

\* Pick an agent whose bit is set and clear the bit before serving it.
SvcPickAgent(a) ==
    /\ svc = "idle"
    /\ bitmap[a]
    /\ bitmap' = [bitmap EXCEPT ![a] = FALSE]
    /\ svc' = a
    /\ UNCHANGED <<sq, cq, pc, srvLock, srvBitmap, svcEvent, clientBitmap,
                   dpc, cliEvent, issued>>

\* Pop one request of the agent being served; it may answer with a
\* completion, after which it signals the client if it is armed.
SvcServe(a) ==
    /\ svc = a
    /\ sq[a] # <<>>
    /\ sq' = [sq EXCEPT ![a] = Tail(@)]
    /\ \/ UNCHANGED <<cq, cliEvent>>
       \/ \E c \in Completions :
            /\ Len(cq[a]) < QueueCap
            /\ cq' = [cq EXCEPT ![a] = Append(@, c)]
            /\ cliEvent' = [cliEvent EXCEPT ![a] = @ \/ clientBitmap[a] = 1]
    /\ UNCHANGED <<pc, srvLock, bitmap, srvBitmap, svc, svcEvent,
                   clientBitmap, dpc, issued>>

\* The agent's ring is empty: back to scanning the bitmap.
SvcDone(a) ==
    /\ svc = a
    /\ sq[a] = <<>>
    /\ svc' = "idle"
    /\ UNCHANGED <<sq, cq, pc, srvLock, bitmap, srvBitmap, svcEvent,
                   clientBitmap, dpc, cliEvent, issued>>

\* Going to sleep: announce it in srvBitmap, then re-check the bitmap.
SvcPrepareSleep ==
    /\ svc = "idle"
    /\ \A a \in Agents : ~bitmap[a]
    /\ srvBitmap' = 1
    /\ svc' = "check"
    /\ UNCHANGED <<sq, cq, pc, srvLock, bitmap, svcEvent, clientBitmap,
                   dpc, cliEvent, issued>>

SvcRecheck ==
    /\ svc = "check"
    /\ IF \E a \in Agents : bitmap[a]
          THEN srvBitmap' = 0 /\ svc' = "idle"
          ELSE srvBitmap' = 1 /\ svc' = "sleep"
    /\ UNCHANGED <<sq, cq, pc, srvLock, bitmap, svcEvent, clientBitmap,
                   dpc, cliEvent, issued>>

SvcWakeup ==
    /\ svc = "sleep"
    /\ svcEvent
    /\ svcEvent' = FALSE
    /\ srvBitmap' = 0
    /\ svc' = "idle"
    /\ UNCHANGED <<sq, cq, pc, srvLock, bitmap, clientBitmap, dpc,
                   cliEvent, issued>>

-----------------------------------------------------------------------------

ThreadStep(t) == updateBitmap(t) \/ WakeUpServerIfNecessary(t)

DrainerStep(a) == DrainCompletionQueue(a) \/ ClientWakeup(a)

SvcStep ==
    \/ \E a \in Agents : SvcPickAgent(a) \/ SvcServe(a) \/ SvcDone(a)
    \/ SvcPrepareSleep
    \/ SvcRecheck
    \/ SvcWakeup

Next ==
    \/ \E t \in Threads : SentMsgToSvc(t) \/ ThreadStep(t)
    \/ \E a \in Agents : DrainerStep(a)
    \/ SvcStep

\* Application threads may stop issuing requests at any time; a thread that
\* has pushed runs on through the bitmap update (no blocking call in between),
\* the service loop never stops, and a drainer whose eventfd is signalled
\* returns from its wait.
Fairness ==
    /\ \A t \in Threads : WF_vars(ThreadStep(t))
    /\ \A a \in Agents : WF_vars(DrainerStep(a))
    /\ WF_vars(SvcStep)

Spec == Init /\ [][Next]_vars /\ Fairness

-----------------------------------------------------------------------------
(* Properties                                                              *)

\* The service never sleeps, with no signal pending, while an agent's
\* submission ring holds a request, unless a thread of that agent is still
\* between its push and its srvBitmap check (and so will signal it): the
\* push / updateBitmap / srvBitmap-load order of SentMsgToSvc against the
\* service's srvBitmap-store / bitmap re-check must leave no gap.
SvcNoLostWakeup ==
    (svc = "sleep" /\ ~svcEvent) =>
        \A a \in Agents :
            \/ sq[a] = <<>>
            \/ \E t \in ThreadsOf(a) : pc[t] # "idle"

\* A drainer never blocks on its eventfd, with no signal pending, while
\* completions wait in its ring: the two passes of DrainCompletionQueue
\* around the clientBitmap re-arm close the window in which the service
\* pushes without signalling.
CliNoLostWakeup ==
    \A a \in Agents :
        (dpc[a] = "sleep" /\ ~cliEvent[a]) => cq[a] = <<>>

-----------------------------------------------------------------------------
(* Refinement of the transport's promise (RDMAQueues)                      *)

\* The abstract rings are the rings themselves: the bitmaps, eventfds, locks
\* and loop positions are the implementation's and map to nothing.
Abs == INSTANCE RDMAQueues
         WITH sq <- sq, cq <- cq, issued <- issued, Completions <- Completions

\* The wake protocol implements FIFO rings that never lose a request or a
\* completion: every step of SentMsgToSvc, the service and
\* ProcessRDMASvcMessage is a Submit, Serve or Consume of RDMAQueues (or
\* leaves the rings alone), and under the fairness of the threads, the
\* drainers and the service loop, every request is eventually served and
\* every completion eventually popped, across the sleeps of both sides.
ImplementsRDMAQueues == Abs!Spec

=============================================================================
