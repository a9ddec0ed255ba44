---------------------------- MODULE RDMADispatch ----------------------------
(***************************************************************************)
(* How RDMASvcClient::ProcessRDMASvcMessage (src/qlib/rdma_svc_cli.rs)     *)
(* applies completions to the mapping tables and to the sockets of the     *)
(* file-descriptor table, with the socket layer and the RDMA service       *)
(* around it.                                                              *)
(*                                                                         *)
(* From the source: the four response handlers (Connect, Accept, Notify,   *)
(* FinNotify), the two mapping tables, nextRDMAId (a u32 fetch_add, here   *)
(* W bits wide) and the `break` / unwrap / panic outcomes of each lookup.  *)
(*                                                                         *)
(* From the spec (code outside src/): the socket layer that registers a    *)
(* connecting or listening socket under a fresh RDMA id and sends the      *)
(* request, the application closing a socket or taking a connection off a  *)
(* backlog, the RDMA service that answers with completions, and            *)
(* GlobalIOMgr's fd table (CreateSocket hands out a free fd; GetByHost of  *)
(* a closed fd returns None).                                              *)
(*                                                                         *)
(* The drain passes and the wake protocol are RDMASvcCli's; here the       *)
(* drainer pops whenever the completion ring is non-empty, and a `break`   *)
(* drops the popped message.                                               *)
(***************************************************************************)
EXTENDS Naturals, Sequences, FiniteSets

CONSTANTS
    Fds,          \* host fds GlobalIOMgr can hand out
    W,            \* width of nextRDMAId in bits (u32 in the code)
    MaxChannels,  \* bound on the channels the service opens
    MaxEvents,    \* bound on Notify/FinNotify completions the service sends
    QueueCap,     \* capacity of the completion ring
    AllowClose,   \* whether the application may close a socket
    NoFd, NoId, NoChan

RdmaIds == 0..(2^W - 1)
Chans == 1..MaxChannels
Events == {"IN", "OUT"}

ASSUME /\ W \in Nat \ {0}
       /\ MaxChannels \in Nat \ {0}
       /\ QueueCap \in Nat \ {0}
       /\ AllowClose \in BOOLEAN
       /\ NoFd \notin Fds /\ NoId \notin RdmaIds /\ NoChan \notin Chans

\* The completions of the RDMA service (RDMARespMsg), with the fields the
\* handlers read: the RDMA id in `sockfd`, the channel, the event bits.
Resp == [type : {"Connect", "Accept", "Notify", "FinNotify"},
         sockfd : RdmaIds \cup {NoId},
         channelId : Chans,
         event : SUBSET Events]

SockKinds == {"None", "Socket", "RDMAServerSocket", "RDMADataSocket"}

VARIABLES
    cq,                      \* completion ring
    sockInfo,                \* sockInfo[f]: fd f's SockInfo; "None" if closed
    dataChan,                \* dataChan[f]: channel of f's RDMADataSock
    rclosed,                 \* rclosed[f]: f's socket buffer is read-closed
    backlog,                 \* backlog[f]: acceptQueue of listening socket f
    rdmaIdToSocketMappings,  \* RDMA id -> fd
    channelToSocketMappings, \* channel id -> RDMA id
    nextRDMAId,
    pendingConnect,          \* service: RDMA ids with a Connect request
    listening,               \* service: RDMA ids with a Listen request
    open,                    \* service: channels it may still report on
    nextChan,                \* service: channels opened so far
    sentEvents,              \* service: Notify/FinNotify sent so far
    notified,                \* <<fd, channel>> woken by the last step
    panicked,                \* the client process aborted
    idsUsed                  \* RDMA ids handed out by the socket layer

vars == <<cq, sockInfo, dataChan, rclosed, backlog, rdmaIdToSocketMappings,
          channelToSocketMappings, nextRDMAId, pendingConnect, listening,
          open, nextChan, sentEvents, notified, panicked, idsUsed>>

sockVars == <<sockInfo, dataChan, rclosed, backlog>>
mapVars == <<rdmaIdToSocketMappings, channelToSocketMappings, nextRDMAId>>
svcVars == <<pendingConnect, listening, open, nextChan, sentEvents, idsUsed>>

TypeOK ==
    /\ cq \in Seq(Resp) /\ Len(cq) <= QueueCap
    /\ sockInfo \in [Fds -> SockKinds]
    /\ dataChan \in [Fds -> Chans \cup {NoChan}]
    /\ rclosed \in [Fds -> BOOLEAN]
    /\ backlog \in [Fds -> Seq(Fds)]
    /\ rdmaIdToSocketMappings \in [RdmaIds -> Fds \cup {NoFd}]
    /\ channelToSocketMappings \in [Chans -> RdmaIds \cup {NoId}]
    /\ nextRDMAId \in RdmaIds
    /\ pendingConnect \subseteq RdmaIds /\ listening \subseteq RdmaIds
    /\ open \subseteq Chans
    /\ nextChan \in 0..MaxChannels /\ sentEvents \in 0..MaxEvents
    /\ notified \subseteq Fds \X Chans
    /\ panicked \in BOOLEAN
    /\ idsUsed \in Nat

Init ==
    /\ cq = <<>>
    /\ sockInfo = [f \in Fds |-> "None"]
    /\ dataChan = [f \in Fds |-> NoChan]
    /\ rclosed = [f \in Fds |-> FALSE]
    /\ backlog = [f \in Fds |-> <<>>]
    /\ rdmaIdToSocketMappings = [r \in RdmaIds |-> NoFd]
    /\ channelToSocketMappings = [c \in Chans |-> NoId]
    /\ nextRDMAId = 0
    /\ pendingConnect = {} /\ listening = {} /\ open = {}
    /\ nextChan = 0 /\ sentEvents = 0
    /\ notified = {}
    /\ panicked = FALSE
    /\ idsUsed = 0

\* nextRDMAId.fetch_add(1): wraps at the counter's width.
NextId(r) == (r + 1) % (2^W)

FreeFds == {f \in Fds : sockInfo[f] = "None"}

\* Accept completions queued: each will take a free fd from CreateSocket.
QueuedAccepts == Cardinality({i \in DOMAIN cq : cq[i].type = "Accept"})

\* Bound on the environment: the fd table never runs out, so CreateSocket
\* (outside src/) always has an fd for every queued Accept.
FdsSuffice(n) == Cardinality(FreeFds) >= QueuedAccepts + n

\* RDMADataSock::New installed on fd f for channel c (over a fresh buffer).
InstallDataSock(f, c) ==
    /\ sockInfo' = [sockInfo EXCEPT ![f] = "RDMADataSocket"]
    /\ dataChan' = [dataChan EXCEPT ![f] = c]
    /\ rclosed' = [rclosed EXCEPT ![f] = FALSE]

-----------------------------------------------------------------------------
(* ProcessRDMASvcMessage: one popped completion per step                   *)

\* A lookup missed: debug! and `break`; the popped message is lost.
Skip ==
    /\ cq' = Tail(cq)
    /\ notified' = {}
    /\ UNCHANGED <<sockVars, mapVars, svcVars, panicked>>

\* GetByHost(fd).unwrap() on a closed fd, or a SockInfo of the wrong type.
Panic ==
    /\ panicked' = TRUE
    /\ notified' = {}
    /\ UNCHANGED <<cq, sockVars, mapVars, svcVars>>

\* Mutant of RDMAConnectResp: RDMADataSock::New given the RDMA id where
\* the channel id belongs.
RDMAConnectRespSwapped ==
    LET m == Head(cq)
        f == rdmaIdToSocketMappings[m.sockfd]
    IN
    /\ m.type = "Connect"
    /\ IF f = NoFd THEN Skip
       ELSE IF sockInfo[f] # "Socket" THEN Panic
       ELSE /\ cq' = Tail(cq)
            /\ channelToSocketMappings' =
                   [channelToSocketMappings EXCEPT ![m.channelId] = m.sockfd]
            /\ InstallDataSock(f, m.sockfd)
            /\ notified' = {<<f, m.channelId>>}
            /\ UNCHANGED <<backlog, rdmaIdToSocketMappings, nextRDMAId,
                           svcVars, panicked>>

\* Mutant of RDMAConnectResp: the fd looked up by channel id, not RDMA id.
RDMAConnectRespByChannel ==
    LET m == Head(cq)
        f == rdmaIdToSocketMappings[m.channelId]
    IN
    /\ m.type = "Connect"
    /\ IF f = NoFd THEN Skip
       ELSE IF sockInfo[f] # "Socket" THEN Panic
       ELSE /\ cq' = Tail(cq)
            /\ channelToSocketMappings' =
                   [channelToSocketMappings EXCEPT ![m.channelId] = m.sockfd]
            /\ InstallDataSock(f, m.channelId)
            /\ notified' = {<<f, m.channelId>>}
            /\ UNCHANGED <<backlog, rdmaIdToSocketMappings, nextRDMAId,
                           svcVars, panicked>>

\* RDMARespMsg::RDMAConnect
RDMAConnectResp ==
    LET m == Head(cq)
        f == rdmaIdToSocketMappings[m.sockfd]
    IN
    /\ m.type = "Connect"
    /\ IF f = NoFd THEN Skip
       ELSE IF sockInfo[f] # "Socket" THEN Panic
       ELSE /\ cq' = Tail(cq)
            /\ channelToSocketMappings' =
                   [channelToSocketMappings EXCEPT ![m.channelId] = m.sockfd]
            /\ InstallDataSock(f, m.channelId)
            /\ notified' = {<<f, m.channelId>>}
            /\ UNCHANGED <<backlog, rdmaIdToSocketMappings, nextRDMAId,
                           svcVars, panicked>>

\* Mutant of RDMAAcceptResp: the data socket installed through the
\* listener's fd lock (fdInfoLock) instead of the new fd's (fdInfoLock1).
RDMAAcceptRespOnListener ==
    LET m == Head(cq)
        f == rdmaIdToSocketMappings[m.sockfd]
    IN
    /\ m.type = "Accept"
    /\ IF f = NoFd THEN Skip
       ELSE IF sockInfo[f] # "RDMAServerSocket" THEN Panic
       ELSE \E fd \in FreeFds :
            LET rdmaId == nextRDMAId IN
            /\ cq' = Tail(cq)
            /\ nextRDMAId' = NextId(nextRDMAId)
            /\ rdmaIdToSocketMappings' =
                   [rdmaIdToSocketMappings EXCEPT ![rdmaId] = fd]
            /\ InstallDataSock(f, m.channelId)
            /\ backlog' = [backlog EXCEPT ![f] = Append(@, fd)]
            /\ channelToSocketMappings' =
                   [channelToSocketMappings EXCEPT ![m.channelId] = rdmaId]
            /\ notified' = {}
            /\ UNCHANGED <<svcVars, panicked>>

\* Mutant of RDMAAcceptResp: the channel mapped to the new fd rather than
\* to its RDMA id (the table's name says "socket").
RDMAAcceptRespChanToFd ==
    LET m == Head(cq)
        f == rdmaIdToSocketMappings[m.sockfd]
    IN
    /\ m.type = "Accept"
    /\ IF f = NoFd THEN Skip
       ELSE IF sockInfo[f] # "RDMAServerSocket" THEN Panic
       ELSE \E fd \in FreeFds :
            LET rdmaId == nextRDMAId IN
            /\ cq' = Tail(cq)
            /\ nextRDMAId' = NextId(nextRDMAId)
            /\ rdmaIdToSocketMappings' =
                   [rdmaIdToSocketMappings EXCEPT ![rdmaId] = fd]
            /\ InstallDataSock(fd, m.channelId)
            /\ backlog' = [backlog EXCEPT ![f] = Append(@, fd)]
            /\ channelToSocketMappings' =
                   [channelToSocketMappings EXCEPT ![m.channelId] = fd]
            /\ notified' = {}
            /\ UNCHANGED <<svcVars, panicked>>

\* RDMARespMsg::RDMAAccept: a new fd from CreateSocket, the next RDMA id,
\* a data socket on the new fd, EnqSocket on the listener's backlog (which
\* wakes the listener when the backlog was empty), the channel mapping.
RDMAAcceptResp ==
    LET m == Head(cq)
        f == rdmaIdToSocketMappings[m.sockfd]
    IN
    /\ m.type = "Accept"
    /\ IF f = NoFd THEN Skip
       ELSE IF sockInfo[f] # "RDMAServerSocket" THEN Panic
       ELSE \E fd \in FreeFds :
            LET rdmaId == nextRDMAId IN
            /\ cq' = Tail(cq)
            /\ nextRDMAId' = NextId(nextRDMAId)
            /\ rdmaIdToSocketMappings' =
                   [rdmaIdToSocketMappings EXCEPT ![rdmaId] = fd]
            /\ InstallDataSock(fd, m.channelId)
            /\ backlog' = [backlog EXCEPT ![f] = Append(@, fd)]
            /\ channelToSocketMappings' =
                   [channelToSocketMappings EXCEPT ![m.channelId] = rdmaId]
            /\ notified' = {}
            /\ UNCHANGED <<svcVars, panicked>>

\* The channel -> RDMA id -> fd resolution of Notify and FinNotify.
ResolveChannel(c) ==
    IF channelToSocketMappings[c] = NoId THEN NoFd
    ELSE rdmaIdToSocketMappings[channelToSocketMappings[c]]

\* RDMARespMsg::RDMANotify: wake EVENT_IN / EVENT_OUT waiters.
RDMANotifyResp ==
    LET m == Head(cq)
        f == ResolveChannel(m.channelId)
    IN
    /\ m.type = "Notify"
    /\ IF f = NoFd THEN Skip
       ELSE IF sockInfo[f] = "None" THEN Panic
       ELSE /\ cq' = Tail(cq)
            /\ notified' = {<<f, m.channelId>>}
            /\ UNCHANGED <<sockVars, mapVars, svcVars, panicked>>

\* RDMARespMsg::RDMAFinNotify: SetRClosed and wake readers when the fd holds
\* a data socket; otherwise only logged.
RDMAFinNotifyResp ==
    LET m == Head(cq)
        f == ResolveChannel(m.channelId)
    IN
    /\ m.type = "FinNotify"
    /\ IF f = NoFd THEN Skip
       ELSE IF sockInfo[f] = "None" THEN Panic
       ELSE IF sockInfo[f] # "RDMADataSocket" THEN Skip
       ELSE /\ cq' = Tail(cq)
            /\ rclosed' = [rclosed EXCEPT ![f] = TRUE]
            /\ notified' = {<<f, m.channelId>>}
            /\ UNCHANGED <<sockInfo, dataChan, backlog, mapVars, svcVars,
                           panicked>>

ProcessRDMASvcMessage ==
    /\ ~panicked
    /\ cq # <<>>
    /\ \/ RDMAConnectResp
       \/ RDMAAcceptResp
       \/ RDMANotifyResp
       \/ RDMAFinNotifyResp

-----------------------------------------------------------------------------
(* The socket layer and the application (modelled from the spec)           *)

\* A connecting (Socket) or listening (RDMAServerSocket) socket on a free
\* fd is registered under the next RDMA id before its Connect / Listen
\* request goes out through SentMsgToSvc. Every connect is given a channel
\* of the service's budget, so that the budget never starves it.
RegisterSocket(f, kind) ==
    /\ ~panicked
    /\ sockInfo[f] = "None"
    /\ FdsSuffice(1)
    /\ idsUsed < Cardinality(Fds)
    /\ kind = "Socket" => nextChan + Cardinality(pendingConnect) < MaxChannels
    /\ idsUsed' = idsUsed + 1
    /\ nextRDMAId' = NextId(nextRDMAId)
    /\ rdmaIdToSocketMappings' = [rdmaIdToSocketMappings EXCEPT ![nextRDMAId] = f]
    /\ sockInfo' = [sockInfo EXCEPT ![f] = kind]
    /\ dataChan' = [dataChan EXCEPT ![f] = NoChan]
    /\ backlog' = [backlog EXCEPT ![f] = <<>>]
    /\ IF kind = "Socket"
          THEN /\ pendingConnect' = pendingConnect \cup {nextRDMAId}
               /\ UNCHANGED listening
          ELSE /\ listening' = listening \cup {nextRDMAId}
               /\ UNCHANGED pendingConnect
    /\ notified' = {}
    /\ UNCHANGED <<cq, rclosed, channelToSocketMappings, open, nextChan,
                   sentEvents, panicked>>

\* The application closes fd f: GlobalIOMgr drops it and close(channelId)
\* tells the service, which stops reporting on the channel (completions
\* already queued stay queued). Neither mapping table is touched.
AppClose(f) ==
    /\ AllowClose
    /\ ~panicked
    /\ sockInfo[f] # "None"
    /\ sockInfo' = [sockInfo EXCEPT ![f] = "None"]
    /\ dataChan' = [dataChan EXCEPT ![f] = NoChan]
    /\ backlog' = [backlog EXCEPT ![f] = <<>>]
    /\ open' = open \ {dataChan[f]}
    /\ listening' = listening \ {r \in RdmaIds : rdmaIdToSocketMappings[r] = f}
    /\ notified' = {}
    /\ UNCHANGED <<cq, rclosed, mapVars, pendingConnect, nextChan,
                   sentEvents, panicked, idsUsed>>

-----------------------------------------------------------------------------
(* The RDMA service (modelled from the spec)                               *)

Push(m) == /\ Len(cq) < QueueCap
           /\ cq' = Append(cq, m)

NewChan == nextChan + 1

\* A connection requested under RDMA id r is established.
SvcConnect(r) ==
    /\ r \in pendingConnect
    /\ nextChan < MaxChannels
    /\ Push([type |-> "Connect", sockfd |-> r, channelId |-> NewChan,
             event |-> {}])
    /\ pendingConnect' = pendingConnect \ {r}
    /\ open' = open \cup {NewChan}
    /\ nextChan' = NewChan
    /\ notified' = {}
    /\ UNCHANGED <<sockVars, mapVars, listening, sentEvents, panicked, idsUsed>>

\* A peer connects to the socket listening under RDMA id r.
SvcAccept(r) ==
    /\ r \in listening
    /\ nextChan + Cardinality(pendingConnect) < MaxChannels
    /\ FdsSuffice(1)
    /\ Push([type |-> "Accept", sockfd |-> r, channelId |-> NewChan,
             event |-> {}])
    /\ open' = open \cup {NewChan}
    /\ nextChan' = NewChan
    /\ notified' = {}
    /\ UNCHANGED <<sockVars, mapVars, pendingConnect, listening, sentEvents,
                   panicked, idsUsed>>

\* Data or buffer space became available on channel c.
SvcNotify(c, ev) ==
    /\ c \in open
    /\ sentEvents < MaxEvents
    /\ Push([type |-> "Notify", sockfd |-> NoId, channelId |-> c, event |-> ev])
    /\ sentEvents' = sentEvents + 1
    /\ notified' = {}
    /\ UNCHANGED <<sockVars, mapVars, pendingConnect, listening, open,
                   nextChan, panicked, idsUsed>>

\* The peer closed channel c: no more data will arrive on it.
SvcFinNotify(c) ==
    /\ c \in open
    /\ sentEvents < MaxEvents
    /\ Push([type |-> "FinNotify", sockfd |-> NoId, channelId |-> c,
             event |-> {}])
    /\ sentEvents' = sentEvents + 1
    /\ open' = open \ {c}
    /\ notified' = {}
    /\ UNCHANGED <<sockVars, mapVars, pendingConnect, listening, nextChan,
                   panicked, idsUsed>>

SvcStep ==
    \/ \E r \in RdmaIds : SvcConnect(r) \/ SvcAccept(r)
    \/ \E c \in Chans : \/ SvcFinNotify(c)
                        \/ \E ev \in SUBSET Events \ {{}} : SvcNotify(c, ev)

Next ==
    \/ ProcessRDMASvcMessage
    \/ \E f \in Fds : \/ \E k \in {"Socket", "RDMAServerSocket"} : RegisterSocket(f, k)
                      \/ AppClose(f)
    \/ SvcStep

\* The drainer runs whenever completions are queued (RDMASvcCli checks the
\* wake protocol that guarantees it), and the service answers every
\* connect request.
Fairness ==
    /\ WF_vars(ProcessRDMASvcMessage)
    /\ \A r \in RdmaIds : WF_vars(SvcConnect(r))

Spec == Init /\ [][Next]_vars /\ Fairness

-----------------------------------------------------------------------------
(* Properties                                                              *)

\* ProcessRDMASvcMessage never aborts the process: no completion reaches a
\* GetByHost(..).unwrap() of a closed fd or a SockInfo of the wrong type.
NoPanic == ~panicked

\* Every channel in channelToSocketMappings resolves, through
\* rdmaIdToSocketMappings, to the fd whose RDMADataSock carries exactly that
\* channel: what the Connect and Accept handlers insert and nextRDMAId
\* hands out must agree across all completions processed so far.
MappingsConsistent ==
    \A c \in Chans :
        channelToSocketMappings[c] # NoId =>
            LET f == rdmaIdToSocketMappings[channelToSocketMappings[c]] IN
            /\ f # NoFd
            /\ sockInfo[f] = "RDMADataSocket"
            /\ dataChan[f] = c

\* A Notify, FinNotify or Connect completion for channel c wakes only the
\* fd whose data socket carries c (spec 4.5: a stale entry must never make
\* a wrong descriptor be notified).
NotifyReachesOwner ==
    \A <<f, c>> \in notified :
        sockInfo[f] = "RDMADataSocket" /\ dataChan[f] = c

\* Every connecting socket eventually becomes an RDMA data socket: the
\* Connect completion for its RDMA id is found and installed.
ConnectCompletes ==
    \A f \in Fds : (sockInfo[f] = "Socket") ~> (sockInfo[f] # "Socket")

\* With sockets closed and their fds reused while completions are in flight
\* (the mapping tables keep every entry), a connecting socket still never
\* hangs: its fd leaves the Socket state, through its own or a stale
\* Connect completion, a close, or the process aborting in the drain loop.
ConnectResolves ==
    \A f \in Fds : (sockInfo[f] = "Socket") ~> (sockInfo[f] # "Socket" \/ panicked)

=============================================================================
