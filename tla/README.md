# TLA+ models of Quark's RDMA service client, host heap allocator and node manager cache

This directory holds TLA+ models of the concurrent parts of the code under
`src/`. There are three parts:

1. The RDMA service client, in `src/qlib/rdma_svc_cli.rs`.
2. The host global allocator, in `src/qvisor/src/heap_alloc.rs`.
3. The node manager's cache, in `src/qserverless/src/node_mgr/nm_store.rs`.

Each module is checked with TLC through an `MC*` module and one `.cfg` file
per run. `PROJECT.json` lists the following for each run:

- the components;
- the runs and their properties;
- the mutants that show each property can fail;
- the map from every definition to the source lines it models;
- the findings;
- the hazards.

## Inventory of the system

| Part | Source | State | Operations | Status |
|---|---|---|---|---|
| RDMA client: requests and wake protocol | rdma_svc_cli.rs 95-252 | per-agent submission ring `sq`, completion ring `cq`, service bitmap bit, `srvBitmap`, `clientBitmap`, two eventfds | listen, connect(UsingPodId), read, write, shutdown, close (all one `Push` then `updateBitmapAndWakeUpServerIfNecessary`), `DrainCompletionQueue` | modelled (`RDMASvcCli`) |
| Completion dispatch and mapping tables | rdma_svc_cli.rs 254-491 | `channelToSocketMappings`, `rdmaIdToSocketMappings`, `nextRDMAId` (u32), the fd table's `SockInfo`, and the locks of each | Connect, Accept, Notify and FinNotify arms of `ProcessRDMASvcMessage` | modelled (`RDMADispatch` for the tables, `RDMADrainLocks` for the locks) |
| Rings and socket buffers | not under src/ | bounded FIFO | Push (fails when full), Pop | abstracted to sequences |
| Host heap bootstrap / GlobalAlloc | heap_alloc.rs 12-263 | `initialized`, `is_vm_lauched`, three regions and their ListAllocators | `New`, `Init`, cc and default `alloc`/`dealloc`, OOM handler | modelled (`HostAllocator`) |
| ListAllocator | not under src/ | free list | New, Add, alloc, dealloc | abstracted to a free set of blocks |
| Node manager cache | nm_store.rs | `nodePods`, `nodeAgents`, probation maps, node/pod cachers | RegisterNodeAgentClient, ProcessPodEvent, ProcessNodeUpdate, DeleteNode, CreatePod | modelled (`NodeMgrCache`) |
| pb_gen, k8s_types, loader | generated code and data types | none | none | not modelled |

How the parts interact:

- A guest socket operation pushes a request on its agent's submission ring.
- Under the service region's lock, the client then sets the agent's bitmap
  bit. It signals the service's eventfd only if `srvBitmap` says that the
  service sleeps.
- The service answers on the agent's completion ring and signals the
  client's eventfd if the client is armed (`clientBitmap` = 1).
- `DrainCompletionQueue` disarms, drains, re-arms and drains again.
- Each completion is resolved through the two mapping tables to a local fd.
  The fd's `SockInfo` is then changed and its waiters are notified.
- Under feature `cc`, the allocator's phase flag follows the VM launch.

These behaviours are hard to test:

- interleavings of client threads, the service and the drainer around the
  sleep flags;
- completions that arrive for sockets that have been closed in the
  meantime, or whose fd was reused;
- wrap of the 32-bit id counter;
- the non-exclusive lazy `Init` of the global allocator;
- routing of `dealloc` across the VM-launch phase change.

## Modules

### `RDMASvcCli`: the wake protocol

**Constants:** `Agents`, `Threads`, `AgentOf`, `QueueCap`, `MaxReqs`,
`AllowMiss`.

**Rings.** A request is the constant `"req"`. A completion is `"ok"`, or
`"miss"` when its mapping lookup will miss.

**Client threads.** A thread goes through `SentMsgToSvc` (the push, or
`NoEnoughSpace` when the ring is full), then `updateBitmap` (take the
service lock, set the bit), then `WakeUpServerIfNecessary` (load
`srvBitmap`, signal, unlock).

**The drainer.** One drainer per agent runs `DrainCompletionQueue` as four
steps:

1. `DisarmClient`.
2. `ProcessRDMASvcMessage` for the first pass.
3. `ArmClient`.
4. `ProcessRDMASvcMessage` for the second pass.

In each pass, one step is one loop iteration. A `"miss"` models the
`break`: the popped message is dropped and the pass ends. After the second
pass the drainer waits on its eventfd (`ClientWakeup`).

**The service** is modelled from the spec, because the service process is
not under src/. It loops over `SvcPickAgent`, `SvcServe` and `SvcDone`.
When no bit is set it runs `SvcPrepareSleep`: it sets `srvBitmap`,
re-checks the bitmap, and only then sleeps.

**Refinement.** `RDMAQueues` is the transport's promise without any
bitmap, eventfd or lock. Each agent has a FIFO submission ring and a FIFO
completion ring, and there are three actions:

- `Submit` pushes a request, or fails at once when the ring is full;
- `Serve` takes the oldest request and may answer it;
- `Consume` pops the oldest completion.

Weak fairness on `Serve` and `Consume` says that no ring stays non-empty
for ever. `RDMASvcCli` instantiates it as
`Abs == INSTANCE RDMAQueues WITH sq <- sq, cq <- cq, issued <- issued, ...`.
The mapping is the projection onto the rings. The bitmaps, eventfds, locks
and loop positions map to nothing, so their steps are stuttering steps of
`RDMAQueues`. `ImplementsRDMAQueues == Abs!Spec` is checked as a
`PROPERTY`. The safety half says every step of the push, the service and
the drain loop is a `Submit`, `Serve` or `Consume`. The liveness half says
that, under the code's fairness, every request is served and every
completion popped, however the sleeps of both sides interleave.

### `RDMADispatch`: completion dispatch

**Constants:**

- `Fds`;
- `W`, the width of the id counter, where the code uses 32;
- `MaxChannels`, `MaxEvents`, `QueueCap`;
- `AllowClose`.

**Actions.** Each arm of `ProcessRDMASvcMessage` is its own action. Its
guards follow the code's `match` arms:

- a lookup miss is `Skip`: pop, drop, `break`;
- `unwrap` of a closed fd, or a wrong `SockInfo`, is `Panic`.

**Socket layer.** The socket layer, which is not under src/, is modelled
from the spec:

- `RegisterSocket` gives a connecting or listening socket an fd and the
  next RDMA id.
- `AppClose` frees the fd and leaves both mapping tables untouched, as the
  code does.

**The service** sends Connect, Accept, Notify and FinNotify completions for
the ids and channels that exist.

### `RDMADrainLocks`: the locks of the drain loop

This module covers several threads running `DrainCompletionQueue` on the
same client at once. Spec section 5 allows this: threads "each
potentially issuing socket operations and draining completions".

Each iteration does two things:

1. `Pop` takes the `cliShareRegion` lock (`"share"`) for one statement.
2. The handler then takes the locks of its `match` arm in the code's
   order, given by `Plan(m)`.

For each arm, `Plan(m)` is:

- Connect: `rdmaIdToSocketMappings` (264), the fd's `FdInfo` (277),
  `cliShareRegion` (283), then `channelToSocketMappings` (306) for one
  statement;
- Accept: the same, with the listener's `acceptQueue` (383) and the channel
  insert (389), each held for one statement;
- Notify and FinNotify: `channelToSocketMappings` (403, 442),
  `rdmaIdToSocketMappings` (420, 459), then the `FdInfo` (432, 471).

A guard bound with `let` is held until `Finish` ends the arm.

Three things are left out:

- The `sockInfo` cell locks are leaves, so they cannot close a cycle.
- The fresh fd of an Accept cannot be held by anyone else.
- Lookup misses are not modelled. A miss only drops the locks earlier.

`WaitsFor` relates a drainer to the holder of the next lock it needs.
`NoLockCycle` says that the transitive closure of `WaitsFor`, computed with
the community `Relation` module, is irreflexive. The module has only a
violation run.

### `HostAllocator`: the global allocator

A region is a set of `BlocksPer` blocks, and a `ListAllocator` is its free
set.

**Init.** `Init()` is split at the points where another thread can observe
it:

1. `MapRegions`: `MAP_FIXED` replaces every region with zero pages, so
   every allocator becomes empty.
2. `AddRegions`: the regions are donated.
3. `PublishInit`: `initialized := true`, `is_vm_lauched := false`.

**alloc** reads `initialized` and runs `Init` when it is false. It then
takes a block with `AllocBlock`, or panics with OOM when the region is
empty.

**Region choice.**

- `AllocRegion` is the cc phase routing: host-init before the VM launch,
  shared after it. The default build always uses guest-private.
- `DeallocRegion` is the cc routing by address.

**Modelled from the spec:**

- `Spawn`: creating a thread allocates, so a spawned thread starts only
  after `Init`.
- `VmLaunch` (cc only).

**What the passing run can and cannot show.** With one initial thread,
`Init` runs exactly once, so the effects of a second `Init` (a re-map under
live blocks, an allocator emptied under a thread that already saw
`initialized`, `is_vm_lauched` reset to false after launch) appear only
in the race run. No code under src/ allocates a guest-private block in the
cc build, so the phase-dependent private branch of `dealloc`
(heap_alloc.rs:230) is never taken in the model. That branch sends a private
block freed after launch to `HostInitAllocator`. Spec 4.2 says routing is
by address, so this is listed as a hazard.

### `NodeMgrCache`: the node manager's cache

Every handler runs under the cache's write lock, so each one is one atomic
step.

**State.**

- The node and pod Cachers are sets of keys. `qobjs::cacher` is not under
  src/. In the model, `Refresh` inserts the objects it is given; whether the
  real `Refresh` also drops others is not known. Dropping them would be
  wrong as well: `RefreshNode` passes one node's pods, and the pod Cacher
  holds every node's pods.
- `nodePods` maps a node to a set of pod keys, or to `NoEntry` when the
  node has no entry.
- `nodeAgents` and `probation` are sets of nodes.

**Actions.** Each handler is one action:

- `RegisterNodeAgentClient` (with `RefreshNode`);
- `ProcessPodEvent`: its `unwrap` and `assert!` failures are `Panic`;
- `ProcessNodeUpdate`;
- `DeleteNode`: pods are deleted in key order, and the code's `Err` at the
  first pod missing from the Cacher is kept;
- `CreatePod`.

**Environment.** The node agents and connection handling are not under
src/. They are modelled as:

- each node's ordered stream of pod events and node updates;
- `Disconnect`, which puts the node on probation;
- `ProbationTimeout`, which calls `DeleteNode`.

Every event received on a connection is handled before the connection is
declared lost. How the node manager orders a lost connection's events
against the re-registration is decided outside src/.

## Runs

| Run | What it shows |
|---|---|
| `MCRDMASvcCli.cfg` (pass) | Neither the service nor a drainer sleeps while work for it is queued and no signal is pending (`SvcNoLostWakeup`, `CliNoLostWakeup`), and the protocol implements `RDMAQueues`: FIFO rings whose requests are all served and whose completions are all popped (`ImplementsRDMAQueues`, the refinement). Bounds: 2 agents with 1 thread each, rings of 2, 3 requests. |
| `MCRDMASvcCliMiss.cfg` (violation) | A lookup miss in the second pass strands a completion: `CliNoLostWakeup` fails. |
| `MCRDMADispatch.cfg` (pass) | No close, 3 fds, 2-bit ids, 3 channels, 2 events. The mapping tables stay consistent with the fd table (`MappingsConsistent`), nothing panics, and every connect completes. |
| `MCRDMADispatchClose.cfg` (pass) | With closes and fd reuse (2 fds, 2 channels, 1 event), a connecting socket still never hangs (`ConnectResolves`). |
| `MCRDMADispatchCloseNotify.cfg` (violation) | A stale mapping notifies the socket that reused a closed fd (`NotifyReachesOwner`). |
| `MCRDMADispatchClosePanic.cfg` (violation) | A completion for a closed socket aborts in `GetByHost(..).unwrap()` (`NoPanic`). |
| `MCRDMADispatchWrap.cfg` (violation) | A 1-bit counter wraps, and an Accept overwrites a live id (`MappingsConsistent`). |
| `MCHostAllocatorBuilds.cfg` (pass) | Both builds (`Builds = {TRUE, FALSE}`: the variable `cc` is chosen in `Init` and never changes), with three threads (one initial thread spawns the other two), three blocks per region and, under cc, a VM launch with host-init blocks out. Every block of a donated region is either live or on its own region's free list (`DeallocRoutedHome`): `dealloc` routes a host-init block home by address even when the launch happened between its alloc and its dealloc. `Init` runs once here, so this run says nothing about a second `Init`: that race is the next row. |
| `MCNodeMgrCache.cfg` (pass) | 2 nodes, 3 pods, 8 events (1.3 million states), agents that disconnect, are deleted and re-register. No handler panics (`NoPanic`), `nodePods` stays within the pod Cacher (`PodIndexConsistent`), and a connected node's `nodePods` equals its agent's pods once its stream is drained (`CacheMatchesAgent`). |
| `MCNodeMgrCacheOrphan.cfg` (violation) | 2 nodes, 3 pods, 4 events. An agent stops pod 2 while disconnected and re-registers with an empty list. `RefreshNode` drops the pod from `nodePods` but not from the pod Cacher. When the node later times out, `DeleteNode` walks the empty set, and the pod stays cached for ever (`LostNodeCleared`). |
| `MCRDMADrainLocks.cfg` (violation) | Two drainers, one fd, 2 completions. The thread in the Connect arm holds `rdmaIdToSocketMappings`, the `FdInfo` and `cliShareRegion`, and waits for `channelToSocketMappings`. The thread in the Notify arm holds `channelToSocketMappings` and waits for `rdmaIdToSocketMappings`. `NoLockCycle` fails after 9 steps. |
| `MCHostAllocatorRace.cfg` (violation) | Two threads run before the first allocation. Both run `Init`, and a block is handed out twice (`NoOverlap`). |

Why the bounds are enough. Every bound is the smallest that makes the
interesting case happen:

- Two agents make the service choose between agents and sleep with one of
  them still pending.
- Rings of 2 make a push fail while there is still something to drain.
- Three fds let an Accept take an fd while two other sockets exist.
- A 2-bit counter covers every id the three fds can take without wrapping.
  A 1-bit counter is the smallest that wraps.
- Three threads with three blocks per region let blocks of several
  threads be out at once, in both regions under cc, and still reach OOM.
- Eight pod events are enough for a create, a stop and an update on each
  node, on both sides of a disconnect and a re-registration.

`CHECK_DEADLOCK FALSE` is set where the system really stops:

- when the request, id or event budgets are spent and the rings are empty;
- after a panic or the OOM panic.

## Fairness

**RDMASvcCli:**

- Weak fairness on each thread's post-push steps: between the push and the
  unlock there is no blocking call.
- Weak fairness on each drainer: a signalled eventfd read returns.
- Weak fairness on the service loop.
- No fairness on `SentMsgToSvc`: the application may stop issuing requests.

**RDMADispatch:**

- Weak fairness on the drain loop, justified by `RDMASvcCli`'s refinement
  of `RDMAQueues`, whose `Consume` is weakly fair.
- Weak fairness on the service answering connects.

**NodeMgrCache:**

- Weak fairness on `ProcessPodEvent` and `ProcessNodeUpdate` of each node:
  the node manager's task for a connection handles what it has received.
- Weak fairness on `ProbationTimeout`: the probation timer fires.
- No fairness on the agents, the connections or `CreatePod`: they may stop
  at any time.

**HostAllocator:** only safety properties are checked, so no fairness is
assumed.

## Not modelled, and why

- **Weak memory.** TLC explores sequentially consistent interleavings. The
  wake protocol's StoreLoad requirement (`updateBitmap` store, then the
  `Acquire` load of `srvBitmap`) is listed as a hazard. `updateBitmap`
  belongs to `ShareRegion`, which is not under src/, so its memory ordering
  is unknown. An atomic read-modify-write would already be ordered before
  the load, and a store-buffer model would have to invent that code.
- **Probation times** (nm_store.rs 83-87, 200-201). `probationNodes` is
  keyed by `SystemTime`, and the code assumes no two nodes share a start
  time. The entries are inserted and timed out outside src/, so the model
  keeps probation as a set of nodes. The collision is listed as a hazard.
- **Events handled after their connection is lost.** The model handles
  every event of a connection before the connection is declared lost.
  Handling a lost connection's events after a re-registration trips
  `assert!` at nm_store.rs:218. Whether that can happen is decided by the
  node manager's connection handling, which is not under src/, so it is
  listed as a hazard.
- **Reordering between concurrent drainers.** A Notify can be looked up
  before the Connect of its channel has inserted the mapping. This is
  listed as a hazard: `RDMADrainLocks` tracks locks, not table contents.
- **Generated and data-only code** (pb_gen, `node_mgr_pb.rs`,
  `k8s_types.rs`, `loader.rs`, and the conversions at nm_store.rs 31-75).
  None of it has state that changes. `RuntimeStatus::GetRuntimeCondition`
  (k8s_types.rs 197-207) is a first-match search over a vector. It has no
  state and no caller in any modelled component.
- **Conversion failures in `NodeMgrCache`.** `PodToDataObject` and
  `NodeToDataObject` fail when a `resource_version` does not parse as an
  i64. In `RegisterNodeAgentClient` this happens after the probation entry
  and the client are already updated (hazard at nm_store.rs:206). What the
  caller does with that Err is decided outside src/, and the model's pods
  always convert.
- **Byte-level ring and socket buffer layout** (`ioMetas`, `iobufs`). The
  completion's `ioBufIndex` is not modelled.
- **The listener wakeup** of the Accept arm (`EnqSocket`'s trigger). The
  properties are about data channels.
- **Sizes and alignment in ListAllocator.** Its code is not under src/.
- **The cost of a stale client in `NodeMgrCache`.** `DeleteNode` leaves
  `nodeAgents` and the node Cacher entry in place. What a call to a stale
  `NodeAgentClient` does is decided outside src/.

## Plan for later work

1. `NodeMgrCache` with a second `Refresh` semantics (replace the whole
   pod Cacher), run against the same properties.
2. `RDMADispatch` with several drainers, for the Notify-before-Connect
   reordering hazard.
