---------------------------- MODULE HostAllocator ----------------------------
(***************************************************************************)
(* The host-side global allocator of src/qvisor/src/heap_alloc.rs: the    *)
(* HostAllocator singleton, its lazy Init() (three MAP_FIXED mappings, a  *)
(* ListAllocator built at the start of the guest-private and host-init    *)
(* regions, the rest of each region donated with Add, then the phase      *)
(* flags), and the GlobalAlloc entry points of both builds: feature "cc"  *)
(* (allocate from host-init before VM launch and from the guest/host      *)
(* shared heap after, deallocate by address) and the default build (all   *)
(* through the guest-private allocator).                                  *)
(*                                                                         *)
(* A region is a set of equal blocks; a ListAllocator is its free set     *)
(* (list_allocator.rs is not under src/: alloc takes any free block, or   *)
(* calls the OOM handler when there is none). MAP_FIXED over a live       *)
(* mapping replaces it with zeroed pages, so re-mapping a region empties  *)
(* its allocator, whose control block lives at the region's start.        *)
(*                                                                         *)
(* Threads come from outside src/: a thread is either running from the    *)
(* start or spawned by a running thread, and spawning allocates.          *)
(***************************************************************************)
EXTENDS Naturals, FiniteSets

CONSTANTS
    Threads,         \* threads that call the global allocator
    InitialThreads,  \* threads running before the first allocation
    BlocksPer,       \* blocks in each region
    Builds           \* the builds checked: TRUE is feature "cc", FALSE the default

Regions == {"private", "shared", "hostinit"}

ASSUME /\ InitialThreads \subseteq Threads /\ InitialThreads # {}
       /\ BlocksPer \in Nat \ {0}
       /\ Builds \subseteq BOOLEAN /\ Builds # {}

Blocks(r) == {r} \X (1..BlocksPer)
AllBlocks == UNION {Blocks(r) : r \in Regions}

\* IsGuestPrivateHeapAddr / IsHostGuestSharedHeapAddr: address-range tests.
RegionOf(b) == b[1]

VARIABLES
    cc,             \* the build: compiled with feature "cc" (never changes)
    initialized,    \* HostAllocator.initialized
    is_vm_lauched,  \* HostAllocator.is_vm_lauched
    free,           \* free[r]: free blocks of region r's ListAllocator
    held,           \* held[t]: live blocks allocated by thread t
    active,         \* threads running
    pc,             \* pc[t]: where thread t is in alloc
    oom,            \* the OOM handler panicked
    inits           \* how many times Init() has run its mappings

vars == <<cc, initialized, is_vm_lauched, free, held, active, pc, oom, inits>>

TypeOK ==
    /\ cc \in Builds
    /\ initialized \in BOOLEAN
    /\ is_vm_lauched \in BOOLEAN
    /\ free \in [Regions -> SUBSET AllBlocks]
    /\ held \in [Threads -> SUBSET AllBlocks]
    /\ active \subseteq Threads
    /\ pc \in [Threads -> {"idle", "map", "add", "publish", "alloc"}]
    /\ oom \in BOOLEAN
    /\ inits \in 0..Cardinality(Threads)

\* HostAllocator::New: fixed base addresses, both flags false; no region is
\* mapped yet, so every allocator is empty.
Init ==
    /\ cc \in Builds
    /\ initialized = FALSE
    /\ is_vm_lauched = FALSE
    /\ free = [r \in Regions |-> {}]
    /\ held = [t \in Threads |-> {}]
    /\ active = InitialThreads
    /\ pc = [t \in Threads |-> "idle"]
    /\ oom = FALSE
    /\ inits = 0

Live == UNION {held[t] : t \in Threads}

-----------------------------------------------------------------------------
(* HostAllocator::Init, in the three steps another thread can observe      *)

\* mmap of the guest-private, shared and host-init regions (and, under cc,
\* the cpuid, secret, GHCB and attestation pages) with MAP_FIXED, the
\* address asserts, and ListAllocator::New over the private and host-init
\* regions. Every mapped region is replaced by zeroed pages.
MapRegions(t) ==
    /\ pc[t] = "map"
    /\ free' = [r \in Regions |-> {}]
    /\ inits' = inits + 1
    /\ pc' = [pc EXCEPT ![t] = "add"]
    /\ UNCHANGED <<cc, initialized, is_vm_lauched, held, active, oom>>

\* Add donates each region but its first size_of::<ListAllocator>() bytes.
AddRegions(t) ==
    /\ pc[t] = "add"
    /\ free' = [free EXCEPT !["private"] = Blocks("private"),
                            !["hostinit"] = Blocks("hostinit")]
    /\ pc' = [pc EXCEPT ![t] = "publish"]
    /\ UNCHANGED <<cc, initialized, is_vm_lauched, held, active, oom, inits>>

\* initialized.store(true); is_vm_lauched.store(false).
PublishInit(t) ==
    /\ pc[t] = "publish"
    /\ initialized' = TRUE
    /\ is_vm_lauched' = FALSE
    /\ pc' = [pc EXCEPT ![t] = "alloc"]
    /\ UNCHANGED <<cc, free, held, active, oom, inits>>

-----------------------------------------------------------------------------
(* GlobalAlloc                                                              *)

\* Mutant of alloc: the `initialized` check is lost and Init() runs on
\* every allocation.
allocAlwaysInit(t) ==
    /\ t \in active
    /\ pc[t] = "idle"
    /\ ~oom
    /\ pc' = [pc EXCEPT ![t] = "map"]
    /\ UNCHANGED <<cc, initialized, is_vm_lauched, free, held, active, oom, inits>>

\* alloc, first statement: load `initialized`; run Init() when it is false.
alloc(t) ==
    /\ t \in active
    /\ pc[t] = "idle"
    /\ ~oom
    /\ pc' = [pc EXCEPT ![t] = IF initialized THEN "alloc" ELSE "map"]
    /\ UNCHANGED <<cc, initialized, is_vm_lauched, free, held, active, oom, inits>>

\* The allocator alloc takes from: under cc, host-init before VM launch and
\* guest/host shared after; otherwise always guest-private.
AllocRegion == IF cc THEN IF is_vm_lauched THEN "shared" ELSE "hostinit"
               ELSE "private"

\* ListAllocator::alloc on that allocator; an empty free list calls
\* handleError, which panics ("qvisor OOM").
AllocBlock(t) ==
    LET r == AllocRegion IN
    /\ pc[t] = "alloc"
    /\ \/ \E b \in free[r] :
            /\ free' = [free EXCEPT ![r] = @ \ {b}]
            /\ held' = [held EXCEPT ![t] = @ \cup {b}]
            /\ UNCHANGED oom
       \/ /\ free[r] = {}
          /\ oom' = TRUE
          /\ UNCHANGED <<free, held>>
    /\ pc' = [pc EXCEPT ![t] = "idle"]
    /\ UNCHANGED <<cc, initialized, is_vm_lauched, active, inits>>

\* Mutant of DeallocRegion: dealloc routes by the phase flag, as alloc
\* does, instead of by address.
DeallocRegionByPhase(b) ==
    IF ~cc THEN "private"
    ELSE IF is_vm_lauched THEN "shared" ELSE "hostinit"

\* The allocator dealloc hands a block back to: under cc, guest-private
\* only before VM launch, then by address shared, else host-init; otherwise
\* always guest-private.
DeallocRegion(b) ==
    IF ~cc THEN "private"
    ELSE IF ~is_vm_lauched /\ RegionOf(b) = "private" THEN "private"
    ELSE IF RegionOf(b) = "shared" THEN "shared"
    ELSE "hostinit"

dealloc(t) ==
    /\ t \in active
    /\ pc[t] = "idle"
    /\ ~oom
    /\ \E b \in held[t] :
         /\ held' = [held EXCEPT ![t] = @ \ {b}]
         /\ free' = [free EXCEPT ![DeallocRegion(b)] = @ \cup {b}]
    /\ UNCHANGED <<cc, initialized, is_vm_lauched, active, pc, oom, inits>>

-----------------------------------------------------------------------------
(* Outside heap_alloc.rs (modelled from the spec)                           *)

\* Thread creation allocates in the spawning thread, so a spawned thread
\* starts only after an allocation has completed, i.e. after Init().
Spawn(u) ==
    /\ u \notin active
    /\ initialized
    /\ ~oom
    /\ active' = active \cup {u}
    /\ UNCHANGED <<cc, initialized, is_vm_lauched, free, held, pc, oom, inits>>

\* Under cc the guest takes over: the guest/host shared heap's allocator is
\* set up and is_vm_lauched goes true.
VmLaunch ==
    /\ cc
    /\ initialized
    /\ ~is_vm_lauched
    /\ ~oom
    /\ is_vm_lauched' = TRUE
    /\ free' = [free EXCEPT !["shared"] = Blocks("shared")]
    /\ UNCHANGED <<cc, initialized, held, active, pc, oom, inits>>

Next ==
    \/ \E t \in Threads :
         \/ alloc(t) \/ MapRegions(t) \/ AddRegions(t) \/ PublishInit(t)
         \/ AllocBlock(t) \/ dealloc(t) \/ Spawn(t)
    \/ VmLaunch

Spec == Init /\ [][Next]_vars

-----------------------------------------------------------------------------
(* Properties                                                              *)

\* No block is handed to two live allocations, and no live block sits on a
\* free list: alloc's unguarded `if !initialized { Init() }` must never let
\* a second Init() re-map and rebuild an allocator that already has blocks
\* out.
NoOverlap ==
    /\ \A t, u \in Threads : t # u => held[t] \cap held[u] = {}
    /\ \A r \in Regions : free[r] \cap Live = {}

\* A region's blocks have been donated: the private and host-init regions
\* by Init's Add, the shared region at VM launch.
Donated(r) == IF r = "shared" THEN is_vm_lauched ELSE initialized

\* Every block of a donated region is either out in exactly one live
\* allocation or on the free list of its own region's allocator: dealloc
\* under cc routes a host-init block back to host-init by address also when
\* VM launch happened between its alloc and its dealloc (spec 4.2), and no
\* block is lost or lands on another region's list. In this model no
\* guest-private block is allocated under cc, so dealloc's phase-dependent
\* private branch (heap_alloc.rs:230) is not exercised here.
DeallocRoutedHome ==
    /\ \A r \in Regions : free[r] \subseteq Blocks(r)
    /\ \A r \in Regions : Donated(r) =>
           \A b \in Blocks(r) : b \in free[r] \/ b \in Live

=============================================================================
