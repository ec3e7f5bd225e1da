# UVM of vDRAM: TLA+ models, model checking and proofs

vDRAM is a GPU simulator (MGPUSim on the Akita engine) with a model of NVIDIA
style Unified Virtual Memory (UVM): GPU pages live on the host until a fault or
an access counter brings them in, 64KB regions migrate over PCIe, a tree-based
prefetcher (TBN) takes their neighbours along, and when GPU memory is short the
least recently migrated regions are evicted. This directory holds the TLA+
modules of that program, the TLC configurations that check them, and the proofs
that TLAPS checks. `PROJECT.json` maps every definition to the source lines it
stands for.

## 1. The system

Paths are below `src/`; `U/` is `mgpusim/amd/driver/`.

| Component | State it keeps | Operations | What is hard in it | What makes it correct |
|---|---|---|---|---|
| UVM manager, faults (`U/uvm_fault.go`, `uvm_regions.go`) | one transaction per region, FIFO `faultCue`, one active slot, deferred list per region, phase per region, pending remote maps | `onPageFault`, `onAccessCounterNotify`, `handleFaultReady`, `completeRemoteMap`, retire/park/resume | the service is cut into many events; a transaction wanders between queue, slot and deferred list; a notification is swallowed when somebody else has the region | no transaction lost, doubled or starved; a retired transaction was answered; one service at a time |
| UVM manager, migration (`U/uvm_migration.go`, `uvm_control.go`) | migrations in flight, control operations with their continuations, send queue, DMA transfers | admit, drain, DMA, complete, invalidate, finish, replay | continuation passing through GPU round trips; partial admission when frames run out; DMA completions in any order | mapping matches residency; budget respected; every migration ends |
| UVM manager, eviction (`U/uvm_eviction.go`, `access_counter_reset.go`) | recency list, `inUse`, `evictingFrames`, victims that an admission waits for | victim selection, pre-eviction, begin/write back/finalize | victims chosen up front and evicted one by one; background eviction beside an admission; frames promised before they are free | a region has one owner; no frame freed before its write-back; counters exact |
| TBN prefetcher (`U/uvm_tbn.go`) | none (reads residency) | `expandNeighborhood`, `buildSelection` | 51 % threshold, alignment, partial blocks, VA block limit | the loop selects the highest dense ancestor; monotone in residency |
| UVM plumbing (`U/uvm_driver.go`) | ports | dispatch of messages and events, `DMA` and control responses | shares the port to the copy engine with the copy middleware | every response reaches its owner |
| GPU access counter (`mgpusim/amd/timing/accesscounter`) | per region: count, latch, held writes, outstanding remote accesses | count, notify, hold, release, reset, drain | latch released by replay or reset; kernel-boundary reset races a notification | a latched region is always released; a drain answers only when nothing is outstanding |
| Command processor (`mgpusim/amd/timing/cp`) | UVM operation in flight, missing acknowledgements; flush in progress, copies of the DMA engine | fan out invalidate, flush, drain, replay; collect; launch, flush, copy | partial sends under backpressure; copies against flushes | one answer per operation after all acknowledgements; a copy sees what was flushed before it |
| GMMU (`akita/mem/vm/gmmu`) | walks, faulted translations kept for replay, invalidation in progress | walk, fault, replay, refault, spread invalidations | a replay meets a page that migrates again; several pages share one answer of the driver | every translation is answered once |
| TLBs (`akita/mem/vm/tlb`) | sets, MSHR with `staleOnFill`, ways lent to it | lookup, fill, answer, range invalidate, flush | fill that races an invalidation; ways borrowed when the MSHR is full | no mapping older than the invalidation is stored; every request answered once; sets stay consistent |
| IOMMU, page table (`akita/mem/vm/mmu`, `pagetable.go`) | pages, walks | walk, migrate (legacy) | | mapping of a page is unique |
| Address translators, caches, DRAM, data mover | queues of transactions | translate, read, write, drain, flush, copy | drain with translations in flight | no request lost, order per address; nothing reaches the caches after a drain |
| Allocator (`U/internal`) | buddy lists, pages per process | allocate, free, remap | merges | no frame handed out twice |
| Driver commands and copies (`U/driver.go`, `memorycopy*.go`, ...) | command queues, requests, copies that wait for their turn, a deferred read | launch, copy, flush, complete, legacy page migration | one middleware for all queues, one port for all responses, flushes before copies, migrations beside them | commands of a queue in order, each completes; a response reaches its owner |
| Utopia, Avatar, virtual caching; compute units; RDMA, page migration controller; reorder buffer | | | alternatives to the UVM path or instruction timing | |
| Akita engine, ports, network | event queue, buffers | schedule, deliver | backpressure, parallel engine | time order, no message lost |
| Emulation, benchmarks, tracing, monitoring, NVIDIA trace simulator | | | sequential or observers | |

How they interact on the UVM path: a compute unit's access misses the TLBs; the
GMMU walks the page table, finds no usable mapping and sends a fault to the
driver. The driver's UVM manager opens a transaction, selects pages, evicts if
needed (TLB range invalidation, cache range flush, DMA to the host), drains
remote accesses, moves the data by DMA, publishes mappings, and sends a replay;
the command processor fans control operations out to TLBs, caches, access
counter and GMMU and answers when all have. Remote accesses pass the access
counter, which notifies the driver about hot regions and holds their writes
until the replay. `PROJECT.json` lists the components with what is modelled of
each, and every hazard at its line with the properties that watch it.

## 2. Modules

| Module | What it is |
|---|---|
| `TBN` | the geometry of pages, regions and tree nodes, and TBN's selection in closed form |
| `TBNExpansion` | the loop of `expandNeighborhood`, one iteration per step, on the page numbers of the code |
| `OrderedLists` | ascending listing, filtering and reversing of lists; no recursion, so that it can be proved about |
| `UVMManager` | struct `UVMManager`: all entry points and everything they call |
| `Residency` | the abstract specification: pages travel Host, ToGPU, GPU, ToHost, Host, one stage at a time, within the budget |
| `AccessCounter` | the GPU's access counter: its state, what a tick does |
| `RemoteAccess` | the access counter between address translators, host memory and driver |
| `MCRemoteAccess` | the accesses of the instances of `RemoteAccess` that are checked |
| `TLB` | one TLB as a record: sets, MSHR, In-TLB MSHR, fills, range invalidation |
| `GMMU` | walks, faults, replay queue, replays, spread of invalidations |
| `TranslationPath` | translators, a TLB per core, second TLB, GMMU, the command processor's UVM path and the driver's services of whole regions |
| `MCTranslationPath` | the accesses of the instances of `TranslationPath` that are checked, and where a run may stop |
| `DriverCopies` | command queues, copy middleware, command processor and DMA engine, with the migrations of the UVM manager at the same ports |
| `MCDriverCopies` | the program `DriverCopies` is checked with |
| `OrderedListsProofs` | lemmas on lists, ranks and counting |
| `TBNExpansionProofs` | theorems about the climb of the prefetcher |
| `UVMManagerProofs` | theorems about the manager's frames, its fault service and its replays |
| `UVMEvictionProofs` | theorems about its migrations and evictions; the refinement of `Residency` |
| `RemoteAccessProofs` | theorems about the access counter between its neighbours |
| `GMMUProofs` | what each handler of a TLB and of the GMMU does to what waits in it, and what a TLB keeps of a page |
| `TranslationPathProofs` | theorems about the translation path |
| `DriverCopiesProofs` | theorems about the driver's commands and copies |

### How UVMManager corresponds to the code

Every entry point of the Go type holds `stateMu` for its whole body, so one
entry point is one action and what interleaves is the entry points: messages
from the GPU, events of the simulation engine, DMA completions.

| Action | Entry point |
|---|---|
| `PageFault(p, isWrite)` | `onPageFault` |
| `AccessCounterNotify(r)` | `onAccessCounterNotify` |
| `FaultReady(r)` | `handleFaultReady` (event) |
| `RemoteMapComplete(r)` | `completeRemoteMap` (event) |
| `DMADone(id, p)` | `onMigrationDMADone` |
| `MigrationComplete(id)` | `completeMigration` (event) |
| `ControlRsp(op)` | `onControlRsp` |
| `SendControl`, `SendReset` | `sendPendingControl`, `sendPendingAccessCounterReset` (tick) |

The variable `uvm` is the struct as a record; each Go method that changes it is
an operator from its old to its new value, under a name taken from the method.
Continuations are data: the closure given to a control operation is the field
`for` of the operation (the migration that resumes) together with the
migration's `todo` list; the closure `done` of an eviction is `then[r]`: nothing
for a pre-eviction, or the admission that waits, with its remaining victims.

Abstractions, all of data:

* One GPU and one process; a page is a number, a frame a Boolean (does the page
  hold one). Frames are interchangeable for everything said here.
* Transactions are named by region, migrations by direction and region. The code
  uses fresh strings. At most one live transaction of a region exists
  (`FaultsQueuedOnce`), and one eviction of a region (`EvictionOwnsRegion`), so
  names do not clash; both are proved (section 4), the second where no fetch
  overlaps an eviction. In the run `uvm_unsaved`, where one does, a name can
  stand for two.
* A DMA of a run of contiguous pages completes page by page: this covers every
  way of cutting runs and every order of their completion.
* The page table entry of a page is the field `pte`; the GMMU and TLBs that read
  it are not part of this module. PIDs, addresses, sizes and statistics are
  left out, and so are the latency of events (any delay is possible).
* `SelectVictims` is the declarative form of `selectLRUVictims`: walk the
  recency list from its old end, take eligible regions until the missing frames
  are covered.

Left out of this module: Ideal mode (`ideal` migrations without DMA), the reset
of all access counters at a kernel boundary, the trigger and prefetch
statistics.

`MaxSendQueue` bounds the state space: no new fault or notification is taken
while that many control messages wait. It never blocks the handling of work that
has been taken in.

### How AccessCounter and RemoteAccess correspond to the code

`AccessCounter` has the type `Comp` as a record, the queues of its three ports
among its fields, and one operator per method. `Comp.Tick` runs its parts in a
fixed order and nothing comes between them, so a tick is one function `Ticked`,
the composition of those operators, and `RemoteAccess` has it as one action.

* A port is a bounded queue in each direction; `CanSend` asks whether the
  outgoing one has room, `PeekIncoming` looks at the head of the incoming one.
* The count of a region stops at the threshold: only the comparison with it is
  ever used. A counter that was deleted reads 0.
* Replays and drains carry an address range; the driver only ever sends the range
  of one region (`drainRegionsThen`, `sendFaultReplayLocked`), so a command names
  a region.
* A request without the data of a remote demand access is not among the inputs:
  `routeTranslation` attaches it to every access it routes to the counter.
* The command processor relays in order what passes it to the counter, and
  relays a replay again while the GMMU has no room for its copy of it
  (`RelayReplayAgain`, `forwardReplay`); `GMMUStalls` says whether that happens.

`RemoteAccess` closes the system with what the counter can meet.

| Action | Code |
|---|---|
| `Tick` | `accesscounter.Comp.Tick` |
| `Translate`, `Issue`, `Respond` | the address translator: a translation says remote until the region is local, so a request can arrive long after its region has migrated; a retried request is translated again |
| `Again` | the program accesses an address it has accessed |
| `Arrive`, `Perform` | the host's memory, which answers in any order |
| `Report` | `onAccessCounterNotify` (swallowed if the region has a service) and the answer to a drain |
| `ServeResident`, `Refuse`, `RefuseNeighbour`, `StartMigration`, `FinishMigration` | the service of a region; neighbours are migrated or refused without having asked |
| `BeginEviction`, `FinalizeEviction` | an eviction as the counter sees it: no replay, a reset at the end |
| `KernelBoundary` | `resetUVMAccessCounters` |
| `SendCommand`, `SendReset` | the driver's two send queues |

`MaxCommands` bounds what the driver starts unasked while that many commands are
on their way; what it owes to a notification or a drain is never held back.

### How TLB, GMMU and TranslationPath correspond to the code

`TLB` and `GMMU` follow `AccessCounter`: the Go type is a record, a method is an
operator from the old to the new record. `TranslationPath` has one action per
handler of a tick, so that the ticks of the components interleave at will.

| Action | Code |
|---|---|
| `Translate`, `ParseTranslation`, `RouteBusy`, `Complete`, `Drained` | address translator: `translate`, `parseTranslation` (and when the port it routes to is full), `respond`, `handleDrainRange` |
| `Lookup`, `ParseFill`, `RespondEntry`, `InvalidateTLB` | TLB: `lookup`, `parseBottom`, `respondMSHREntry`, `handleInvalidateRange` |
| `AdmitWalk`, `FinalizeWalk`, `ReplayRange`, `StartInvalidate`, `CompleteInvalidate` | GMMU |
| `Dispatch`, `IssueCacheRangeFlush`, `CompleteCacheRangeFlush` | command processor |
| `Receive`, `ServeResident`, `MapRemote`, `Refuse`, `Admit`, `FinishAdmission`, `BeginEviction`, `FinishEviction` | driver, by whole regions |

* The latency of lookups and walks, the page walk cache and the tree walk are
  left out; a port and the pipeline behind it are one queue.
* A translation says which memory it names (the GPU's, the host's behind the
  access counter, or the host's frame itself), not an address.
* An MSHR entry without requests is no entry, and the answer that is being given
  is over with its last request; the TLB code keeps both as pointers that are
  nil at the same times.
* `refaultedBy` holds an identifier of a replay; only whether it is the replay at
  the head of the port is ever asked, so it is a Boolean, reset when that replay
  is consumed.
* The driver is reduced to what the GPU sees: regions that are resident as a
  whole, services in any order and number at a time. `UVMManager` has its inside.

### How DriverCopies corresponds to the code

One action per handler, named after it. A command is `[kind, pages]`, its
requests are records that say for which queue and page they are; migrations have
no queue. A queue runs one command at a time (`IsRunning`), so a request is named
uniquely by its kind, queue and page. `Settle` is the decision every handler of
the middleware ends with: is the command over, given the requests it still has.
Of the data only `dirty` is kept: the pages that the caches hold newer than
memory. A buffer's L2-dirty flag is one Boolean for the context, because a launch
marks all buffers and no function of the repository cleans them.

## 3. Runs

Those of the manager have at most ten pages; the pages, regions and budgets are chosen so that
the case in question happens.

| Run | Instance | Shows |
|---|---|---|
| `tbn_expansion` | 10 pages, two VA blocks, gaps, every residency | the loop ends at the node that the closed form names; a selected node is dense and inside its block; more residency never shrinks the fetch |
| `uvm_prefetch` | 3 one-page regions, tree of height 2, 2 frames, access counters, fairness | neighbours are prefetched: transactions are queued once and one is served at a time; none is starved except by evictions of its region; evictions end, with drains and invalidations in the way; mapping matches residency; refinement of `Residency` with prefetch |
| `uvm_partial` | 4 regions (2+1+2+1 pages), 4 frames, prefetch kept to the faulting region | region ownership, `evictingFrames`, the frame counter, nothing resident that cannot be evicted, every transaction answered, refinement of `Residency`, with regions partly resident and partly admitted |
| `uvm_lazy` | 2 regions of 2 pages, lazy mapping, 3 frames, prefetch kept to the faulting region | REMOTE installs never overwrite a better mapping |
| `remote_writes` | a write to each of two regions, again and again; symmetry under exchange of the regions | writes are held, retried or done remotely once each; the notifications that wait to be sent name each region once; a region is cared for while it holds writes; no write overtakes a migration's copy |
| `remote_live` | a write and a read of one region, fairness, a GMMU that stalls replays | accesses are answered, drains end, with kernel boundaries and evictions without end and replays that reach the counter twice |
| `translation_path` | 2 cores, 2 pages of one region, one way per TLB, one MSHR entry, one borrowed way, ports of one, one eviction; three programs | no request or miss lost or doubled on either level, sets consistent, second TLB never stale, no fault forgotten, no deadlock |
| `translation_unsettled` | the same with one page | violation, see section 6 |
| `driver_copies` | a queue that copies to, runs on, and copies from 2 managed pages, one that does so with a page of the GPU; 2 migrations; fairness | every response reaches its owner once, copies come after the flush they need, every command completes |
| `uvm_unsaved` | 4 regions (2+1+2+1 pages), 3 frames | violation, see section 6 |
| `uvm_refused` | eviction disabled, 2 frames | violation |
| `uvm_starved` | 3 regions (2+1+2 pages), 3 frames, fairness | violation |

Why the bounds are enough: every path of the fault service needs at most one
faulting region, one victim and, where it prefetches, one neighbour. In
`uvm_prefetch` the block holds three pages and the node of level 2 is denser than
51 % as soon as two of them are occupied, the faulting one and a resident one: the
third is then selected too. (A tree of height 1 would not do. A node of two pages
of which one is missing is half full and is refused.) Two frames for three pages
make such an admission wait for a victim and drain two regions, let a late fault on
a resident region select nothing but its neighbour, and let a neighbour arrive while
its own fault is queued. `uvm_partial` and `uvm_lazy` never prefetch. A
budget below the footprint makes eviction and partial admission happen; one-page
regions reach everything except regions that are partly resident, which
`uvm_partial`, `uvm_lazy` and the violation runs add. In the runs of
`RemoteAccess` ports have one slot and one access is in flight, so that every
kind of backpressure occurs; a threshold of two lets a count be there without a
notification. Two regions share ports, queues and the limit on accesses in
flight; within one region a write and a read meet.

In `translation_path` every structure has one entry, so the second request
always meets the limit: with a page per core the second miss borrows the only
way, with one page the second request joins the first's entry, and the same
access pattern on one core meets the first TLB. One eviction suffices for every
race of one region's services, since a region is served by one at a time; after
it the region can be admitted or refused again without bound. The deadlock check
is on: the only state in which the model may stop is the one where every access
is done and nothing is in service (`Finished`). `driver_copies` has one queue
whose read of managed pages is deferred; two are the hazard at
`memorycopy.go:154`, which the code does not handle.

With prefetching two things are not claimed, because they are false; TLC finds both
violated in the instance of `uvm_prefetch` too. A transaction may never be served
(`uvm_starved`): what remains is `StarvedByEvictionsOnly`, that its region is then
evicted again and again. A transaction may end without an answer (`uvm_refused`):
with evictions enabled it takes a late fault on a region that is resident while the
only other resident region is already being evicted, so that no victim is left.
`RetiredIsAnswered` is checked with prefetching off, in `uvm_partial`, and proved so.

What is not claimed for all instances: the region overlap of section 6 happens
when a tree of several regions is prefetched and one of them is partly resident.
Ownership of regions, `EvictingAccounted`, `ResidentIsEvictable`,
`MappingMatchesResidency` and the refinement of `Residency` are therefore checked
where the configuration rules it out, and only there: regions of several pages
with prefetch disabled (`uvm_partial`, `uvm_lazy`), prefetch over regions of one
page (`uvm_prefetch`). They are proved under the same condition, `NoOverlap`. In
the instance of `uvm_unsaved`, which has both, TLC finds the first four violated
too. The default configuration of the program, prefetching over regions of 16
pages, is of that kind. The frame budget and the queue of the fault service, by
contrast, are proved for every instance.

Fairness. The engine fires every event, the command processor and the copy
engine answer every request, and the driver ticks while it has something to
send. The first are stated as `[]<>(x \notin pending)` for each event, control
operation and transferring page. Each is removed only by the action that
consumes it and that action stays enabled until then, so this is weak fairness of
the action per item, in a form TLC evaluates a hundred times faster. Nothing
makes the GPU fault or notify.

In `DriverCopies` driver, command processor and DMA engine tick while they have
something to do, kernels end, and an eviction goes on once begun; no migration
has to begin. `TranslationPath` is checked for safety and deadlock only.

In `RemoteAccess` the counter ticks while a tick changes something (the engine
keeps a component awake that makes progress, and a message wakes it), host
memory answers, the translators go on, and the driver finishes services it has
begun. A tick of the driver tries both of its send queues, hence strong fairness
of each. No fairness is given to what nothing obliges: prefetch, evictions,
kernel boundaries, refusals of neighbours, the program coming back. Liveness is
checked with accesses that are made once: a program that keeps reads
outstanding without a gap can hold a drain up for ever, and nothing in the code
excludes it.

Every property has a mutant in `PROJECT.json`: a plausible slip in one
definition with which the run reports the property violated.

## 4. Proofs

Every invariant of a passing run is the conclusion of a theorem, and so are the
action properties `NoUnsavedRelease` and `RetiredIsAnswered` and the refinement
`ImplementsResidency`. A theorem holds for every value of
the constants that satisfies the modules' assumptions, unless it names a
hypothesis of its own: `NoOverlap` for most of `UVMEvictionProofs`, `NoRaces` for
one of `DriverCopiesProofs`, `PrefetchDisabled` for one of `UVMManagerProofs`.

| Module | Theorems | Hypothesis |
|---|---|---|
| `TBNExpansionProofs` | `LoopFindsLevel`, `ClimbStaysDense`, `FetchGrows` | |
| `UVMManagerProofs` | `TypeCorrect`, `FrameBudget`, `OneService`, `NoFaultLost`; `EveryFaultAnswered` | the last: prefetching off |
| `UVMEvictionProofs` | `OneEviction`, `EvictingFramesCounted`, `ResidentFound`, `MappingCorrect`, `WrittenBackFirst`, `Implements` | `NoOverlap` |
| `RemoteAccessProofs` | `TypesKept`, `RequestsKept`, `NotificationsOnce`, `SnapshotsAuthoritative`, `HeldNotForgotten` | |
| `TranslationPathProofs` | `TypeCorrect`, `SetsStayConsistent`, `EveryMissOnce`, `EveryAccessOnce`, `StalledIsCaredFor`, `SecondTLBNeverStale` | |
| `DriverCopiesProofs` | `TypeCorrect`, `EveryRequestOwedOnce`; `FlushesComeFirst` | the last: `NoRaces` |

`OrderedListsProofs` proves what the list operators return for every input:
ranks number a finite set of integers from 0, `Ascending` lists exactly its
elements, `Keep` the common ones, at most n elements have rank below n, a
nonempty finite set of integers has a least element. For counting: how often a
list has an element adds up under concatenation, append and tail, and is at most
one in a list without repetitions, such as an ascending one. That a nonempty set
of naturals has a least element stands in for induction where the predicate is a
concrete one: the least counterexample is refuted.

### The prefetcher

`TBNExpansionProofs` relates the loop of the code, on page numbers, to the closed
form. The invariant `IInv` says that the loop is at the node of some level `k`,
that it has entered every level below (each fits into the block and is dense), and
that when it has stopped, the next level is the limit, does not fit or is not
dense. `Width[k]`, the regions below a node, is a recursive function; that it
doubles, and that a wider node contains a narrower one, is proved by the least
level at which it would not. Monotonicity (`FetchGrows`) needs no loop: one more
resident page leaves every dense node dense.

### The UVM manager

`UVMManagerProofs` proves for every value of the constants that satisfies
`TBNAssumption` and `UVMAssumption` (any finite set of pages, any region size,
capacity, number of frames and configuration flags):

* `TypeCorrect`: `Spec => []TypeOK`.
* `FrameBudget`: `Spec => []FramesAccounted`: the counter `inUse` is the number
  of frames held and never exceeds the capacity or the allocator's frames.

The inductive invariant is `Safe(uvm)`: types and budget together. The types are
needed because the budget's arithmetic is about naturals and finite sets of
pages. The argument follows the code: most methods leave frames and counter
alone (`KeepsFrames`, one lemma each); frames are taken only by
`StartAdmission`, where `AdmittedFits` bounds what is taken by what is free
(the pages admitted have ranks below `avail`, and at most `avail` pages have);
they are given back only by `FinalizeEviction`, which resumes a parked service
between freeing the frames and lowering the counter, so its proof carries the
changed frames through `ResumeDeferred` before it closes the account. Each
action then follows, and PTL joins the steps.

The theorem holds also in the runs of section 6: an overlap of admission and
eviction loses data but no frame.

* `OneService`: `Spec => []SingleService`.
* `NoFaultLost`: `Spec => []FaultsQueuedOnce`.

These need that each wake-up of the fault service has an owner. `Slot` says what
goes with the single slot: a fault-ready event is for a pending transaction that
has it; an admission under way is that of a migrating transaction, and serves no
other; an admission that waits for victims is that of a transaction in handling,
there is one of them, and it waits for no eviction of a page that it is to admit
(`Apart`). `Queued` counts places. A method is called with the slot in hand, or after it was given
up, and the methods call each other: an eviction that ends resumes the admission
that waits for it, which may fail, free the slot and start the next service. The
lemmas therefore follow the calls from the innermost outward, as those of the
budget do. Neither supposes anything of the constants.

* `EveryFaultAnswered`: `Spec => RetiredIsAnswered`, with prefetching off.

What is proved of a method here is a relation between the value before it and the
value after it: `Says(m, n)` states that messages were appended to the send queue
and that each transaction closed in between is named by a replay among them. The
relation composes, so the lemmas again follow the calls. One fact is needed of the
state: an admission that waits for victims is for a page of the region of its
transaction (`Concerned`); when no frame is left, `DeferAdmission` then refuses
that region, or joins the service that brings it. With prefetching on the region
itself may be resident and only its neighbours selected, which is what `uvm_refused`
finds; the hypothesis cannot be dropped, with evictions enabled or not (section 3).

`UVMEvictionProofs` proves under `NoOverlap` (prefetching is off, which is a flag
of the program's configuration, `uvm_config.go:53`, or regions have one page):

* `OneEviction`: `Spec => []EvictionOwnsRegion`.
* `EvictingFramesCounted`: `Spec => []EvictingAccounted`.
* `ResidentFound`: `Spec => []ResidentIsEvictable`.
* `MappingCorrect`: `Spec => []MappingMatchesResidency`.
* `WrittenBackFirst`: `Spec => NoUnsavedRelease`.
* `Implements`: `Spec => ImplementsResidency`, the refinement of `Residency`.

`NoOverlap` cannot be dropped: without it TLC finds what the theorems state
violated (section 3). The inductive invariant is `Sound(m, None, 0)`, and none of
its parts is inductive without the others. `Steps`: one thing at a time carries a
migration on (an operation, a transfer, or its end). `Coming` and `Going`: a page
that moves belongs to the migration of its direction, and its region's phase says
so. `Owning`: a region is EVICTING exactly while its eviction is carried on, only such
a region holds transactions back, and what is written back is of that region. `Mapped`: what the
page table may say of a page in each state. `Listed`: resident regions are in the
recency list. `Aiming`: the region of a transaction in handling has the phase of
that, and with prefetching off a service brings in pages of its own region only.
The last conjunct is that `evicting` counts the frames of the regions being
evicted. Between the methods of one step the manager is not sound: a region's
eviction has ended and its continuation has not run, or frames have been returned
that `evicting` still counts. `Sound(m, h, c)` says so, with `h` the region in
hand and `c` the frames; the lemmas on methods carry `h` and `c` along, and a step
starts and ends with `None` and 0. For the refinement each step is shown to move
pages only `Along` the cycle of `Residency`, all from one `Stage` to the next, or
not at all; the budget of the abstract specification is `FrameBudget`.

### Driver, command processor and copies

`DriverCopiesProofs` proves for every program, any number of queues, pages,
dispatchers, DMA slots and migrations that `CopiesAssumption` allows:

* `TypeCorrect`: `Spec => []TypeOK`.
* `EveryRequestOwedOnce`: `Spec => []OwedOnce`: what somebody waits for is on its
  way, or its response is, once; nothing else is.

The inductive invariant `IInv` has four parts. `Counted(r)` is `OwedOnce` for one
request, with the debt read off the fields of the request (`OwedIsOwes` shows the
two forms equal). `OwnRequests`: a queue awaits requests of its own and only while
a command runs, without which a response could settle a command that is not
there. `Deferred`: the command that waits in `pendingD2H` is a D2H copy at the
head of its queue that waits for its flush and nothing else; it is needed because
`SettleFlushed` completes no command, and because the copies a deferred command
issues must not be owed already. Types come fourth: the three kinds of
requests that are worked on (`kernels`, `processing`, `flushing`) are disjoint by
type. Each step then either issues new requests of one queue (`Issued`), answers
the head of the response port (`ReturnStep`, `ClaimStep`), sends a migration
(`Sent`), or moves a request from one place to the next (`TakenUp`, `HandedBack`,
`Moved`). That a response at the head of the port finds its command follows from
the count alone: it is in one place, so it is owed.

* `FlushesComeFirst`: `NoRaces` implies `Spec => []CopiesSeeMemory`.

`NoRaces` says that no queue copies a page that a kernel of another queue may
write. The order between queues is the program's business: for a kernel in one
queue and a copy of its page in another, TLC finds the copy with newer data in
the caches. Order within a queue, between queues that do not race, and between
commands and migrations is the driver's, and is what the theorem is about. Its
invariant `FlushedFirst` follows a copy backwards from the DMA engine. Where a
page may be dirty, a flush is before its copy at every station: in the DMA engine
the page is clean (`DMAClean`); before a copy in the line to the command processor
a flush is in the line or under way (`LineClean`); so it is at the end of the line
for the copies that wait in the middleware for their turn (`AwaitClean`), and for
those of the deferred command (`DeferClean`). `Marked` says that the middleware's L2-dirty flag covers
kernels under way and dirty pages, without which it would skip the flush;
`OffGPU` that a page which is not on the GPU is clean; `OfProgram` and `Fitting`
that what a queue awaits is what its first command, one of the program's, asks
for. From these and `NoRaces` follows (`KernelsApart`) that a kernel under way
writes no page whose copy is on its way, the one thing that could make it dirty
again after the flush.

### The translation path

`TranslationPathProofs` proves for every program, any number of cores, pages and
regions, any sets and ways, MSHR capacities, buffer sizes and numbers of walkers
and evictions that `TLBAssumption`, `GMMUAssumption` and `PathAssumption` allow:

* `TypeCorrect`: `Spec => []TypeOK`.
* `SetsStayConsistent`: `Spec => []SetsConsistent`.
* `EveryMissOnce`: `Spec => []EachMissOnce`.
* `EveryAccessOnce`: `Spec => []EachAccessOnce`.

The four are proved together, from one inductive invariant `Inv`, because they
need each other. `GPUSound` says of each TLB that it is `Sound`: typed,
`Consistent`, a block found by the index has a mapping, and the requests in an
entry are for its own page; further that a first TLB holds only requests of its
own core (`ReqsOf`), without which an answer of the second TLB could go to
another one than the one that asked. `Once` is the account of requests. Its part
for the GMMU (`Walked`) adds up the queue of the port, the walks and the replay
queue; that a page is there once at most (`WalkedOnce`) is what makes a walk that
enters the set of walks, and one that is parked again, count once. The proof goes
by component: each handler of `TLB` has a lemma that says it keeps the TLB sound
and which requests it takes in or gives out (`SameHeld`, `TakesHeld`, `SameOpen`),
each of `GMMU` one that says what becomes of `Walked`, and `TranslationPathProofs`
joins them: a request or answer that leaves one component is the one that the
next receives (`AskSecond`, `AskWalker`, `AnswerFirst`, `AnswerSecond`,
`AnswerGMMU`, `FillTLB`). The driver moves no translation, so its steps only have
types to keep. Nothing is assumed of the page table, and the theorems therefore
hold also where an eviction overtakes an answer (`translation_unsettled`).

* `StalledIsCaredFor`: `Spec => []NoFaultForgotten`.
* `SecondTLBNeverStale`: `Spec => []L2NeverStale`.

The first has the invariant `Cares`: every translation that waits in the replay
queue is cared for, and it is marked as faulted again only while the replay that
met it is at the head of the port. The driver takes a fault of a region that has
an open transaction without opening another, so the proof of `Receive` is that
the transaction is as good as the fault, and the one of `Dispatch` that a replay
which leaves the command processor reaches the port.

The second has the invariant `Fresh`, on the order of events around an eviction.
`Orderly` counts the invalidations (`Pending`) and the flushes (`Flushing`) of a
region on their way through command processor, GMMU and TLBs, and bounds them by
the state of the region's service; while a region is being taken from the GPU the
table says that it migrates, so that no walk answers "Local" any more; and once
its invalidation has passed the second TLB the TLB is `Clean` of each of its pages:
it stores no local translation, and one that is on its way is marked
`staleOnFill`, so that it will be answered and not stored. The lemmas of
`GMMUProofs` that end in `Clean` say so of each handler. The argument needs `EachMissOnce`:
an answer that comes back has an entry to carry the mark.

### The access counter

`RemoteAccessProofs` proves for every set of requests, keys and translators, any
threshold, limit and size of ports that `CounterAssumption` and
`RemoteAssumption` allow, and for every number of turns of a tick's loops:

* `TypesKept`: `Spec => []TypeOK`.
* `RequestsKept`: `Spec => []EachRequestOnce`.
* `NotificationsOnce`: `Spec => []AskedOnce`.
* `SnapshotsAuthoritative`: `Spec => []SnapshotAuthoritative`.
* `HeldNotForgotten`: `Spec => []HeldIsCaredFor`.

The invariant is `Inv == TypeOK /\ Good`, and `Good` has four parts that each say
something of a counter and its surroundings, so that they can be followed through
the parts of a tick. `Placed` counts the places of a request. `Served` says of a
region that drains that its drain, or the answer to it, is on its way once, and
that no refusal of the region comes behind the drain, where it would let writes
out; that is why no write is on its way when the copy begins. `Asked`: what waits
to be sent is latched, without duplicates. `Remembered`: a latched region is
cared for, as one with held writes is, because a write that comes for it is held
without a notification. A part of the tick that
takes several turns is a recursive function in the model; that it keeps the
invariant is shown by the least turn at which it would not.

### What is only model-checked

Liveness (`StarvedByEvictionsOnly`, `EvictionsEnd`, `AccessesEnd`, `DrainsEnd`,
`CommandsEnd`) and the absence of deadlock are outside the prover's reach.
Nothing is proved without `NoOverlap` that the run `uvm_unsaved` refutes.

## 5. Plan

1. (done) `TBN`, `TBNExpansion`, `UVMManager`, `Residency`, frame budget proved.
2. (done) `AccessCounter`, `RemoteAccess`: counting, latch, held writes, drains,
   resets, kernel boundaries against notifications.
3. (done) `TLB`, `GMMU`, `TranslationPath`: fills against range invalidations,
   faults against replays, the drain of an eviction; the command processor's
   order of commands.
4. (done) `DriverCopies`: the copy middleware and the UVM manager at one port,
   flushes against copies.
5. `UVMSystem`: the manager with access counter and translation path: every held
   write is released, no write is done on the host for a page that lives on the
   GPU (a refusal names a region, residency is by page); the frames behind copies
   that wait while an eviction frees them; the allocator.
6. (done) Proofs of every invariant that the runs check, and of the refinement of
   `Residency`; of `RetiredIsAnswered` with prefetching off.

## 6. What the runs found

* `uvm_unsaved` (code): TBN selects the pages on the host of a region that is
  partly resident while `preEvict` is evicting its resident pages.
  `markRegionsMigrating` then overwrites the phase and migration of a region that
  is EVICTING (`beginEviction` guards the opposite order only), and
  `releaseEvictedPages` frees every GPU-resident page of the region, also one
  that arrived during the eviction and was never written back.
* `uvm_refused` (comment and code differ): a late fault on a region that has
  become resident selects only neighbours, finds no frame, and is retired without
  a message that names its region, which the comments in `uvm_regions.go:112` and
  `uvm_fault.go:567` promise.
* `uvm_starved` (comment and code differ): a parked transaction resumes at the
  tail of the queue and its region can be evicted again before its turn, so the
  FIFO order that `uvm_fault.go:403` names does not hold and one transaction can
  be served never.
* `translation_unsettled` (comments and code differ): a drain counts the accesses
  whose local translation has reached the translator. One that the TLBs have
  answered before the page table was parked, and that is still on its way, is not
  counted; it reaches the caches after the range flush, while the data is being
  copied. `addresstranslator.go:503` argues that such an access would fault.

Found while modelling, and listed as hazards without a property: the mapping to
the host's frame that a refused replay leaves in the TLBs survives a later
admission (`uvm_migration.go:238`); `pendingD2H` has room for one queue
(`memorycopy.go:154`); a copy that waits keeps a physical address
(`memorycopy.go:215`); copies to managed pages do not wait for migrations
(`memorycopy.go:83`).

## 7. Not modelled

Functional emulation, instruction timing, benchmarks, tracing and the
alternatives to UVM's path (Utopia, Avatar, virtual caching, the legacy page
migration with its shootdowns) are outside this project's aim; they make up most
of the repository's lines. Of the modelled parts are left out: in the TLB the
full flush, pausing, several top channels, cancelled walks and the compressed
MSHR; in the GMMU walk latency, the page walk cache, batched and software walks;
in the command processor what belongs to the legacy migration; in the driver the
unified multi-GPU launch and the application's threads. The caches appear as the
set of pages they hold newer data of, the allocator as a number of frames, the
engine and the ports as the interleaving of actions and bounded queues. See
`PROJECT.json`, `components`, for each.

A module of the write-back cache (`akita/mem/cache/writeback`) would come next.
Reading it raised two questions that no run here answers: whether a fetch can
take the older of two evictions of one line (`writebufferstage.go:62`), and
whether the bank's reserved lane holds, since `downwardInflightTransCount` is
decremented for hits too (`bankstage.go:248`, `293`) and incremented only for
evictions (`bankstage.go:191`).
