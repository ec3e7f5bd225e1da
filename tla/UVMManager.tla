----------------------------- MODULE UVMManager -----------------------------
(***************************************************************************)
(* The UVM manager of the GPU driver (src/mgpusim/amd/driver/uvm_*.go).    *)
(*                                                                         *)
(* Every entry point of UVMManager takes stateMu for its whole body, so    *)
(* one entry point is one action here.  What interleaves is the entry      *)
(* points: messages arriving from the GPU, events of the simulation        *)
(* engine, completions of DMA transfers.  The variable uvm is the struct   *)
(* UVMManager; each method that changes it is an operator from its old to  *)
(* its new value, and the callbacks a method passes along (what to do once *)
(* a control operation or an eviction is done) are data kept in it.        *)
(*                                                                         *)
(* One GPU, one process.  A fault transaction is named by its region and a *)
(* migration by its direction and the region it was opened for: the code's *)
(* identifiers are fresh strings, and at most one transaction of a region  *)
(* is alive at a time.                                                     *)
(***************************************************************************)
EXTENDS TBN, OrderedLists

CONSTANTS
  Capacity,              \* capacityFrames(): the frame budget of UVM
  PhysFrames,            \* frames the allocator can hand out to UVM
  AccessCounterEnabled,  \* cold pages may be reached over PCIe
  LazyRemotePTE,         \* the first fault, not the allocation, maps them so
  EvictionDisabled,      \* no eviction: an admission takes what is free
  MaxSendQueue,          \* bound: no new work is taken in above this backlog
  None                   \* the nil pointer and the empty identifier

ASSUME UVMAssumption ==
  /\ Capacity \in Nat /\ PhysFrames \in Nat /\ MaxSendQueue \in Nat
  /\ AccessCounterEnabled \in BOOLEAN /\ LazyRemotePTE \in BOOLEAN
  /\ EvictionDisabled \in BOOLEAN
  /\ None \notin Nat

VARIABLE uvm

AdmitAsEvict(r) == <<"evict", r>>  \* mutant: the wrong direction
Admit(r)     == <<"admit", r>>     \* the CPU-to-GPU migration of txn r
Evict(r)     == <<"evict", r>>     \* the GPU-to-CPU migration of victim r
EvictOf      == [r \in Regions |-> Evict(r)]
MigrationIds == {"admit", "evict"} \X Regions

(* An operation and the migration that resumes when it is answered. *)
ControlOps ==
  [kind : {"TLBInvalidate", "CacheRangeFlush"}, region : Regions, for : {"evict"} \X Regions]
    \cup
  [kind : {"TLBInvalidate", "RemoteDrain"}, region : Regions, for : {"admit"} \X Regions]
Replays    == [kind : {"FaultReplay"}, region : Regions, refused : BOOLEAN]
Messages   == ControlOps \cup Replays

(* A migration: its pages, the transactions it answers, the pages still in *)
(* transfer, the regions still to drain or to invalidate.                  *)
Migration ==
  [pages : SUBSET Pages, faults : SUBSET Regions, dma : SUBSET Pages,
   todo : Seq(Regions), invalidate : BOOLEAN]

NoMigration ==
  [pages |-> {}, faults |-> {}, dma |-> {}, todo |-> <<>>, invalidate |-> FALSE]

(* An admission that waits for the rest of its victims. *)
Waiting == [txn : Regions, pages : SUBSET Pages, rest : Seq(Regions)]

(* What the simulation engine has scheduled. *)
Events ==
  ({"FaultReady", "RemoteMap"} \X Regions) \cup ({"MigrationComplete"} \X MigrationIds)

(* struct UVMManager. *)
Managers ==
  [state       : [Pages -> {"CPUResident", "GPUResident", "MigratingToGPU", "MigratingToCPU"}],
   frame       : [Pages -> BOOLEAN],
   remote      : [Pages -> BOOLEAN],
   pte         : [Pages -> {"Invalid", "Remote", "Migrating", "Local"}],
   migrationOf : [Pages -> MigrationIds \cup {None}],
   phase       : [Regions -> {"Idle", "FaultPending", "FaultHandling",
                              "MigratingToGPU", "Evicting"}],
   regionMig   : [Regions -> MigrationIds \cup {None}],
   claimed     : SUBSET Regions,
   faults      : [Regions -> {"None", "Pending", "Handling", "Migrating"}],
   cue         : Seq(Regions),
   active      : Regions \cup {None},
   deferred    : SUBSET Regions,
   migrations  : [MigrationIds -> Migration],
   then        : [Regions -> Waiting \cup {None}],
   lru         : Seq(Regions),
   inUse       : Nat,
   evicting    : Nat,
   remoteMaps  : SUBSET Regions,
   events      : SUBSET Events,
   controlOps  : SUBSET ControlOps,
   sendQueue   : Seq(Messages),
   resets      : Seq(Regions)]

-----------------------------------------------------------------------------
(* Queries.                                                                *)

FreeFramesEarly(m) == Capacity + m.evicting - m.inUse   \* mutant
FreeFrames(m) == IF m.inUse >= Capacity THEN 0 ELSE Capacity - m.inUse

Resident(m) == {p \in Pages : m.state[p] = "GPUResident"}

(* The frames an eviction of r would return. *)
RegionPages(m, r) == PagesOf(r)   \* mutant
RegionFrames(m, r) == {p \in PagesOf(r) : m.frame[p] /\ p \in Resident(m)}

(* The pages of r that live on the host and are not mapped yet. *)
ColdPagesUnchecked(m, r) == {p \in PagesOf(r) : ~m.remote[p]}   \* mutant
ColdPages(m, r) == {p \in PagesOf(r) : m.state[p] = "CPUResident" /\ ~m.remote[p]}

(* A fault service, a migration or an eviction has the region. *)
Owned(m, r) ==
  m.phase[r] # "Idle" \/ m.regionMig[r] # None \/ r \in m.claimed

Eligible(m, r, exclude) == ~Owned(m, r) /\ PagesOf(r) \cap exclude = {}

(* The CPU-to-GPU migration that already carries a page of r, or None. *)
CoveringMigration(m, r) ==
  LET ids == {m.migrationOf[p] : p \in PagesOf(r)}
               \cap {i \in MigrationIds : i[1] = "admit" /\ m.migrations[i] # NoMigration}
  IN  IF ids = {} THEN None ELSE CHOOSE i \in ids : TRUE

RegionsOfPages(S) == {RegionOf(p) : p \in S}

(* selectLRUVictims: eligible regions from the old end of the recency list *)
(* until the missing frames are covered, or all of them.                   *)
SelectVictims(m, required, exclude) ==
  LET frames(S) == Cardinality(UNION {RegionFrames(m, r) : r \in S})
      old  == Keep(Backwards(m.lru),
                   {r \in Regions : Eligible(m, r, exclude) /\ RegionFrames(m, r) # {}})
      short(k) == frames({old[i] : i \in 1..k}) < required - FreeFrames(m)
  IN  IF required <= FreeFrames(m)
      THEN <<>>
      ELSE Keep(old, {old[k] : k \in {j \in 1..Len(old) : short(j - 1)}})

-----------------------------------------------------------------------------
(* Messages to the GPU.                                                    *)

Send(m, msgs) == [m EXCEPT !.sendQueue = @ \o msgs]

ReplayAll(m, rs, refused) ==
  Send(m, [i \in 1..Len(rs) |->
             [kind |-> "FaultReplay", region |-> rs[i], refused |-> refused]])

(* Each region r of rs gets an operation that resumes the migration for[r]. *)
Request(m, kind, rs, for) ==
  LET op(r) == [kind |-> kind, region |-> r, for |-> for[r]]
  IN  Send([m EXCEPT !.controlOps = @ \cup {op(r) : r \in Elements(rs)}],
           [i \in 1..Len(rs) |-> op(rs[i])])

(* queueAccessCounterResets, queueRegionCounterResetLocked: a reset that is *)
(* still queued is not queued again.                                        *)
QueueResets(m, rs) ==
  IF AccessCounterEnabled
  THEN [m EXCEPT !.resets = @ \o Keep(rs, Regions \ Elements(m.resets))]
  ELSE m

-----------------------------------------------------------------------------
(* The fault queue and the single service slot.                            *)

StartNextAlways(m) ==   \* mutant: ignores the busy slot
  IF m.cue = <<>>
  THEN m
  ELSE [m EXCEPT !.active = Head(m.cue),
                 !.cue = Tail(@),
                 !.claimed = @ \cup {Head(m.cue)},
                 !.phase[Head(m.cue)] = IF @ = "Evicting" THEN @ ELSE "FaultPending",
                 !.events = @ \cup {<<"FaultReady", Head(m.cue)>>}]

(* startNextFaultServiceLocked, scheduleFaultHandlingLocked.  An eviction  *)
(* keeps the phase of its region.                                          *)
StartNext(m) ==
  IF m.active # None \/ m.cue = <<>>
  THEN m
  ELSE LET r == Head(m.cue)
       IN  [m EXCEPT !.active = r,
                     !.cue = Tail(@),
                     !.claimed = @ \cup {r},
                     !.phase[r] = IF @ = "Evicting" THEN @ ELSE "FaultPending",
                     !.events = @ \cup {<<"FaultReady", r>>}]

Unclaim(m, S) ==
  [m EXCEPT !.claimed = @ \ S,
            !.phase = [r \in Regions |->
                         IF r \in S \cap m.claimed /\ @[r] # "Evicting"
                         THEN "Idle" ELSE @[r]]]

FreeSlot(m, S) == IF m.active \in S THEN StartNext([m EXCEPT !.active = None]) ELSE m

ParkFault(m, r) ==
  FreeSlot(Unclaim([m EXCEPT !.faults[r] = "Pending",
                             !.deferred = @ \cup {r}], {r}), {r})

ResumeNothing(m, r) == m   \* mutant
ResumeTwice(m, r) ==       \* mutant: the parked entry stays
  IF r \in m.deferred THEN StartNext([m EXCEPT !.cue = Append(@, r)]) ELSE m
ResumeDeferred(m, r) ==
  IF r \in m.deferred
  THEN StartNext([m EXCEPT !.deferred = @ \ {r}, !.cue = Append(@, r)])
  ELSE m

(* Closes the transactions S and says nothing to the GPU. *)
RetireFaults(m, S) ==
  FreeSlot([Unclaim(m, S) EXCEPT
              !.faults = [r \in Regions |-> IF r \in S THEN "None" ELSE @[r]]], S)

FinishSilently(m, S) == RetireFaults(m, S)   \* mutant
FinishFaults(m, S) == RetireFaults(ReplayAll(m, Ascending(S), FALSE), S)

OpenFault(m, r) ==
  StartNext([m EXCEPT !.faults[r] = "Pending", !.cue = Append(@, r)])

-----------------------------------------------------------------------------
(* Evictions.                                                              *)

(* The migration-recency list, newest first. *)
AddNewLRU(m, rs) ==   \* mutant: a region is entered only into an empty list
  IF m.lru = <<>> THEN [m EXCEPT !.lru = Backwards(rs)] ELSE m
AddLRU(m, rs)   == [m EXCEPT !.lru = Backwards(rs) \o Keep(@, Regions \ Elements(rs))]
RemoveLRU(m, S) == [m EXCEPT !.lru = Keep(@, Regions \ S)]

Evictable(m, r) == Eligible(m, r, {}) /\ RegionFrames(m, r) # {}

(* evictionParkPTEs: the pages of S whose mapping is parked. *)
ParkedNever(m, S) == {}   \* mutant
Parked(m, S) == {p \in Resident(m) : RegionOf(p) \in S}

(* beginEviction for each region of vs; then says what follows the last    *)
(* step of the eviction: None, or the admission that waits for the frames. *)
BeginEvictions(m, vs, then) ==
  LET S == Elements(vs)
      victims == UNION {RegionFrames(m, r) : r \in S}
  IN  Request(
        [RemoveLRU(m, S) EXCEPT
           !.phase = [r \in Regions |-> IF r \in S THEN "Evicting" ELSE @[r]],
           !.evicting = @ + Cardinality(victims),
           !.pte = [p \in Pages |-> IF p \in Parked(m, S) THEN "Migrating" ELSE @[p]],
           !.then = [r \in Regions |-> IF r \in S THEN then ELSE @[r]]],
        "TLBInvalidate", vs, EvictOf)

(* preEvict: keep one region of frames free or on its way to be free. *)
PreEvict(m, exclude) ==
  IF EvictionDisabled \/ FreeFrames(m) + m.evicting >= PagesPerRegion
  THEN m
  ELSE BeginEvictions(
         m, SelectVictims(m, PagesPerRegion - m.evicting, exclude), None)

-----------------------------------------------------------------------------
(* Migrations.                                                             *)

(* newMigration, admitPageToMigration for a CPU-to-GPU transfer: the pages *)
(* of sel, in address order, that are on the CPU and find a frame.         *)
AdmittedOneMore(m, sel) ==   \* mutant: off by one
  {p \in sel : m.state[p] = "CPUResident" /\ Rank(sel, p) <= FreeFrames(m)}
Admitted(m, sel) ==
  LET cpu   == {p \in sel : m.state[p] = "CPUResident"}
      needs == {p \in cpu : ~m.frame[p]}
      avail == Min({FreeFrames(m), IF m.inUse >= PhysFrames THEN 0
                                   ELSE PhysFrames - m.inUse})
  IN  {p \in cpu : m.frame[p] \/ Rank(needs, p) < avail}

(* issueMigrationDMA: one transfer per contiguous run of pages; without a  *)
(* page to move the completion is scheduled at once.                       *)
StartTransfer(m, id) ==
  LET moved == {p \in m.migrations[id].pages : m.frame[p]}
  IN  [m EXCEPT !.migrations[id].dma = moved,
                !.events = IF moved = {} THEN @ \cup {<<"MigrationComplete", id>>} ELSE @]

(* drainRegionsThen: one region at a time; without access counters nothing *)
(* can be outstanding and the drain is skipped.                            *)
DrainThenStop(m, id) ==   \* mutant: the last answer starts nothing
  IF m.migrations[id].todo = <<>>
  THEN m
  ELSE Request([m EXCEPT !.migrations[id].todo = Tail(@)],
               "RemoteDrain", <<Head(m.migrations[id].todo)>>, [r \in Regions |-> id])
DrainNext(m, id) ==
  LET todo == m.migrations[id].todo
  IN  IF todo = <<>> \/ ~AccessCounterEnabled
      THEN StartTransfer([m EXCEPT !.migrations[id].todo = <<>>], id)
      ELSE Request([m EXCEPT !.migrations[id].todo = Tail(@)],
                   "RemoteDrain", <<Head(todo)>>, [r \in Regions |-> id])

(* deferAdmission: no page could be taken.  The regions nobody else brings *)
(* in are refused; the transaction joins a migration that covers its own   *)
(* region, or is over.                                                     *)
DeferAdmission(m, r, sel) ==
  LET rs  == RegionsOfPages(sel)
      m1  == ReplayAll(m, Ascending({k \in rs : CoveringMigration(m, k) = None}), TRUE)
      id  == CoveringMigration(m, r)
  IN  IF r \in rs /\ id # None
      THEN [m1 EXCEPT !.faults[r] = "Migrating", !.migrations[id].faults = @ \cup {r}]
      ELSE RetireFaults(m1, {r})

(* startCPUToGPUMigration, markRegionsMigrating. *)
StartAdmission(m, r, sel) ==
  LET adm == Admitted(m, sel)
      new == {p \in adm : ~m.frame[p]}
      rs  == RegionsOfPages(adm)
      id  == Admit(r)
      m1  == [m EXCEPT
                !.inUse = @ + Cardinality(new),
                !.frame = [p \in Pages |-> @[p] \/ p \in adm],
                !.state = [p \in Pages |-> IF p \in adm THEN "MigratingToGPU" ELSE @[p]],
                !.pte = [p \in Pages |-> IF p \in adm THEN "Migrating" ELSE @[p]],
                !.migrationOf = [p \in Pages |-> IF p \in adm THEN id ELSE @[p]],
                !.phase = [k \in Regions |-> IF k \in rs THEN "MigratingToGPU" ELSE @[k]],
                !.regionMig = [k \in Regions |-> IF k \in rs THEN id ELSE @[k]],
                !.faults[r] = "Migrating",
                !.migrations[id] =
                   [pages |-> adm, faults |-> {r}, dma |-> {}, todo |-> Ascending(rs),
                    invalidate |-> \E p \in adm : m.remote[p]]]
  IN  IF adm = {} THEN DeferAdmission(m, r, sel) ELSE PreEvict(DrainNext(m1, id), sel)

(* withCapacityFrom. *)
WithCapacity(m, r, sel) ==
  LET victims == SelectVictims(m, Cardinality(sel), sel)
  IN  IF FreeFrames(m) >= Cardinality(sel) \/ EvictionDisabled \/ victims = <<>>
      THEN StartAdmission(m, r, sel)
      ELSE BeginEvictions(m, <<Head(victims)>>,
                          [txn |-> r, pages |-> sel, rest |-> Tail(victims)])

(* The step of evictVictimsThen: the next victim that is still evictable,  *)
(* else the admission looks at its capacity again.                         *)
EvictNext(m, wait) ==
  LET left == {i \in 1..Len(wait.rest) : Evictable(m, wait.rest[i])}
      i    == Min(left)
  IN  IF left = {}
      THEN WithCapacity(m, wait.txn, wait.pages)
      ELSE BeginEvictions(m, <<wait.rest[i]>>,
             [wait EXCEPT !.rest = SubSeq(@, i + 1, Len(@))])

ResumeWaiting(m, r) ==
  LET wait == m.then[r]
      m1   == [m EXCEPT !.then[r] = None]
  IN  IF wait = None THEN m1 ELSE EvictNext(m1, wait)

(* finalizeEviction, releaseEvictedPages. *)
FinalizeEviction(m, r) ==
  LET out == {p \in PagesOf(r) : m.frame[p] /\ m.state[p] \in {"MigratingToCPU", "GPUResident"}}
      n   == Cardinality(out)
      mapped == IF AccessCounterEnabled /\ ~LazyRemotePTE THEN "Remote" ELSE "Invalid"
      m1  == QueueResets(
               [m EXCEPT
                  !.frame = [p \in Pages |-> @[p] /\ p \notin out],
                  !.state = [p \in Pages |-> IF p \in out THEN "CPUResident" ELSE @[p]],
                  !.remote = [p \in Pages |-> IF p \in out THEN mapped = "Remote" ELSE @[p]],
                  !.pte = [p \in Pages |-> IF p \in out THEN mapped ELSE @[p]],
                  !.phase[r] = "Idle"], <<r>>)
      m2  == ResumeDeferred(IF out = {} THEN m1 ELSE [m1 EXCEPT !.regionMig[r] = None], r)
  IN  IF out = {}
      THEN m2
      ELSE [RemoveLRU(m2, {r}) EXCEPT !.inUse = IF @ >= n THEN @ - n ELSE 0,
                                      !.evicting = IF @ >= n THEN @ - n ELSE 0]

(* evictionStartD2H. *)
StartWriteBack(m, r) ==
  LET out == RegionFrames(m, r)
      id  == Evict(r)
  IN  IF out = {}
      THEN ResumeWaiting(FinalizeEviction(m, r), r)
      ELSE StartTransfer(
             [m EXCEPT
                !.state = [p \in Pages |-> IF p \in out THEN "MigratingToCPU" ELSE @[p]],
                !.migrationOf = [p \in Pages |-> IF p \in out THEN id ELSE @[p]],
                !.phase[r] = "Evicting",
                !.regionMig[r] = id,
                !.migrations[id] =
                   [pages |-> out, faults |-> {}, dma |-> {}, todo |-> <<>>,
                    invalidate |-> FALSE]], id)

ForgetMigration(m, id) ==
  [m EXCEPT !.migrations[id] = NoMigration,
            !.migrationOf = [p \in Pages |-> IF @[p] = id THEN None ELSE @[p]]]

(* finishMigrationLocked. *)
FinishAdmission(m, id) ==
  LET mig == m.migrations[id]
      rs  == RegionsOfPages(mig.pages)
      m1  == QueueResets(
               [m EXCEPT
                  !.regionMig = [r \in Regions |-> IF r \in rs THEN None ELSE @[r]],
                  !.phase = [r \in Regions |->
                               IF r \in rs /\ @[r] = "MigratingToGPU" THEN "Idle" ELSE @[r]]],
               Ascending(rs))
  IN  FinishFaults(ReplayAll(ForgetMigration(m1, id), Ascending(rs), FALSE), mig.faults)

(* invalidateRegionsThen. *)
InvalidateNext(m, id) ==
  LET todo == m.migrations[id].todo
  IN  IF todo = <<>>
      THEN FinishAdmission(m, id)
      ELSE Request([m EXCEPT !.migrations[id].todo = Tail(@)],
                   "TLBInvalidate", <<Head(todo)>>, [r \in Regions |-> id])

(* completeCPUToGPUMigrationLocked. *)
CompleteAdmission(m, id) ==
  LET mig == m.migrations[id]
      rs  == Ascending(RegionsOfPages(mig.pages))
      m1  == AddLRU(
               [m EXCEPT
                  !.state = [p \in Pages |-> IF p \in mig.pages THEN "GPUResident" ELSE @[p]],
                  !.remote = [p \in Pages |-> @[p] /\ p \notin mig.pages],
                  !.pte = [p \in Pages |-> IF p \in mig.pages THEN "Local" ELSE @[p]]], rs)
  IN  InvalidateNext(
        IF mig.invalidate THEN [m1 EXCEPT !.migrations[id].todo = rs] ELSE m1, id)

(* completeEvictionMigrationLocked. *)
ForgetWriteBack(m, r) == ResumeWaiting(ForgetMigration(m, Evict(r)), r)   \* mutant
CompleteWriteBack(m, r) ==
  LET id == Evict(r)
      waiting == m.migrations[id].faults
      m1 == ForgetMigration(FinalizeEviction(m, r), id)
  IN  ResumeWaiting(FinishFaults(m1, waiting), r)

-----------------------------------------------------------------------------
(* The service of one fault transaction.                                   *)

InFlight(m) == {p \in Pages : m.migrationOf[p] # None}

ServiceFault(m, r) ==
  LET id  == CoveringMigration(m, r)
      sel == Selection(Resident(m), InFlight(m), r)
  IN  IF id # None
      THEN [m EXCEPT !.faults[r] = "Migrating", !.migrations[id].faults = @ \cup {r}]
      ELSE IF sel = {} THEN FinishFaults(m, {r})
      ELSE WithCapacity(m, r, sel)

(* tryLazyRemoteMapLocked: a fault that only needs the region to be mapped *)
(* REMOTE.  A write behind a mapping on its way rides it; a first write    *)
(* does not ask for one.                                                   *)
LazyMaps(m, r, isWrite) ==
  /\ AccessCounterEnabled /\ LazyRemotePTE
  /\ ~Owned(m, r)
  /\ \/ r \in m.remoteMaps
     \/ /\ ~isWrite
        /\ ColdPages(m, r) # {}

-----------------------------------------------------------------------------
(* The entry points.                                                       *)

Eager == AccessCounterEnabled /\ ~LazyRemotePTE

Init ==
  uvm = [state       |-> [p \in Pages |-> "CPUResident"],
         frame       |-> [p \in Pages |-> FALSE],
         remote      |-> [p \in Pages |-> Eager],
         pte         |-> [p \in Pages |-> IF Eager THEN "Remote" ELSE "Invalid"],
         migrationOf |-> [p \in Pages |-> None],
         phase       |-> [r \in Regions |-> "Idle"],
         regionMig   |-> [r \in Regions |-> None],
         claimed     |-> {},
         faults      |-> [r \in Regions |-> "None"],
         cue         |-> <<>>,
         active      |-> None,
         deferred    |-> {},
         migrations  |-> [i \in MigrationIds |-> NoMigration],
         then        |-> [r \in Regions |-> None],
         lru         |-> <<>>,
         inUse       |-> 0,
         evicting    |-> 0,
         remoteMaps  |-> {},
         events      |-> {},
         controlOps  |-> {},
         sendQueue   |-> <<>>,
         resets      |-> <<>>]

(* onPageFault: a fault of a region with a live transaction joins it. *)
PageFault(p, isWrite) ==
  LET r == RegionOf(p)
  IN  /\ Len(uvm.sendQueue) < MaxSendQueue
      /\ uvm' = IF uvm.faults[r] # "None" THEN uvm
                ELSE IF LazyMaps(uvm, r, isWrite)
                THEN [uvm EXCEPT !.remoteMaps = @ \cup {r},
                                 !.events = @ \cup {<<"RemoteMap", r>>}]
                ELSE OpenFault(uvm, r)

(* onAccessCounterNotify: swallowed when somebody has the region. *)
AccessCounterNotify(r) ==
  /\ Len(uvm.sendQueue) < MaxSendQueue
  /\ uvm' = IF uvm.faults[r] # "None" \/ Owned(uvm, r) THEN uvm ELSE OpenFault(uvm, r)

(* handleFaultReady. *)
FaultReady(r) ==
  LET m == [uvm EXCEPT !.events = @ \ {<<"FaultReady", r>>}]
  IN  /\ <<"FaultReady", r>> \in uvm.events
      /\ uvm' = IF m.faults[r] # "Pending" THEN m
                ELSE IF m.phase[r] = "Evicting" THEN ParkFault(m, r)
                ELSE ServiceFault([m EXCEPT !.faults[r] = "Handling",
                                            !.phase[r] = "FaultHandling"], r)

(* completeRemoteMap: maps what is still cold, then replays the region. *)
RemoteMapComplete(r) ==
  LET cold == ColdPages(uvm, r)
  IN  /\ <<"RemoteMap", r>> \in uvm.events
      /\ uvm' = ReplayAll(
                  [uvm EXCEPT
                     !.events = @ \ {<<"RemoteMap", r>>},
                     !.remoteMaps = @ \ {r},
                     !.remote = [p \in Pages |-> @[p] \/ p \in cold],
                     !.pte = [p \in Pages |-> IF p \in cold THEN "Remote" ELSE @[p]]],
                  <<r>>, FALSE)

(* onMigrationDMADone.  A transfer moves a run of contiguous pages; taking  *)
(* the pages one by one covers every way of cutting the runs.               *)
DMADone(id, p) ==
  /\ p \in uvm.migrations[id].dma
  /\ uvm' = [uvm EXCEPT
               !.migrations[id].dma = @ \ {p},
               !.events = IF uvm.migrations[id].dma = {p}
                          THEN @ \cup {<<"MigrationComplete", id>>} ELSE @]

(* completeMigration. *)
MigrationComplete(id) ==
  LET m == [uvm EXCEPT !.events = @ \ {<<"MigrationComplete", id>>}]
  IN  /\ <<"MigrationComplete", id>> \in uvm.events
      /\ uvm' = IF m.migrations[id] = NoMigration THEN m
                ELSE IF id[1] = "admit" THEN CompleteAdmission(m, id)
                ELSE CompleteWriteBack(m, id[2])

(* onControlRsp: resumes the sequence that waited for the operation. *)
ControlRsp(op) ==
  LET m == [uvm EXCEPT !.controlOps = @ \ {op}]
  IN  /\ op \in uvm.controlOps
      /\ op \notin Elements(uvm.sendQueue)
      /\ uvm' = CASE op.for[1] = "evict" /\ op.kind = "TLBInvalidate" ->
                       Request(m, "CacheRangeFlush", <<op.region>>, EvictOf)
                  [] op.for[1] = "evict" /\ op.kind = "CacheRangeFlush" ->
                       StartWriteBack(m, op.region)
                  [] op.for[1] = "admit" /\ op.kind = "RemoteDrain" ->
                       DrainNext(m, op.for)
                  [] op.for[1] = "admit" /\ op.kind = "TLBInvalidate" ->
                       InvalidateNext(m, op.for)

(* sendPendingControl and sendPendingAccessCounterReset: one per tick. *)
SendControl ==
  /\ uvm.sendQueue # <<>>
  /\ uvm' = [uvm EXCEPT !.sendQueue = Tail(@)]

SendReset ==
  /\ uvm.resets # <<>>
  /\ uvm' = [uvm EXCEPT !.resets = Tail(@)]

Next ==
  \/ \E p \in Pages, isWrite \in BOOLEAN : PageFault(p, isWrite)
  \/ \E r \in Regions : AccessCounterEnabled /\ AccessCounterNotify(r)
  \/ \E r \in Regions : FaultReady(r)
  \/ \E r \in Regions : RemoteMapComplete(r)
  \/ \E id \in MigrationIds, p \in Pages : DMADone(id, p)
  \/ \E id \in MigrationIds : MigrationComplete(id)
  \/ \E op \in ControlOps : ControlRsp(op)
  \/ SendControl
  \/ SendReset

Spec == Init /\ [][Next]_uvm

(* The simulation engine fires every scheduled event, the copy engine and  *)
(* the command processor answer every request, and the driver ticks while  *)
(* it has something to send.  Nothing makes the GPU fault or notify.  The  *)
(* first three are weak fairness of FaultReady, RemoteMapComplete,         *)
(* MigrationComplete, ControlRsp and DMADone, event by event: what is      *)
(* scheduled or asked for stays so until the action that consumes it.      *)
Fairness ==
  /\ \A e \in Events : []<>(e \notin uvm.events)
  /\ \A op \in ControlOps : []<>(op \notin uvm.controlOps)
  /\ \A id \in MigrationIds, p \in Pages : []<>(p \notin uvm.migrations[id].dma)
  /\ WF_uvm(SendControl)
  /\ WF_uvm(SendReset)

FairSpec == Spec /\ Fairness

-----------------------------------------------------------------------------
(* Properties.                                                             *)

(* Every field of the manager stays in its type. *)
TypeOK == uvm \in Managers

(* The budget counter is the number of frames UVM holds, and the capacity  *)
(* is never over-committed: frames are taken in admitPageToMigration and   *)
(* returned in releaseEvictedPages, several transfers apart.               *)
FramesAccounted ==
  /\ uvm.inUse = Cardinality({p \in Pages : uvm.frame[p]})
  /\ uvm.inUse <= Capacity
  /\ uvm.inUse <= PhysFrames

(* The mapping the GPU walks never names a place that does not hold the    *)
(* page: LOCAL only with a frame and the data in it, REMOTE only while the *)
(* host copy is the page, and nothing usable while the page moves.         *)
MappingMatchesResidency ==
  \A p \in Pages :
    /\ uvm.pte[p] = "Local" => uvm.state[p] = "GPUResident"
    /\ uvm.pte[p] = "Remote" => uvm.state[p] = "CPUResident" /\ uvm.remote[p]
    /\ uvm.state[p] # "CPUResident" => uvm.frame[p]
    /\ uvm.state[p] = "CPUResident" => ~uvm.frame[p] /\ uvm.pte[p] # "Migrating"

(* One service at a time: any transaction past its queue has the slot, and *)
(* at most one admission is under way.                                     *)
SingleService ==
  /\ \A r \in Regions : uvm.faults[r] \in {"Handling", "Migrating"} => uvm.active = r
  /\ \A r, s \in Regions :
       uvm.migrations[Admit(r)] # NoMigration /\ uvm.migrations[Admit(s)] # NoMigration => r = s

(* No transaction is lost and none is held twice. *)
FaultsQueuedOnce ==
  \A r \in Regions :
    LET places == (IF uvm.active = r THEN 1 ELSE 0)
                  + (IF r \in uvm.deferred THEN 1 ELSE 0)
                  + Cardinality({i \in DOMAIN uvm.cue : uvm.cue[i] = r})
    IN  places = IF uvm.faults[r] = "None" THEN 0 ELSE 1

(* The steps of an eviction of r that are still to come. *)
EvictionSteps(r) ==
  {op \in uvm.controlOps : op.for = Evict(r)}
    \cup {i \in {Evict(r)} : uvm.migrations[i] # NoMigration}

(* A region is EVICTING exactly while one eviction of it runs, and only    *)
(* such a region holds transactions back.                                  *)
EvictionOwnsRegion ==
  \A r \in Regions :
    /\ Cardinality(EvictionSteps(r)) = IF uvm.phase[r] = "Evicting" THEN 1 ELSE 0
    /\ r \in uvm.deferred => uvm.phase[r] = "Evicting"

(* The frames on their way to be free are those of the running evictions.  *)
EvictingAccounted ==
  uvm.evicting = Cardinality(
    {p \in Pages : uvm.phase[RegionOf(p)] = "Evicting" /\ uvm.frame[p]})

(* A page with data on the GPU can be found by a later eviction. *)
ResidentIsEvictable ==
  \A p \in Resident(uvm) :
    uvm.phase[RegionOf(p)] # "Evicting" => RegionOf(p) \in Elements(uvm.lru)

(* A page gives up its frame only after its write-back. *)
NoUnsavedRelease ==
  [][\A p \in Pages :
       uvm.state[p] = "GPUResident" => uvm'.state[p] \in {"GPUResident", "MigratingToCPU"}]_uvm

(* Residency as the abstract specification states it: the manager, with    *)
(* its queues, evictions and transfers, moves pages only along the cycle   *)
(* and within the budget.                                                  *)
Place ==
  [p \in Pages |->
     CASE uvm.state[p] = "CPUResident"    -> "Host"
       [] uvm.state[p] = "MigratingToGPU" -> "ToGPU"
       [] uvm.state[p] = "GPUResident"    -> "GPU"
       [] uvm.state[p] = "MigratingToCPU" -> "ToHost"]

Abstract == INSTANCE Residency WITH place <- Place

ImplementsResidency == Abstract!Spec

(* A replay for region r joins the send queue. *)
ReplayQueued(r) ==
  \E i \in Len(uvm.sendQueue) + 1 .. Len(uvm'.sendQueue) :
    uvm'.sendQueue[i].kind = "FaultReplay" /\ uvm'.sendQueue[i].region = r

(* A transaction that ends tells the GPU about its region.  This is what   *)
(* lets onAccessCounterNotify swallow a notification (uvm_regions.go:108). *)
RetiredIsAnswered ==
  [][\A r \in Regions :
       uvm.faults[r] # "None" /\ uvm'.faults[r] = "None" => ReplayQueued(r)]_uvm

(* Every fault service ends: no transaction waits for ever behind another  *)
(* service, behind an eviction, or for capacity.                           *)
ServicesEnd ==
  \A r \in Regions : (uvm.faults[r] # "None") ~> (uvm.faults[r] = "None")

(* A transaction is starved in one way only: its region is brought in by   *)
(* somebody else's prefetch and evicted again, over and over, before its   *)
(* turn comes (resumeDeferredFaultsLocked queues it behind the others).    *)
StarvedByEvictionsOnly ==
  \A r \in Regions :
    \/ []<>(uvm.faults[r] = "None")
    \/ []<>(uvm.phase[r] = "Evicting") /\ []<>(uvm.phase[r] # "Evicting")

(* Every eviction ends and gives its region back. *)
EvictionsEnd ==
  \A r \in Regions : (uvm.phase[r] = "Evicting") ~> (uvm.phase[r] # "Evicting")
=============================================================================
