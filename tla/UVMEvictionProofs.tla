------------------------- MODULE UVMEvictionProofs -------------------------
(***************************************************************************)
(* Migration and eviction in the UVM manager for every value of the        *)
(* constants: whose a region is while it is evicted, which frames count as *)
(* on their way out, what the page table says, and that pages are written  *)
(* back before their frames are released.  The last theorem is that the    *)
(* manager implements Residency.                                           *)
(*                                                                         *)
(* A method leaves the manager Sound only together with the methods it     *)
(* calls.  Sound(m, h, c) describes it in between, when the eviction of    *)
(* region h is in hand, or c frames that it gave back are still counted;   *)
(* between two steps of the system it is Sound(m, None, 0).                *)
(*                                                                         *)
(* The theorems suppose NoOverlap (prefetching is off, or a region is one  *)
(* page): without it a fetch can enter a region that is being evicted, and *)
(* what they state is not true.                                            *)
(***************************************************************************)
EXTENDS UVMManagerProofs

(* What carries a migration on: the operation it asked for, its transfer,  *)
(* or the event that it ended.                                             *)
Asking(m, id) == \E op \in m.controlOps : op.for = id
Ended(m, id)  == <<"MigrationComplete", id>> \in m.events
Live(m, id)   == m.migrations[id] # NoMigration

(* One thing at a time carries a migration on, and an eviction that asks   *)
(* for an operation has not opened its write-back yet.                     *)
Steps(m) ==
  /\ \A o1, o2 \in m.controlOps : o1.for = o2.for => o1 = o2
  /\ \A op \in m.controlOps : m.migrations[op.for].dma = {} /\ ~Ended(m, op.for)
  /\ \A id \in MigrationIds : Ended(m, id) => Live(m, id) /\ m.migrations[id].dma = {}
  /\ \A id \in MigrationIds : m.migrations[id].dma \subseteq m.migrations[id].pages
  /\ \A op \in m.controlOps, r \in Regions :
       /\ op.for = Evict(r) => op.region = r /\ ~Live(m, Evict(r))
       /\ op.for = Admit(r) => Live(m, Admit(r))

(* The pages of an admission are on their way until its transfer ended,    *)
(* and have arrived when it asks for the invalidation of the TLBs.         *)
Fetching(m, id) ==
  \/ m.migrations[id].dma # {}
  \/ Ended(m, id)
  \/ \E op \in m.controlOps : op.for = id /\ op.kind = "RemoteDrain"

Coming(m) ==
  /\ \A p \in Pages : m.state[p] = "MigratingToGPU" =>
                        \E s \in Regions : p \in m.migrations[Admit(s)].pages
  /\ \A s \in Regions : \A p \in m.migrations[Admit(s)].pages :
       /\ m.phase[RegionOf(p)] = "MigratingToGPU"
       /\ Fetching(m, Admit(s)) => m.state[p] = "MigratingToGPU"
       /\ \A op \in m.controlOps :
            op.for = Admit(s) /\ op.kind = "TLBInvalidate" => m.state[p] = "GPUResident"

(* A page being written back belongs to the eviction of its region. *)
Going(m) ==
  /\ \A p \in Pages : m.state[p] = "MigratingToCPU" => p \in m.migrations[Evict(RegionOf(p))].pages
  /\ \A p \in Pages : m.state[p] = "GPUResident" => ~Live(m, Evict(RegionOf(p)))
  /\ \A r \in Regions :
       m.phase[r] = "Evicting" =>
         \E p \in PagesOf(r) : m.state[p] \in {"GPUResident", "MigratingToCPU"}

(* A region is EVICTING exactly while its eviction is carried on.  Of the  *)
(* region h, whose eviction is in hand, nothing is said.                   *)
Owning(m, h) ==
  \A r \in Regions : r # h =>
    /\ m.phase[r] = "Evicting" <=> Asking(m, Evict(r)) \/ Live(m, Evict(r))
    /\ r \in m.deferred => m.phase[r] = "Evicting"
    /\ \A p \in m.migrations[Evict(r)].pages : RegionOf(p) = r /\ m.state[p] = "MigratingToCPU"

Mapped(m) ==
  \A p \in Pages :
    /\ m.pte[p] = "Local" => m.state[p] = "GPUResident"
    /\ m.pte[p] = "Remote" => m.state[p] = "CPUResident" /\ m.remote[p]
    /\ m.state[p] # "CPUResident" => m.frame[p]
    /\ m.state[p] = "CPUResident" => ~m.frame[p] /\ m.pte[p] # "Migrating"
    /\ m.phase[RegionOf(p)] = "Evicting" /\ m.state[p] = "GPUResident" => m.pte[p] = "Migrating"

Listed(m) ==
  \A p \in Pages :
    m.state[p] = "GPUResident" /\ m.phase[RegionOf(p)] # "Evicting" =>
      RegionOf(p) \in Elements(m.lru)

(* The frames of the regions being evicted. *)
Leaving(m) == {p \in Pages : m.phase[RegionOf(p)] = "Evicting" /\ m.frame[p]}

(* A service keeps the phase of its region, and without prefetching it     *)
(* brings in no other.                                                     *)
Aiming(m) ==
  /\ \A r \in Regions : m.faults[r] = "Handling" => m.phase[r] = "FaultHandling"
  /\ PrefetchDisabled =>
       \A v \in Regions : m.then[v] # None => m.then[v].pages \subseteq PagesOf(m.then[v].txn)

(* The invariant of the evictions.  In the middle of a step the eviction   *)
(* of h may be in hand, and c frames that it gave back still be counted.   *)
Sound(m, h, c) ==
  /\ m \in Managers
  /\ Steps(m) /\ Coming(m) /\ Going(m) /\ Owning(m, h)
  /\ Mapped(m) /\ Listed(m) /\ Aiming(m)
  /\ m.evicting = Cardinality(Leaving(m)) + c
-----------------------------------------------------------------------------
(* Methods that neither move pages nor carry a migration on.               *)

(* From m to n, transactions move and regions change hands, but no         *)
(* eviction and no admission does.                                         *)
Calm(m, n) ==
  /\ n \in Managers /\ SameWork(m, n) /\ SameData(m, n)
  /\ \A s \in Regions : n.phase[s] = "Evicting" <=> m.phase[s] = "Evicting"
  /\ \A s \in Regions : n.phase[s] # m.phase[s] => \A a \in Regions : ~Live(m, Admit(a))
  /\ \A s \in n.deferred : s \in m.deferred \/ m.phase[s] = "Evicting"
  /\ \A s \in Regions : n.faults[s] = "Handling" => n.phase[s] = "FaultHandling"

LEMMA IdsUsed ==
  ASSUME NEW m \in Managers
  PROVE  /\ \A op \in m.controlOps : op.for \in MigrationIds /\ op.region \in Regions
         /\ \A id \in MigrationIds :
              /\ m.migrations[id].pages \subseteq Pages
              /\ ~Live(m, id) => m.migrations[id].pages = {} /\ m.migrations[id].dma = {}
         /\ m.deferred \subseteq Regions
<1>1. \A op \in m.controlOps : op.for \in MigrationIds /\ op.region \in Regions
  <2>1. m.controlOps \subseteq ControlOps
    BY DEF Managers
  <2>2. \A op \in ControlOps : op.for \in MigrationIds /\ op.region \in Regions
    BY DEF ControlOps, MigrationIds
  <2>. QED BY <2>1, <2>2
<1>2. \A id \in MigrationIds : m.migrations[id].pages \subseteq Pages
  BY DEF Managers, Migration
<1>3. NoMigration.pages = {} /\ NoMigration.dma = {}
  BY DEF NoMigration
<1>. QED BY <1>1, <1>2, <1>3 DEF Live, Managers

LEMMA CalmSound ==
  ASSUME NEW m, NEW n, NEW h, NEW c, Sound(m, h, c), Calm(m, n)
  PROVE  Sound(n, h, c)
<1>1. /\ n.migrations = m.migrations /\ n.controlOps = m.controlOps /\ n.then = m.then
      /\ n.state = m.state /\ n.frame = m.frame /\ n.remote = m.remote /\ n.pte = m.pte
      /\ n.evicting = m.evicting /\ n.lru = m.lru
      /\ \A id \in MigrationIds : Ended(n, id) <=> Ended(m, id)
      /\ \A id : Live(n, id) <=> Live(m, id)
      /\ \A id : Asking(n, id) <=> Asking(m, id)
      /\ \A s \in Regions : n.phase[s] = "Evicting" <=> m.phase[s] = "Evicting"
  BY DEF Calm, SameWork, SameData, Ended, Live, Asking
<1>2. \A p \in Pages : RegionOf(p) \in Regions
  BY RegionType
<1>3. m \in Managers /\ n \in Managers
  BY DEF Sound, Calm
<1>4. Steps(n)
  BY <1>1, <1>3, IdsUsed DEF Sound, Steps
<1>5. Coming(n)
  <2>1. \A s \in Regions : \A p \in m.migrations[Admit(s)].pages :
          p \in Pages /\ n.phase[RegionOf(p)] = m.phase[RegionOf(p)]
    BY <1>2, <1>3, IdsUsed, IdTypes DEF Calm
  <2>2. \A s \in Regions : Fetching(n, Admit(s)) <=> Fetching(m, Admit(s))
    BY <1>1, IdTypes DEF Fetching
  <2>. QED BY <1>1, <2>1, <2>2 DEF Sound, Coming
<1>6. Going(n)
  BY <1>1 DEF Sound, Going
<1>7. Owning(n, h)
  <2>1. \A s \in Regions : s \in n.deferred => s \in m.deferred \/ m.phase[s] = "Evicting"
    BY DEF Calm
  <2>. QED BY <1>1, <2>1 DEF Sound, Owning
<1>8. Mapped(n) /\ Listed(n)
  BY <1>1, <1>2 DEF Sound, Mapped, Listed
<1>9. Aiming(n)
  BY <1>1 DEF Sound, Aiming, Calm
<1>10. Leaving(n) = Leaving(m)
  BY <1>1, <1>2 DEF Leaving
<1>. QED BY <1>1, <1>3, <1>4, <1>5, <1>6, <1>7, <1>8, <1>9, <1>10 DEF Sound

LEMMA QuietCalm ==
  ASSUME NEW m, NEW n, NEW h, NEW c, Sound(m, h, c), Quiet(m, n)
  PROVE  Calm(m, n)
BY DEF Sound, Aiming, Quiet, SameQueue, Calm

LEMMA QuietSound ==
  ASSUME NEW m, NEW n, NEW h, NEW c, Sound(m, h, c), Quiet(m, n)
  PROVE  Sound(n, h, c)
BY QuietCalm, CalmSound

(* With a free slot nothing is handled and no admission is under way. *)
LEMMA StartNextSound ==
  ASSUME NEW m, NEW h, NEW c, Served(m), Sound(m, h, c)
  PROVE  Sound(StartNext(m), h, c) /\ StartNext(m).state = m.state
<1>. DEFINE n == StartNext(m)
<1>1. m \in Managers /\ Slot(m)
  BY DEF Served
<1>2. CASE m.active # None \/ m.cue = <<>>
  BY <1>1, <1>2, StartNextEffect
<1>3. CASE m.active = None /\ m.cue # <<>>
  <2>1. /\ n \in Managers /\ SameWork(m, n) /\ SameData(m, n)
        /\ n.faults = m.faults /\ n.deferred = m.deferred
        /\ \E r \in Regions : \A k \in Regions :
             n.phase[k] = IF k = r /\ m.phase[k] # "Evicting" THEN "FaultPending" ELSE m.phase[k]
    BY <1>1, <1>3, StartNextEffect
  <2>. HIDE DEF n
  <2>2. \A k \in Regions : m.faults[k] \notin {"Handling", "Migrating"} /\ k # None
    BY <1>1, <1>3, IdTypes DEF Slot
  <2>3. \A a \in Regions : ~Live(m, Admit(a))
    BY <1>1, <2>2 DEF Slot, Live
  <2>4. Calm(m, n)
    BY <2>1, <2>2, <2>3 DEF Calm
  <2>5. n.state = m.state
    BY <2>1 DEF SameData
  <2>. QED BY <2>4, <2>5, CalmSound DEF n
<1>. QED BY <1>2, <1>3

(* The active transaction is over; nothing else of it is under way. *)
LEMMA RetireActiveSound ==
  ASSUME NEW m, NEW r \in Regions, NEW h, NEW c, Closing(m, r), Sound(m, h, c)
  PROVE  Sound(RetireFaults(m, {r}), h, c) /\ RetireFaults(m, {r}).state = m.state
<1>1. m \in Managers /\ Slot(m) /\ m.active = r
  BY DEF Closing, Served, Slot
<1>2. PICK l : Freed(m, l, r) /\ RetireFaults(m, {r}) = StartNext(l)
  BY <1>1, RetireActiveEffect
<1>3. Calm(m, l)
  <2>1. \A s \in Regions : l.faults[s] = "Handling" => m.faults[s] = "Handling" /\ s # r
    BY <1>2 DEF Freed
  <2>2. \A s \in Regions : m.faults[s] # "Handling" \/ s = r
    BY <1>1 DEF Slot
  <2>3. \A a \in Regions : ~Live(m, Admit(a))
    BY DEF Closing, Live
  <2>. QED BY <1>2, <2>1, <2>2, <2>3 DEF Freed, Calm
<1>4. Served(l) /\ Sound(l, h, c) /\ l.state = m.state
  BY <1>2, <1>3, FreedServed, CalmSound DEF Freed, SameData
<1>. QED BY <1>2, <1>4, StartNextSound

LEMMA FinishFaultsSound ==
  ASSUME NEW m, NEW r \in Regions, NEW h, NEW c, Closing(m, r), Sound(m, h, c)
  PROVE  Sound(FinishFaults(m, {r}), h, c) /\ FinishFaults(m, {r}).state = m.state
<1>. DEFINE k == ReplayAll(m, Ascending({r}), FALSE)
<1>1. Quiet(m, k)
  BY RegionList, ReplayAllQuiet DEF Closing, Served
<1>2. FinishFaults(m, {r}) = RetireFaults(k, {r})
  BY DEF FinishFaults
<1>. HIDE DEF k
<1>3. Closing(k, r) /\ Sound(k, h, c) /\ k.state = m.state
  BY <1>1, QuietClosing, QuietSound DEF Quiet, SameData
<1>. QED BY <1>2, <1>3, RetireActiveSound

(* The region of a parked fault is being evicted. *)
LEMMA ParkFaultSound ==
  ASSUME NEW m, NEW r \in Regions, NEW h, NEW c, Served(m), Sound(m, h, c),
         m.active = r, m.faults[r] = "Pending", <<"FaultReady", r>> \notin m.events,
         m.phase[r] = "Evicting"
  PROVE  Sound(ParkFault(m, r), h, c) /\ ParkFault(m, r).state = m.state
<1>1. m \in Managers /\ Slot(m)
  BY DEF Served
<1>2. PICK l : Shelved(m, l, r) /\ ParkFault(m, r) = StartNext(l)
  BY <1>1, ParkFaultEffect
<1>3. Calm(m, l)
  <2>1. \A a \in Regions : m.faults[a] \notin {"Handling", "Migrating"}
    BY <1>1 DEF Slot
  <2>2. \A a \in Regions : ~Live(m, Admit(a))
    BY <1>1, <2>1 DEF Slot, Live
  <2>. QED BY <1>2, <2>1, <2>2 DEF Shelved, Calm
<1>4. Served(l) /\ Sound(l, h, c) /\ l.state = m.state
  BY <1>2, <1>3, ShelvedServed, CalmSound DEF Shelved, SameData
<1>. QED BY <1>2, <1>4, StartNextSound

LEMMA EnteredSound ==
  ASSUME NEW m, NEW r \in Regions, NEW h, NEW c, Served(m), Sound(m, h, c),
         NEW k, Entered(m, k, r)
  PROVE  Sound(StartNext(k), h, c) /\ StartNext(k).state = m.state
<1>1. Served(k)
  BY EnteredServed
<1>2. Calm(m, k)
  <2>1. m \in Managers
    BY DEF Served
  <2>2. \A s \in Regions : k.faults[s] = "Handling" => m.faults[s] = "Handling"
    BY <2>1 DEF Entered, Managers
  <2>3. \A s \in k.deferred : s \in m.deferred
    BY DEF Entered
  <2>. QED BY <2>2, <2>3 DEF Entered, Calm, Sound, Aiming
<1>3. Sound(k, h, c) /\ k.state = m.state
  BY <1>2, CalmSound DEF Entered, SameData
<1>. QED BY <1>1, <1>3, StartNextSound

LEMMA OpenFaultSound ==
  ASSUME NEW m, NEW r \in Regions, NEW h, NEW c, Served(m), Sound(m, h, c), m.faults[r] = "None"
  PROVE  Sound(OpenFault(m, r), h, c) /\ OpenFault(m, r).state = m.state
BY OpenFaultEffect, EnteredSound DEF Served

-----------------------------------------------------------------------------
(* The beginning of an eviction.                                           *)

LEMMA DisjointSizes ==
  ASSUME NEW S \in SUBSET Pages, NEW T \in SUBSET Pages, S \cap T = {}
  PROVE  Cardinality(S \cup T) = Cardinality(S) + Cardinality(T)
<1>1. IsFiniteSet(S) /\ IsFiniteSet(T) /\ Cardinality(S) \in Nat /\ Cardinality(T) \in Nat
  BY PageSets
<1>2. Cardinality(S \cup T) = Cardinality(S) + Cardinality(T) - Cardinality(S \cap T)
  BY <1>1, FS_Union
<1>3. Cardinality(S \cap T) = 0
  BY FS_EmptySet
<1>. QED BY <1>1, <1>2, <1>3

(* What is known of a region that no eviction and no admission has. *)
LEMMA IdleRegion ==
  ASSUME NEW m, Sound(m, None, 0), NEW r \in Regions, m.phase[r] = "Idle"
  PROVE  /\ ~Asking(m, Evict(r)) /\ ~Live(m, Evict(r)) /\ ~Ended(m, Evict(r))
         /\ \A p \in PagesOf(r) : m.frame[p] <=> m.state[p] = "GPUResident"
<1>1. m \in Managers /\ r # None /\ Evict(r) \in MigrationIds
  BY IdTypes DEF Sound
<1>2. ~Asking(m, Evict(r)) /\ ~Live(m, Evict(r))
  BY <1>1 DEF Sound, Owning
<1>3. ~Ended(m, Evict(r))
  BY <1>1, <1>2 DEF Sound, Steps
<1>4. ASSUME NEW p \in PagesOf(r)
      PROVE  m.frame[p] <=> m.state[p] = "GPUResident"
  <2>1. p \in Pages /\ RegionOf(p) = r
    BY DEF PagesOf
  <2>2. m.state[p] # "MigratingToGPU"
    BY <2>1 DEF Sound, Coming
  <2>3. m.state[p] # "MigratingToCPU"
    BY <1>1, <1>2, <2>1, IdsUsed DEF Sound, Going
  <2>4. m.state[p] \in {"CPUResident", "GPUResident", "MigratingToGPU", "MigratingToCPU"}
    BY <1>1, <2>1 DEF Managers
  <2>. QED BY <2>1, <2>2, <2>3, <2>4 DEF Sound, Mapped
<1>. QED BY <1>2, <1>3, <1>4

LEMMA BegunSound ==
  ASSUME NEW m, Sound(m, None, 0), NEW vs \in Seq(Regions), NEW exclude, Chosen(m, vs, exclude),
         NEW then \in Waiting \cup {None},
         then # None /\ PrefetchDisabled => then.pages \subseteq PagesOf(then.txn),
         NEW n, Begun(m, n, vs, then)
  PROVE  Sound(n, None, 0) /\ n.state = m.state
<1>. DEFINE S == Elements(vs)
            V == UNION {RegionFrames(m, r) : r \in S}
<1>1. m \in Managers /\ n \in Managers
  BY DEF Sound, Begun
<1>2. S \subseteq Regions /\ \A r \in S : m.phase[r] = "Idle" /\ RegionFrames(m, r) # {}
  BY DEF Elements, Chosen, Eligible, Owned
<1>3. \A r \in S : /\ ~Asking(m, Evict(r)) /\ ~Live(m, Evict(r)) /\ ~Ended(m, Evict(r))
                   /\ \A p \in PagesOf(r) : m.frame[p] <=> m.state[p] = "GPUResident"
  BY <1>2, IdleRegion
<1>4. /\ n.migrations = m.migrations /\ n.state = m.state /\ n.frame = m.frame
      /\ n.remote = m.remote /\ n.faults = m.faults /\ n.deferred = m.deferred
      /\ n.evicting = m.evicting + Cardinality(V)
      /\ Elements(n.lru) = Elements(m.lru) \cap (Regions \ S)
  BY DEF Begun, SameQueue
<1>5. /\ \A id \in MigrationIds : Ended(n, id) <=> Ended(m, id)
      /\ \A id : Live(n, id) <=> Live(m, id)
      /\ \A op : op \in n.controlOps <=>
           \/ op \in m.controlOps
           \/ \E r \in S : op = Operation("TLBInvalidate", r, Evict(r))
  BY DEF Begun, Ended, Live
<1>6. /\ \A p \in Pages : n.pte[p] = IF p \in Parked(m, S) THEN "Migrating" ELSE m.pte[p]
      /\ \A r \in Regions : n.phase[r] = IF r \in S THEN "Evicting" ELSE m.phase[r]
      /\ \A r \in Regions : n.then[r] = IF r \in S THEN then ELSE m.then[r]
  BY DEF Begun
<1>7. /\ \A p \in Pages : RegionOf(p) \in Regions
      /\ \A r \in S : Evict(r) \in MigrationIds
      /\ \A r, s \in Regions : Admit(r) # Evict(s) /\ (Evict(r) = Evict(s) => r = s)
  BY <1>2, RegionType, IdTypes
<1>8. \A r \in S : LET op == Operation("TLBInvalidate", r, Evict(r))
                   IN  op.kind = "TLBInvalidate" /\ op.region = r /\ op.for = Evict(r)
  BY DEF Operation
<1>9. /\ \A op \in m.controlOps : op.for \in MigrationIds
      /\ \A r \in S : \A op \in m.controlOps : op.for # Evict(r)
  BY <1>1, <1>3, IdsUsed DEF Asking
<1>10. \A r \in S : m.migrations[Evict(r)].dma = {} /\ m.migrations[Evict(r)].pages = {}
  BY <1>1, <1>3, <1>7, IdsUsed
<1>. HIDE DEF S, V
<1>11. Steps(n)
  <2>1. \A o1, o2 \in n.controlOps : o1.for = o2.for => o1 = o2
    BY <1>2, <1>5, <1>7, <1>8, <1>9 DEF Sound, Steps
  <2>2. \A op \in n.controlOps : n.migrations[op.for].dma = {} /\ ~Ended(n, op.for)
    <3>1. ASSUME NEW op \in m.controlOps
          PROVE  n.migrations[op.for].dma = {} /\ ~Ended(n, op.for)
      BY <1>4, <1>5, <1>9 DEF Sound, Steps
    <3>2. ASSUME NEW r \in S, NEW op, op.for = Evict(r)
          PROVE  n.migrations[op.for].dma = {} /\ ~Ended(n, op.for)
      BY <1>3, <1>4, <1>5, <1>7, <1>10, <3>2
    <3>3. \A op \in n.controlOps : op \in m.controlOps \/ \E r \in S : op.for = Evict(r)
      BY <1>5, <1>8
    <3>. QED BY <3>1, <3>2, <3>3
  <2>3. \A id \in MigrationIds : /\ Ended(n, id) => Live(n, id) /\ n.migrations[id].dma = {}
                                /\ n.migrations[id].dma \subseteq n.migrations[id].pages
    BY <1>4, <1>5 DEF Sound, Steps
  <2>4. \A op \in n.controlOps, r \in Regions :
          /\ op.for = Evict(r) => op.region = r /\ ~Live(n, Evict(r))
          /\ op.for = Admit(r) => Live(n, Admit(r))
    BY <1>2, <1>3, <1>5, <1>7, <1>8 DEF Sound, Steps
  <2>. QED BY <2>1, <2>2, <2>3, <2>4 DEF Steps
<1>12. Coming(n)
  <2>1. \A s \in Regions : \A p \in m.migrations[Admit(s)].pages :
          p \in Pages /\ RegionOf(p) \notin S
    BY <1>1, <1>2, IdsUsed, IdTypes DEF Sound, Coming
  <2>2. \A s \in Regions : \A op \in n.controlOps : op.for = Admit(s) => op \in m.controlOps
    BY <1>2, <1>5, <1>7, <1>8
  <2>3. \A s \in Regions : Fetching(n, Admit(s)) => Fetching(m, Admit(s))
    BY <1>4, <1>5, <2>2, IdTypes DEF Fetching
  <2>. QED BY <1>4, <1>6, <1>7, <2>1, <2>2, <2>3 DEF Sound, Coming
<1>13. Going(n)
  <2>1. \A r \in S : \E p \in PagesOf(r) : m.state[p] = "GPUResident"
    BY <1>2 DEF RegionFrames, Resident
  <2>. QED BY <1>4, <1>5, <1>6, <2>1 DEF Sound, Going
<1>14. Owning(n, None)
  <2>1. \A r \in Regions : Asking(n, Evict(r)) <=> Asking(m, Evict(r)) \/ r \in S
    BY <1>2, <1>5, <1>7, <1>8 DEF Asking
  <2>. QED BY <1>2, <1>3, <1>4, <1>5, <1>6, <1>10, <2>1 DEF Sound, Owning
<1>15. Mapped(n)
  <2>1. \A p \in Pages : p \in Parked(m, S) <=> m.state[p] = "GPUResident" /\ RegionOf(p) \in S
    BY DEF Parked, Resident
  <2>. QED BY <1>4, <1>6, <1>7, <2>1 DEF Sound, Mapped
<1>16. Listed(n)
  BY <1>4, <1>6, <1>7 DEF Sound, Listed
<1>17. Aiming(n)
  <2>1. \A v \in Regions : m.then[v] \in Waiting \cup {None}
    BY <1>1 DEF Managers
  <2>. QED BY <1>2, <1>4, <1>6 DEF Sound, Aiming
<1>18. n.evicting = Cardinality(Leaving(n)) + 0
  <2>1. V \subseteq Pages /\ \A p \in Pages : p \in V <=> RegionOf(p) \in S /\ m.frame[p]
    BY <1>2, <1>3, <1>7 DEF V, RegionFrames, Resident, PagesOf
  <2>2. Leaving(n) = Leaving(m) \cup V
    BY <1>4, <1>6, <1>7, <2>1 DEF Leaving
  <2>3. Leaving(m) \cap V = {} /\ Leaving(m) \subseteq Pages
    BY <1>2, <2>1 DEF Leaving
  <2>4. Cardinality(Leaving(n)) = Cardinality(Leaving(m)) + Cardinality(V)
    BY <2>1, <2>2, <2>3, DisjointSizes
  <2>5. Cardinality(Leaving(m)) \in Nat /\ Cardinality(V) \in Nat
    BY <2>1, <2>3, PageSets
  <2>. QED BY <1>4, <2>4, <2>5 DEF Sound
<1>. QED BY <1>1, <1>4, <1>11, <1>12, <1>13, <1>14, <1>15, <1>16, <1>17, <1>18 DEF Sound

-----------------------------------------------------------------------------
(* Migrations.                                                             *)

(* Migration id is open, and nothing carries it on yet. *)
Resting(m, id) ==
  /\ ~Asking(m, id) /\ ~Ended(m, id) /\ m.migrations[id].dma = {}
  /\ m.migrations[id].pages # {} \/ m.migrations[id].faults # {}

LEMMA OpenIsLive ==
  ASSUME NEW m, NEW n, NEW id \in MigrationIds, SameMigration(m, n, id),
         m.migrations[id].pages # {} \/ m.migrations[id].faults # {}
  PROVE  /\ Live(m, id) /\ Live(n, id)
         /\ \A i \in MigrationIds : Live(n, i) <=> Live(m, i)
<1>1. NoMigration.pages = {} /\ NoMigration.faults = {}
  BY DEF NoMigration
<1>2. Live(m, id) /\ Live(n, id)
  BY <1>1 DEF Live, SameMigration
<1>. QED BY <1>2 DEF Live, SameMigration

(* A step that carries migration id on and touches nothing else. *)
LEMMA CarriedSound ==
  ASSUME NEW m, NEW h, NEW c, Sound(m, h, c), NEW n, NEW id \in MigrationIds,
         SameMigration(m, n, id),
         m.migrations[id].pages # {} \/ m.migrations[id].faults # {},
         Steps(n), Coming(n), \A r \in Regions : Asking(n, Evict(r)) <=> Asking(m, Evict(r))
  PROVE  Sound(n, h, c) /\ n.state = m.state
<1>1. \A i \in MigrationIds : /\ Live(n, i) <=> Live(m, i)
                              /\ n.migrations[i].pages = m.migrations[i].pages
  BY OpenIsLive DEF SameMigration
<1>2. /\ n \in Managers /\ n.phase = m.phase /\ n.then = m.then
      /\ n.state = m.state /\ n.frame = m.frame /\ n.remote = m.remote /\ n.pte = m.pte
      /\ n.evicting = m.evicting /\ n.lru = m.lru
      /\ n.faults = m.faults /\ n.deferred = m.deferred
  BY DEF SameMigration, SameQueue, SameData
<1>3. /\ \A p \in Pages : Evict(RegionOf(p)) \in MigrationIds
      /\ \A r \in Regions : Evict(r) \in MigrationIds
  BY RegionType, IdTypes
<1>4. Going(n)
  BY <1>1, <1>2, <1>3 DEF Sound, Going
<1>5. Owning(n, h)
  BY <1>1, <1>2, <1>3 DEF Sound, Owning
<1>6. Mapped(n) /\ Listed(n) /\ Aiming(n)
  BY <1>2 DEF Sound, Mapped, Listed, Aiming
<1>7. Leaving(n) = Leaving(m)
  BY <1>2 DEF Leaving
<1>. QED BY <1>2, <1>4, <1>5, <1>6, <1>7 DEF Sound

LEMMA TransferredSound ==
  ASSUME NEW m, NEW h, NEW c, Sound(m, h, c), NEW n, NEW id \in MigrationIds,
         Transferred(m, n, id), Resting(m, id),
         id[1] = "admit" => \A p \in m.migrations[id].pages : m.state[p] = "MigratingToGPU"
  PROVE  Sound(n, h, c) /\ n.state = m.state
<1>1. SameMigration(m, n, id) /\ n.controlOps = m.controlOps /\ m \in Managers
  BY DEF Transferred, Sound
<1>2. /\ \A i \in MigrationIds : /\ Live(n, i) <=> Live(m, i)
                                 /\ n.migrations[i].pages = m.migrations[i].pages
                                 /\ i # id => n.migrations[i] = m.migrations[i]
      /\ Live(n, id) /\ n.migrations[id].dma \subseteq n.migrations[id].pages
      /\ n.phase = m.phase /\ n.state = m.state
  BY <1>1, OpenIsLive DEF Resting, SameMigration, SameData, Transferred
<1>3. \A i \in MigrationIds :
        Ended(n, i) <=> Ended(m, i) \/ (i = id /\ n.migrations[id].dma = {})
  BY DEF Transferred, Ended
<1>4. \A op \in m.controlOps : op.for \in MigrationIds /\ op.for # id
  BY <1>1, IdsUsed DEF Resting, Asking
<1>5. Steps(n)
  <2>1. \A op \in n.controlOps : n.migrations[op.for].dma = {} /\ ~Ended(n, op.for)
    BY <1>1, <1>2, <1>3, <1>4 DEF Sound, Steps
  <2>2. \A i \in MigrationIds : Ended(n, i) => Live(n, i) /\ n.migrations[i].dma = {}
    BY <1>2, <1>3 DEF Sound, Steps, Resting
  <2>3. \A i \in MigrationIds : n.migrations[i].dma \subseteq n.migrations[i].pages
    BY <1>2 DEF Sound, Steps
  <2>4. \A op \in n.controlOps, r \in Regions :
          /\ op.for = Evict(r) => op.region = r /\ ~Live(n, Evict(r))
          /\ op.for = Admit(r) => Live(n, Admit(r))
    BY <1>1, <1>2, IdTypes DEF Sound, Steps
  <2>. QED BY <1>1, <2>1, <2>2, <2>3, <2>4 DEF Sound, Steps
<1>6. Coming(n)
  <2>1. \A s \in Regions : Admit(s) \in MigrationIds /\ Admit(s)[1] = "admit"
    BY IdTypes DEF Admit
  <2>2. \A s \in Regions : Admit(s) # id => (Fetching(n, Admit(s)) <=> Fetching(m, Admit(s)))
    BY <1>1, <1>2, <1>3, <2>1 DEF Fetching
  <2>3. \A s \in Regions : \A p \in m.migrations[Admit(s)].pages :
          Fetching(n, Admit(s)) => m.state[p] = "MigratingToGPU"
    BY <2>1, <2>2 DEF Sound, Coming
  <2>. QED BY <1>1, <1>2, <2>1, <2>3 DEF Sound, Coming
<1>7. \A r \in Regions : Asking(n, Evict(r)) <=> Asking(m, Evict(r))
  BY <1>1 DEF Asking
<1>. QED BY <1>1, <1>5, <1>6, <1>7, CarriedSound DEF Resting

(* An admission drains its regions before its transfer, and invalidates    *)
(* them after it.                                                          *)
LEMMA AskedSound ==
  ASSUME NEW m, NEW h, NEW c, Sound(m, h, c), NEW n, NEW id \in MigrationIds, id[1] = "admit",
         NEW kind, Asked(m, n, id, kind), Resting(m, id),
         \A p \in m.migrations[id].pages :
           \/ kind = "RemoteDrain" /\ m.state[p] = "MigratingToGPU"
           \/ kind = "TLBInvalidate" /\ m.state[p] = "GPUResident"
  PROVE  Sound(n, h, c) /\ n.state = m.state
<1>1. SameMigration(m, n, id) /\ m \in Managers /\ \A r \in Regions : id # Evict(r)
  BY IdTypes DEF Asked, Sound, Evict
<1>2. PICK r \in Regions : \A op : op \in n.controlOps <=>
                             op \in m.controlOps \/ op = Operation(kind, r, id)
  BY DEF Asked
<1>3. LET op == Operation(kind, r, id) IN op.kind = kind /\ op.for = id
  BY DEF Operation
<1>4. /\ \A i \in MigrationIds : /\ Live(n, i) <=> Live(m, i)
                                 /\ n.migrations[i].pages = m.migrations[i].pages
                                 /\ n.migrations[i].dma = m.migrations[i].dma
                                 /\ Ended(n, i) <=> Ended(m, i)
      /\ Live(n, id)
      /\ n.phase = m.phase /\ n.state = m.state
  <2>1. /\ \A i \in MigrationIds : Live(n, i) <=> Live(m, i)
        /\ Live(n, id)
    BY <1>1, OpenIsLive DEF Resting
  <2>2. \A i \in MigrationIds : /\ n.migrations[i].pages = m.migrations[i].pages
                                 /\ n.migrations[i].dma = m.migrations[i].dma
    BY <1>1 DEF SameMigration, Asked
  <2>3. \A i \in MigrationIds : Ended(n, i) <=> Ended(m, i)
    BY DEF Asked, Ended
  <2>. QED BY <1>1, <2>1, <2>2, <2>3 DEF SameMigration, SameData
<1>5. \A op \in m.controlOps : op.for \in MigrationIds /\ op.for # id
  BY <1>1, IdsUsed DEF Resting, Asking
<1>6. Steps(n)
  <2>1. \A o1, o2 \in n.controlOps : o1.for = o2.for => o1 = o2
    BY <1>2, <1>3, <1>5 DEF Sound, Steps
  <2>2. \A op \in n.controlOps : n.migrations[op.for].dma = {} /\ ~Ended(n, op.for)
    BY <1>2, <1>3, <1>4, <1>5 DEF Sound, Steps, Resting
  <2>3. \A i \in MigrationIds : /\ Ended(n, i) => Live(n, i) /\ n.migrations[i].dma = {}
                                /\ n.migrations[i].dma \subseteq n.migrations[i].pages
    BY <1>4 DEF Sound, Steps
  <2>4. \A op \in n.controlOps, s \in Regions :
          /\ op.for = Evict(s) => op.region = s /\ ~Live(n, Evict(s))
          /\ op.for = Admit(s) => Live(n, Admit(s))
    BY <1>1, <1>2, <1>3, <1>4, IdTypes DEF Sound, Steps
  <2>. QED BY <2>1, <2>2, <2>3, <2>4 DEF Steps
<1>7. Coming(n)
  <2>1. \A s \in Regions : Admit(s) \in MigrationIds
    BY IdTypes
  <2>2. \A s \in Regions : Admit(s) # id => (Fetching(n, Admit(s)) <=> Fetching(m, Admit(s)))
    BY <1>2, <1>3, <1>4, <2>1 DEF Fetching
  <2>3. Fetching(n, id) => kind = "RemoteDrain"
    BY <1>2, <1>3, <1>4, <1>5 DEF Fetching, Resting
  <2>4. \A s \in Regions : \A p \in m.migrations[Admit(s)].pages :
          Fetching(n, Admit(s)) => m.state[p] = "MigratingToGPU"
    BY <2>1, <2>2, <2>3 DEF Sound, Coming
  <2>5. \A s \in Regions : \A p \in m.migrations[Admit(s)].pages : \A op \in n.controlOps :
          op.for = Admit(s) /\ op.kind = "TLBInvalidate" => m.state[p] = "GPUResident"
    BY <1>2, <1>3, <1>5 DEF Sound, Coming
  <2>. QED BY <1>4, <2>1, <2>4, <2>5 DEF Sound, Coming
<1>8. \A s \in Regions : Asking(n, Evict(s)) <=> Asking(m, Evict(s))
  BY <1>1, <1>2, <1>3 DEF Asking
<1>. QED BY <1>1, <1>6, <1>7, <1>8, CarriedSound DEF Resting

LEMMA DrainNextSound ==
  ASSUME NEW m, NEW h, NEW c, Sound(m, h, c), NEW id \in MigrationIds, id[1] = "admit",
         Resting(m, id),
         \A p \in m.migrations[id].pages : m.state[p] = "MigratingToGPU"
  PROVE  Sound(DrainNext(m, id), h, c) /\ DrainNext(m, id).state = m.state
BY DrainNextEffect, TransferredSound, AskedSound DEF Sound

-----------------------------------------------------------------------------
(* Admissions.                                                             *)

(* What keeps an admission from entering a region that is being evicted: a *)
(* service brings in pages of its own region only, or a region is one page *)
(* and is on the GPU as long as it is being evicted.  With neither of them *)
(* the neighbourhood of a fault can overlap an eviction.                   *)
NoOverlap == PrefetchDisabled \/ PagesPerRegion = 1

LEMMA AdmittedApart ==
  ASSUME NoOverlap, NEW m, Sound(m, None, 0), NEW r \in Regions, m.faults[r] = "Handling",
         NEW sel \in SUBSET Pages, PrefetchDisabled => sel \subseteq PagesOf(r)
  PROVE  \A p \in sel : m.state[p] = "CPUResident" => m.phase[RegionOf(p)] # "Evicting"
<1>. SUFFICES ASSUME NEW p \in sel, m.state[p] = "CPUResident"
              PROVE  m.phase[RegionOf(p)] # "Evicting"
  OBVIOUS
<1>1. CASE PrefetchDisabled
  <2>1. RegionOf(p) = r
    BY <1>1 DEF PagesOf
  <2>. QED BY <2>1 DEF Sound, Aiming
<1>2. CASE PagesPerRegion = 1
  <2>1. \A x \in Nat : x \div 1 = x
    OBVIOUS
  <2>2. \A q \in Pages : RegionOf(q) = q
    BY <1>2, <2>1, TBNAssumption DEF RegionOf
  <2>3. \A q \in PagesOf(RegionOf(p)) : q = p
    BY <2>2 DEF PagesOf
  <2>. QED BY <2>3, RegionType DEF Sound, Going
<1>. QED BY <1>1, <1>2 DEF NoOverlap

LEMMA OpenedSound ==
  ASSUME NEW m, NEW r \in Regions, Serving(m, r), Sound(m, None, 0),
         NEW adm \in SUBSET Pages,
         \A p \in adm : m.state[p] = "CPUResident" /\ m.phase[RegionOf(p)] # "Evicting",
         NEW k, Opened(m, k, r, adm)
  PROVE  /\ Sound(k, None, 0) /\ Resting(k, Admit(r))
         /\ \A p \in k.migrations[Admit(r)].pages : k.state[p] = "MigratingToGPU"
<1>. DEFINE id == Admit(r)
<1>1. m \in Managers /\ k \in Managers /\ id \in MigrationIds /\ \A s \in Regions : id # Evict(s)
  BY IdTypes DEF Sound, Opened
<1>2. /\ \A i \in MigrationIds : i # id => k.migrations[i] = m.migrations[i]
      /\ k.migrations[id].pages = adm /\ k.migrations[id].faults = {r}
      /\ k.migrations[id].dma = {}
      /\ k.controlOps = m.controlOps /\ k.events = m.events
      /\ k.then = m.then /\ k.deferred = m.deferred
      /\ k.remote = m.remote /\ k.lru = m.lru /\ k.evicting = m.evicting
  BY DEF Opened
<1>3. \A p \in Pages : /\ k.frame[p] = (m.frame[p] \/ p \in adm)
                       /\ k.state[p] = IF p \in adm THEN "MigratingToGPU" ELSE m.state[p]
                       /\ k.pte[p] = IF p \in adm THEN "Migrating" ELSE m.pte[p]
  BY DEF Opened
<1>4. \A s \in Regions :
        /\ k.phase[s] = IF s \in RegionsOfPages(adm) THEN "MigratingToGPU" ELSE m.phase[s]
        /\ k.faults[s] = IF s = r THEN "Migrating" ELSE m.faults[s]
  BY DEF Opened
<1>5. /\ \A p \in Pages : RegionOf(p) \in Regions /\ Evict(RegionOf(p)) \in MigrationIds
      /\ \A p \in adm : RegionOf(p) \in RegionsOfPages(adm)
      /\ \A s \in RegionsOfPages(adm) : m.phase[s] # "Evicting"
  BY RegionType, IdTypes DEF RegionsOfPages
<1>6. \A s \in Regions : ~Live(m, Admit(s)) /\ Admit(s) \in MigrationIds
  BY ServingClosing, IdTypes DEF Closing, Live
<1>7. /\ \A s \in Regions : ~Asking(m, Admit(s)) /\ ~Ended(m, Admit(s))
      /\ \A op \in m.controlOps : op.for \in MigrationIds /\ op.for # id
  BY <1>1, <1>6, IdsUsed DEF Sound, Steps, Asking
<1>8. Live(k, id)
  <2>1. NoMigration.faults = {}
    BY DEF NoMigration
  <2>2. k.migrations[id].faults # {}
    BY <1>2
  <2>. QED BY <2>1, <2>2 DEF Live
<1>9. /\ \A s \in Regions : /\ Evict(s) \in MigrationIds
                            /\ k.migrations[Evict(s)] = m.migrations[Evict(s)]
                            /\ Live(k, Evict(s)) <=> Live(m, Evict(s))
                            /\ Asking(k, Evict(s)) <=> Asking(m, Evict(s))
      /\ \A s \in Regions : s # r => k.migrations[Admit(s)] = m.migrations[Admit(s)]
  BY <1>1, <1>2, IdTypes DEF Live, Asking
<1>10. Steps(k)
  <2>1. \A op \in k.controlOps : k.migrations[op.for].dma = {} /\ ~Ended(k, op.for)
    <3>1. \A op \in m.controlOps : m.migrations[op.for].dma = {} /\ ~Ended(m, op.for)
      BY DEF Sound, Steps
    <3>2. \A i : Ended(k, i) <=> Ended(m, i)
      BY <1>2 DEF Ended
    <3>. QED BY <1>2, <1>7, <3>1, <3>2
  <2>2. \A i \in MigrationIds : /\ Ended(k, i) => Live(k, i) /\ k.migrations[i].dma = {}
                                /\ k.migrations[i].dma \subseteq k.migrations[i].pages
    BY <1>1, <1>2, <1>8, ZenonT(60) DEF Sound, Steps, Ended, Live
  <2>3. \A op \in k.controlOps, s \in Regions :
          op.for = Evict(s) => op.region = s /\ ~Live(k, Evict(s))
    BY <1>2, <1>9 DEF Sound, Steps
  <2>4. \A op \in k.controlOps, s \in Regions : op.for # Admit(s)
    BY <1>2, <1>7 DEF Asking
  <2>5. \A o1, o2 \in k.controlOps : o1.for = o2.for => o1 = o2
    BY <1>2 DEF Sound, Steps
  <2>. QED BY <2>1, <2>2, <2>3, <2>4, <2>5 DEF Steps
<1>11. /\ \A s \in Regions : s # r => m.migrations[Admit(s)].pages = {}
       /\ \A p \in Pages : m.state[p] # "MigratingToGPU"
  BY <1>1, <1>6, IdsUsed DEF Sound, Coming
<1>12. Coming(k)
  <2>1. \A p \in Pages : k.state[p] = "MigratingToGPU" => p \in k.migrations[Admit(r)].pages
    BY <1>2, <1>3, <1>11
  <2>2. \A s \in Regions : \A p \in k.migrations[Admit(s)].pages : s = r /\ p \in adm
    BY <1>2, <1>9, <1>11
  <2>3. \A op \in k.controlOps : op.for # id
    BY <1>2, <1>7
  <2>. QED BY <1>3, <1>4, <1>5, <2>1, <2>2, <2>3 DEF Coming
<1>13. Going(k)
  <2>1. \A p \in Pages : k.state[p] = "MigratingToCPU" =>
                           p \in k.migrations[Evict(RegionOf(p))].pages
    BY <1>3, <1>5, <1>9 DEF Sound, Going
  <2>2. \A p \in Pages : k.state[p] = "GPUResident" => ~Live(k, Evict(RegionOf(p)))
    BY <1>3, <1>5, <1>9 DEF Sound, Going
  <2>3. \A s \in Regions : \A p \in PagesOf(s) :
          m.state[p] \in {"GPUResident", "MigratingToCPU"} => k.state[p] = m.state[p]
    BY <1>3 DEF PagesOf
  <2>4. \A s \in Regions :
          k.phase[s] = "Evicting" =>
            \E p \in PagesOf(s) : k.state[p] \in {"GPUResident", "MigratingToCPU"}
    BY <1>4, <2>3 DEF Sound, Going
  <2>. QED BY <2>1, <2>2, <2>4 DEF Going
<1>14. \A s \in Regions : k.phase[s] = "Evicting" <=> m.phase[s] = "Evicting"
  BY <1>4, <1>5
<1>15. Owning(k, None)
  <2>1. \A s \in Regions : \A p \in m.migrations[Evict(s)].pages :
          p \in Pages /\ (m.state[p] = "MigratingToCPU" => k.state[p] = "MigratingToCPU")
    BY <1>1, <1>3, <1>9, IdsUsed
  <2>. QED BY <1>2, <1>9, <1>14, <2>1 DEF Sound, Owning
<1>16. Mapped(k)
  <2>1. \A p \in Pages : p \notin adm => /\ (k.frame[p] <=> m.frame[p]) /\ k.state[p] = m.state[p]
                                         /\ k.pte[p] = m.pte[p] /\ k.remote[p] = m.remote[p]
    BY <1>2, <1>3
  <2>2. \A p \in adm : /\ k.frame[p] /\ k.state[p] = "MigratingToGPU"
                        /\ k.pte[p] = "Migrating"
    BY <1>3
  <2>3. \A p \in Pages : k.phase[RegionOf(p)] = "Evicting" <=> m.phase[RegionOf(p)] = "Evicting"
    BY <1>5, <1>14
  <2>. QED BY <2>1, <2>2, <2>3 DEF Sound, Mapped
<1>17. Listed(k)
  BY <1>2, <1>3, <1>5, <1>14 DEF Sound, Listed
<1>18. Aiming(k)
  <2>1. \A s \in Regions : k.faults[s] # "Handling"
    <3>1. \A s \in Regions : m.faults[s] = "Handling" => s = r
      BY DEF Serving, Served, Slot
    <3>. QED BY <1>4, <3>1
  <2>2. \A v \in Regions : k.then[v] = None
    BY <1>2 DEF Serving
  <2>. QED BY <2>1, <2>2 DEF Aiming
<1>19. Leaving(k) = Leaving(m)
  BY <1>3, <1>5, <1>14 DEF Leaving
<1>20. Sound(k, None, 0)
  BY <1>1, <1>2, <1>10, <1>12, <1>13, <1>15, <1>16, <1>17, <1>18, <1>19 DEF Sound
<1>21. Resting(k, id)
  BY <1>2, <1>7 DEF Resting, Asking, Ended
<1>. QED BY <1>2, <1>3, <1>20, <1>21

(* From m to n, pages of sel may have set out for the GPU. *)
Brought(m, n, sel) ==
  \A p \in Pages :
    \/ n.state[p] = m.state[p]
    \/ p \in sel /\ m.state[p] = "CPUResident" /\ n.state[p] = "MigratingToGPU"

LEMMA PreEvictSound ==
  ASSUME NEW m, Sound(m, None, 0), NEW exclude
  PROVE  Sound(PreEvict(m, exclude), None, 0) /\ PreEvict(m, exclude).state = m.state
<1>1. m \in Managers
  BY DEF Sound
<1>. DEFINE n == PreEvict(m, exclude)
<1>2. n = m \/ \E vs \in Seq(Regions) : Begun(m, n, vs, None) /\ Chosen(m, vs, exclude)
  BY <1>1, PreEvictEffect
<1>. HIDE DEF n
<1>3. Sound(n, None, 0) /\ n.state = m.state
  BY <1>2, BegunSound
<1>. QED BY <1>3 DEF n

LEMMA StartAdmissionSound ==
  ASSUME NoOverlap, NEW m, NEW r \in Regions, Serving(m, r), Sound(m, None, 0),
         NEW sel \in SUBSET Pages, PrefetchDisabled => sel \subseteq PagesOf(r)
  PROVE  LET n == StartAdmission(m, r, sel) IN Sound(n, None, 0) /\ Brought(m, n, sel)
<1>. DEFINE adm == Admitted(m, sel)
            n   == StartAdmission(m, r, sel)
<1>1. Closing(m, r) /\ Safe(m)
  BY ServingClosing DEF Serving
<1>2. /\ adm \subseteq {p \in sel : m.state[p] = "CPUResident"}
      /\ \/ n = DeferAdmission(m, r, sel)
         \/ \E k : Opened(m, k, r, adm) /\ n = PreEvict(DrainNext(k, Admit(r)), sel)
  BY <1>1, StartAdmissionEffect
<1>. HIDE DEF n, adm
<1>3. CASE n = DeferAdmission(m, r, sel)
  <2>1. PICK k : Quiet(m, k) /\ n = RetireFaults(k, {r})
    BY <1>1, <1>3, DeferAdmissionEffect
  <2>2. Closing(k, r) /\ Sound(k, None, 0) /\ k.state = m.state
    BY <1>1, <2>1, QuietClosing, QuietSound DEF Quiet, SameData
  <2>3. Sound(n, None, 0) /\ n.state = m.state
    BY <2>1, <2>2, RetireActiveSound
  <2>. QED BY <2>3 DEF Brought, n
<1>4. ASSUME NEW k, Opened(m, k, r, adm), n = PreEvict(DrainNext(k, Admit(r)), sel)
      PROVE  Sound(n, None, 0) /\ Brought(m, n, sel)
  <2>1. m.faults[r] = "Handling"
    BY DEF Serving
  <2>2. adm \in SUBSET Pages
    BY <1>2
  <2>3. \A p \in adm : m.state[p] = "CPUResident" /\ m.phase[RegionOf(p)] # "Evicting"
    BY <1>2, <2>1, AdmittedApart
  <2>4. /\ Sound(k, None, 0) /\ Resting(k, Admit(r))
        /\ \A p \in k.migrations[Admit(r)].pages : k.state[p] = "MigratingToGPU"
    BY <1>4, <2>2, <2>3, OpenedSound
  <2>5. Admit(r) \in MigrationIds /\ Admit(r)[1] = "admit"
    BY IdTypes DEF Admit
  <2>6. Sound(DrainNext(k, Admit(r)), None, 0) /\ DrainNext(k, Admit(r)).state = k.state
    BY <2>4, <2>5, DrainNextSound
  <2>7. Sound(n, None, 0) /\ n.state = k.state
    BY <1>4, <2>6, PreEvictSound
  <2>8. Brought(m, k, sel)
    BY <1>2, <1>4, <2>3 DEF Opened, Brought
  <2>. QED BY <2>7, <2>8 DEF Brought
<1>. QED BY <1>2, <1>3, <1>4 DEF n

LEMMA PostponedSound ==
  ASSUME NEW m, Sound(m, None, 0), NEW r \in Regions, NEW sel,
         PrefetchDisabled => sel \subseteq PagesOf(r), NEW n, Postponed(m, n, r, sel)
  PROVE  Sound(n, None, 0) /\ Brought(m, n, sel)
<1>1. PICK v \in Regions, wait \in Waiting :
        /\ wait.txn = r /\ wait.pages = sel
        /\ Begun(m, n, <<v>>, wait) /\ Chosen(m, <<v>>, {})
  BY DEF Postponed
<1>2. Sound(n, None, 0) /\ n.state = m.state
  BY <1>1, OneRegion, BegunSound
<1>. QED BY <1>2 DEF Brought

LEMMA WithCapacitySound ==
  ASSUME NoOverlap, NEW m, NEW r \in Regions, Serving(m, r), Sound(m, None, 0),
         NEW sel \in SUBSET Pages, PrefetchDisabled => sel \subseteq PagesOf(r)
  PROVE  LET n == WithCapacity(m, r, sel) IN Sound(n, None, 0) /\ Brought(m, n, sel)
<1>1. m \in Managers
  BY DEF Sound
<1>. QED BY <1>1, WithCapacityEffect, StartAdmissionSound, PostponedSound

LEMMA EvictNextSound ==
  ASSUME NoOverlap, NEW m, NEW wait \in Waiting, NEW w, Apart(w, wait),
         Serving(m, wait.txn), Sound(m, None, 0),
         PrefetchDisabled => wait.pages \subseteq PagesOf(wait.txn)
  PROVE  LET n == EvictNext(m, wait) IN Sound(n, None, 0) /\ Brought(m, n, wait.pages)
<1>1. wait.txn \in Regions /\ wait.pages \in SUBSET Pages /\ m \in Managers
  BY DEF Waiting, Sound
<1>. QED BY <1>1, EvictNextEffect, StartAdmissionSound, PostponedSound

(* What waited for the eviction of r goes on, and leaves the pages of r     *)
(* where they are.                                                         *)
LEMMA ResumeWaitingSound ==
  ASSUME NoOverlap, NEW m, Safe(m), Served(m), Sound(m, None, 0), NEW r \in Regions
  PROVE  LET n == ResumeWaiting(m, r) IN Sound(n, None, 0) /\ Brought(m, n, Pages \ PagesOf(r))
<1>. DEFINE n == ResumeWaiting(m, r)
            wait == m.then[r]
<1>1. PICK k : /\ Woken(m, k, r)
               /\ \/ m.then[r] = None /\ n = k
                  \/ /\ m.then[r] \in Waiting /\ m.then[r] # None
                     /\ n = EvictNext(k, m.then[r])
  BY ResumeWaitingEffect
<1>. HIDE DEF n
<1>2. Sound(k, None, 0) /\ k.state = m.state
  <2>1. /\ k \in Managers /\ k.migrations = m.migrations /\ k.controlOps = m.controlOps
        /\ k.events = m.events /\ k.phase = m.phase /\ k.deferred = m.deferred
        /\ k.faults = m.faults /\ SameData(m, k)
        /\ \A v \in Regions : k.then[v] = m.then[v] \/ k.then[v] = None
    BY <1>1 DEF Woken, Safe, SameQueue
  <2>2. Steps(k) /\ Coming(k) /\ Going(k) /\ Owning(k, None)
    <3>1. Steps(k) /\ Coming(k)
      BY <2>1 DEF Sound, Steps, Coming, Live, Ended, Fetching, SameData
    <3>2. Going(k)
      BY <2>1 DEF Sound, Going, Live, SameData
    <3>3. Owning(k, None)
      BY <2>1 DEF Sound, Owning, Live, Asking, SameData
    <3>. QED BY <3>1, <3>2, <3>3
  <2>3. Mapped(k) /\ Listed(k) /\ Leaving(k) = Leaving(m)
    BY <2>1 DEF Sound, Mapped, Listed, Leaving, SameData
  <2>4. Aiming(k)
    BY <2>1 DEF Sound, Aiming
  <2>. QED BY <2>1, <2>2, <2>3, <2>4 DEF Sound, SameData
<1>3. CASE n = k
  BY <1>2, <1>3 DEF Brought, n
<1>4. CASE m.then[r] \in Waiting /\ m.then[r] # None /\ n = EvictNext(k, m.then[r])
  <2>1. Serving(k, wait.txn) /\ Apart(r, wait)
    BY <1>1, <1>4, WokenServed
  <2>2. PrefetchDisabled => wait.pages \subseteq PagesOf(wait.txn)
    BY <1>4 DEF Sound, Aiming
  <2>3. Sound(n, None, 0) /\ Brought(k, n, wait.pages)
    BY <1>2, <1>4, <2>1, <2>2, EvictNextSound
  <2>4. PagesOf(r) \cap wait.pages = {}
    BY <2>1 DEF Apart
  <2>. QED BY <1>2, <2>3, <2>4 DEF Brought, n
<1>. QED BY <1>1, <1>3, <1>4

-----------------------------------------------------------------------------
(* The end of an eviction.                                                 *)

(* Of fewer events nothing follows. *)
LEMMA EventTakenSound ==
  ASSUME NEW m, NEW h, NEW c, Sound(m, h, c), NEW n, SameButEvents(m, n),
         n.events \subseteq m.events
  PROVE  Sound(n, h, c) /\ n.state = m.state
<1>1. /\ n.migrations = m.migrations /\ n.controlOps = m.controlOps /\ n.then = m.then
      /\ n.state = m.state /\ n.frame = m.frame /\ n.remote = m.remote /\ n.pte = m.pte
      /\ n.evicting = m.evicting /\ n.lru = m.lru /\ n.phase = m.phase
      /\ n.faults = m.faults /\ n.deferred = m.deferred /\ n \in Managers
      /\ \A id : Ended(n, id) => Ended(m, id)
      /\ \A id : Live(n, id) <=> Live(m, id)
      /\ \A id : Asking(n, id) <=> Asking(m, id)
  BY DEF SameButEvents, SameData, KeepsFrames, Ended, Live, Asking
<1>2. Steps(n)
  <2>1. \A op \in m.controlOps : m.migrations[op.for].dma = {} /\ ~Ended(n, op.for)
    BY <1>1 DEF Sound, Steps
  <2>. QED BY <1>1, <2>1 DEF Sound, Steps
<1>3. Coming(n)
  <2>1. \A s \in Regions : Fetching(n, Admit(s)) => Fetching(m, Admit(s))
    BY <1>1 DEF Fetching
  <2>. QED BY <1>1, <2>1 DEF Sound, Coming
<1>4. Going(n) /\ Owning(n, h)
  BY <1>1 DEF Sound, Going, Owning
<1>5. Mapped(n) /\ Listed(n) /\ Aiming(n) /\ Leaving(n) = Leaving(m)
  BY <1>1 DEF Sound, Mapped, Listed, Aiming, Leaving
<1>. QED BY <1>1, <1>2, <1>3, <1>4, <1>5 DEF Sound

(* The write-back of region r has ended, and its eviction is in hand. *)
Ending(m, r) ==
  /\ Sound(m, None, 0)
  /\ Live(m, Evict(r)) /\ ~Asking(m, Evict(r)) /\ ~Ended(m, Evict(r))

LEMMA EndingRegion ==
  ASSUME NEW m, NEW r \in Regions, Ending(m, r)
  PROVE  /\ m.phase[r] = "Evicting" /\ Out(m, r) # {} /\ Out(m, r) \subseteq PagesOf(r)
         /\ \A p \in PagesOf(r) : /\ p \in Out(m, r) <=> m.state[p] = "MigratingToCPU"
                                  /\ p \in Out(m, r) <=> m.frame[p]
                                  /\ m.state[p] # "GPUResident"
<1>1. m \in Managers /\ m.phase[r] = "Evicting"
  BY IdTypes DEF Ending, Sound, Owning
<1>2. \A p \in PagesOf(r) : p \in Pages /\ RegionOf(p) = r
  BY DEF PagesOf
<1>3. \A p \in PagesOf(r) : m.state[p] # "GPUResident"
  BY <1>2 DEF Ending, Sound, Going
<1>4. \A p \in PagesOf(r) : m.state[p] # "MigratingToGPU"
  <2>1. \A p \in Pages : m.state[p] = "MigratingToGPU" => m.phase[RegionOf(p)] = "MigratingToGPU"
    BY DEF Ending, Sound, Coming
  <2>. QED BY <1>1, <1>2, <2>1
<1>5. \A p \in PagesOf(r) :
        m.state[p] \in {"CPUResident", "GPUResident", "MigratingToGPU", "MigratingToCPU"}
  BY <1>1, <1>2 DEF Managers
<1>6. \A p \in PagesOf(r) : m.frame[p] <=> m.state[p] = "MigratingToCPU"
  BY <1>2, <1>3, <1>4, <1>5 DEF Ending, Sound, Mapped
<1>7. \E p \in PagesOf(r) : m.state[p] = "MigratingToCPU"
  BY <1>1, <1>3 DEF Ending, Sound, Going
<1>. QED BY <1>1, <1>3, <1>6, <1>7 DEF Out

(* The pages are back on the host; the counter still includes their frames. *)
LEMMA ReleasedSound ==
  ASSUME NEW m, NEW r \in Regions, Ending(m, r), NEW j, Released(m, j, r)
  PROVE  Sound(j, r, Cardinality(Out(m, r)))
<1>. DEFINE out == Out(m, r)
<1>1. /\ m.phase[r] = "Evicting" /\ out # {} /\ out \subseteq PagesOf(r)
      /\ \A p \in PagesOf(r) : /\ p \in out <=> m.state[p] = "MigratingToCPU"
                               /\ p \in out <=> m.frame[p]
                               /\ m.state[p] # "GPUResident"
  BY EndingRegion
<1>2. \A p \in Pages : p \in PagesOf(r) <=> RegionOf(p) = r
  BY DEF PagesOf
<1>3. /\ j.migrations = m.migrations /\ j.controlOps = m.controlOps /\ j.then = m.then
      /\ j.evicting = m.evicting /\ j.lru = m.lru
      /\ j.faults = m.faults /\ j.deferred = m.deferred /\ j \in Managers /\ m \in Managers
      /\ \A id \in MigrationIds : Ended(j, id) <=> Ended(m, id)
      /\ \A id : Live(j, id) <=> Live(m, id)
      /\ \A id : Asking(j, id) <=> Asking(m, id)
  BY DEF Released, SameQueue, SameWork, Ended, Live, Asking, Ending, Sound
<1>4. /\ \A p \in out : /\ ~j.frame[p] /\ j.state[p] = "CPUResident"
                        /\ Unmapped = "Remote" => j.remote[p]
                        /\ j.pte[p] = Unmapped
      /\ \A p \in Pages : p \notin out => /\ j.frame[p] <=> m.frame[p]
                                          /\ j.state[p] = m.state[p]
                                          /\ j.remote[p] = m.remote[p]
                                          /\ j.pte[p] = m.pte[p]
      /\ \A s \in Regions : j.phase[s] = IF s = r THEN "Idle" ELSE m.phase[s]
  BY <1>1 DEF Released, Out, PagesOf
<1>5. \A p \in Pages : RegionOf(p) \in Regions
  BY RegionType
<1>. HIDE DEF out
<1>6. Steps(j)
  <2>1. \A op \in m.controlOps : op.for \in MigrationIds
    BY <1>3, IdsUsed
  <2>. QED BY <1>3, <2>1 DEF Ending, Sound, Steps
<1>7. Coming(j)
  <2>1. \A s \in Regions : Fetching(j, Admit(s)) <=> Fetching(m, Admit(s))
    BY <1>3, IdTypes DEF Fetching
  <2>2. \A s \in Regions : \A p \in m.migrations[Admit(s)].pages :
          p \in Pages /\ RegionOf(p) # r /\ p \notin out
    BY <1>1, <1>2, <1>3, IdsUsed, IdTypes DEF Ending, Sound, Coming
  <2>3. \A p \in Pages : j.state[p] = "MigratingToGPU" => m.state[p] = "MigratingToGPU"
    BY <1>4
  <2>4. \A p \in Pages : j.state[p] = "MigratingToGPU" =>
                           \E s \in Regions : p \in j.migrations[Admit(s)].pages
    BY <1>3, <2>3 DEF Ending, Sound, Coming
  <2>5. \A s \in Regions : \A p \in m.migrations[Admit(s)].pages :
          j.state[p] = m.state[p] /\ j.phase[RegionOf(p)] = m.phase[RegionOf(p)]
    BY <1>4, <1>5, <2>2
  <2>. QED BY <1>3, <2>1, <2>4, <2>5 DEF Ending, Sound, Coming
<1>8. Going(j)
  <2>1. \A p \in Pages : j.state[p] = "MigratingToCPU" => m.state[p] = "MigratingToCPU"
    BY <1>4
  <2>2. \A p \in Pages : j.state[p] = "GPUResident" => m.state[p] = "GPUResident"
    BY <1>4
  <2>3. \A s \in Regions : j.phase[s] = "Evicting" => m.phase[s] = "Evicting" /\ s # r
    BY <1>4
  <2>4. \A s \in Regions : s # r => \A p \in PagesOf(s) : j.state[p] = m.state[p]
    BY <1>1, <1>4 DEF PagesOf
  <2>5. \A s \in Regions : j.phase[s] = "Evicting" =>
          \E p \in PagesOf(s) : j.state[p] \in {"GPUResident", "MigratingToCPU"}
    BY <2>3, <2>4 DEF Ending, Sound, Going
  <2>. QED BY <1>3, <2>1, <2>2, <2>5 DEF Ending, Sound, Going
<1>9. Owning(j, r)
  <2>1. \A s \in Regions : \A p \in m.migrations[Evict(s)].pages :
          p \in Pages /\ RegionOf(p) = s /\ m.state[p] = "MigratingToCPU"
    BY <1>3, IdsUsed, IdTypes DEF Ending, Sound, Owning
  <2>2. \A s \in Regions : s # r =>
          \A p \in m.migrations[Evict(s)].pages : RegionOf(p) = s /\ j.state[p] = "MigratingToCPU"
    BY <1>1, <1>2, <1>4, <2>1
  <2>3. \A s \in Regions : s # None
    BY IdTypes
  <2>. QED BY <1>3, <1>4, <2>2, <2>3 DEF Ending, Sound, Owning
<1>10. Mapped(j)
  <2>1. \A p \in out : /\ p \in Pages /\ RegionOf(p) = r /\ j.phase[RegionOf(p)] # "Evicting"
                       /\ Unmapped \in {"Remote", "Invalid"}
    BY <1>1, <1>4 DEF Unmapped, PagesOf
  <2>2. \A p \in Pages : j.phase[RegionOf(p)] = "Evicting" => m.phase[RegionOf(p)] = "Evicting"
    BY <1>4, <1>5
  <2>3. ASSUME NEW p \in Pages, p \notin out
        PROVE  /\ j.pte[p] = "Local" => j.state[p] = "GPUResident"
               /\ j.pte[p] = "Remote" => j.state[p] = "CPUResident" /\ j.remote[p]
               /\ j.state[p] # "CPUResident" => j.frame[p]
               /\ j.state[p] = "CPUResident" => ~j.frame[p] /\ j.pte[p] # "Migrating"
               /\ j.phase[RegionOf(p)] = "Evicting" /\ j.state[p] = "GPUResident" =>
                    j.pte[p] = "Migrating"
    BY <1>4, <2>2, <2>3 DEF Ending, Sound, Mapped
  <2>. QED BY <1>4, <2>1, <2>3 DEF Mapped
<1>11. Listed(j)
  <2>1. \A p \in Pages : j.state[p] = "GPUResident" => m.state[p] = "GPUResident" /\ RegionOf(p) # r
    BY <1>1, <1>2, <1>4
  <2>. QED BY <1>3, <1>4, <1>5, <2>1 DEF Ending, Sound, Listed
<1>12. Aiming(j)
  BY <1>1, <1>3, <1>4 DEF Ending, Sound, Aiming
<1>13. j.evicting = Cardinality(Leaving(j)) + Cardinality(out)
  <2>1. \A p \in Pages : p \in Leaving(m) <=> p \in Leaving(j) \/ p \in out
    BY <1>1, <1>2, <1>4, <1>5 DEF Leaving
  <2>2. out \subseteq Pages /\ Leaving(j) \subseteq Pages /\ Leaving(j) \cap out = {}
    BY <1>1, <1>4 DEF Leaving, PagesOf
  <2>3. Leaving(m) = Leaving(j) \cup out
    BY <2>1, <2>2 DEF Leaving
  <2>4. Cardinality(Leaving(m)) = Cardinality(Leaving(j)) + Cardinality(out)
    BY <2>2, <2>3, DisjointSizes
  <2>5. Cardinality(Leaving(j)) \in Nat /\ Cardinality(out) \in Nat
    BY <2>2, PageSets
  <2>. QED BY <1>3, <2>4, <2>5 DEF Ending, Sound
<1>. QED BY <1>3, <1>6, <1>7, <1>8, <1>9, <1>10, <1>11, <1>12, <1>13 DEF Sound, out

(* A region that is not being evicted lets go of its parked transaction. *)
LEMMA ResumeDeferredSound ==
  ASSUME NEW m, NEW r \in Regions, NEW h, NEW c, Served(m), Sound(m, h, c),
         m.phase[r] # "Evicting"
  PROVE  LET n == ResumeDeferred(m, r)
         IN  /\ Sound(n, h, c) /\ n.state = m.state
             /\ SameWork(m, n) /\ n.phase[r] # "Evicting" /\ r \notin n.deferred
<1>. DEFINE n == ResumeDeferred(m, r)
<1>1. m \in Managers
  BY DEF Served
<1>2. \/ r \notin m.deferred /\ n = m
      \/ \E k : Entered(m, k, r) /\ k.deferred = m.deferred \ {r} /\ n = StartNext(k)
  BY <1>1, ResumeDeferredEffect
<1>. HIDE DEF n
<1>3. CASE r \notin m.deferred /\ n = m
  BY <1>3 DEF SameWork, n
<1>4. ASSUME NEW k, Entered(m, k, r), k.deferred = m.deferred \ {r}, n = StartNext(k)
      PROVE  /\ Sound(n, h, c) /\ n.state = m.state
             /\ SameWork(m, n) /\ n.phase[r] # "Evicting" /\ r \notin n.deferred
  <2>1. Sound(n, h, c) /\ n.state = m.state
    BY <1>4, EnteredSound
  <2>2. k \in Managers /\ SameWork(m, k) /\ k.phase = m.phase
    BY <1>4 DEF Entered
  <2>3. SameWork(k, n) /\ n.deferred = k.deferred
    BY <1>4, <2>2, StartNextEffect
  <2>4. n.phase[r] # "Evicting"
    <3>1. k.active # None \/ k.cue = <<>> => n = k
      BY <1>4, <2>2, StartNextEffect
    <3>2. k.active = None /\ k.cue # <<>> =>
            n.phase[r] = IF r = Head(k.cue) /\ k.phase[r] # "Evicting"
                         THEN "FaultPending" ELSE k.phase[r]
      BY <1>4, <2>2, StartNextEffect
    <3>. QED BY <2>2, <3>1, <3>2
  <2>. QED BY <1>4, <2>1, <2>2, <2>3, <2>4 DEF SameWork
<1>. QED BY <1>2, <1>3, <1>4 DEF n

(* The counter and the recency list follow. *)
LEMMA DroppedSound ==
  ASSUME NEW m, NEW r \in Regions, NEW c \in Nat, Sound(m, r, c),
         \A p \in PagesOf(r) : m.state[p] # "GPUResident",
         NEW n, Dropped(m, n, r, c)
  PROVE  Sound(n, r, 0) /\ n.state = m.state
<1>1. /\ n.migrations = m.migrations /\ n.controlOps = m.controlOps /\ n.then = m.then
      /\ n.state = m.state /\ n.frame = m.frame /\ n.remote = m.remote /\ n.pte = m.pte
      /\ n.phase = m.phase /\ n.faults = m.faults /\ n.deferred = m.deferred
      /\ n \in Managers /\ m \in Managers
      /\ Elements(n.lru) = Elements(m.lru) \cap (Regions \ {r})
      /\ \A id \in MigrationIds : Ended(n, id) <=> Ended(m, id)
      /\ \A id : Live(n, id) <=> Live(m, id)
      /\ \A id : Asking(n, id) <=> Asking(m, id)
  BY DEF Dropped, SameQueue, SameWork, Ended, Live, Asking, Sound
<1>2. Steps(n)
  <2>1. \A op \in m.controlOps : op.for \in MigrationIds
    BY <1>1, IdsUsed
  <2>. QED BY <1>1, <2>1 DEF Sound, Steps
<1>3. Coming(n)
  <2>1. \A s \in Regions : Fetching(n, Admit(s)) <=> Fetching(m, Admit(s))
    BY <1>1, IdTypes DEF Fetching
  <2>. QED BY <1>1, <2>1 DEF Sound, Coming
<1>4. Going(n) /\ Owning(n, r)
  BY <1>1 DEF Sound, Going, Owning
<1>5. Mapped(n) /\ Aiming(n) /\ Leaving(n) = Leaving(m)
  BY <1>1 DEF Sound, Mapped, Aiming, Leaving
<1>6. Listed(n)
  <2>1. \A p \in Pages : m.state[p] = "GPUResident" => RegionOf(p) \in Regions \ {r}
    BY RegionType DEF PagesOf
  <2>. QED BY <1>1, <2>1 DEF Sound, Listed
<1>7. n.evicting = Cardinality(Leaving(n)) + 0
  <2>1. Cardinality(Leaving(m)) \in Nat
    BY PageSets DEF Leaving
  <2>. QED BY <1>5, <2>1 DEF Sound, Dropped
<1>. QED BY <1>1, <1>2, <1>3, <1>4, <1>5, <1>6, <1>7 DEF Sound

(* The eviction is over. *)
LEMMA ForgottenSound ==
  ASSUME NEW m, NEW r \in Regions, Sound(m, r, 0),
         ~Asking(m, Evict(r)), ~Ended(m, Evict(r)),
         \A p \in PagesOf(r) : m.state[p] # "MigratingToCPU",
         m.phase[r] # "Evicting", r \notin m.deferred,
         NEW n, Forgotten(m, n, Evict(r))
  PROVE  Sound(n, None, 0) /\ n.state = m.state
<1>1. /\ n.controlOps = m.controlOps /\ n.then = m.then
      /\ n.state = m.state /\ n.frame = m.frame /\ n.remote = m.remote /\ n.pte = m.pte
      /\ n.evicting = m.evicting /\ n.lru = m.lru
      /\ n.phase = m.phase /\ n.faults = m.faults /\ n.deferred = m.deferred
      /\ n \in Managers /\ m \in Managers
      /\ \A id : Ended(n, id) <=> Ended(m, id)
      /\ \A id : Asking(n, id) <=> Asking(m, id)
  BY DEF Forgotten, SameQueue, SameData, Ended, Asking, Sound
<1>2. ~Live(n, Evict(r)) /\ Evict(r) \in MigrationIds
  BY IdTypes DEF Forgotten, Live
<1>3. \A i \in MigrationIds : i # Evict(r) => /\ n.migrations[i] = m.migrations[i]
                                              /\ Live(n, i) <=> Live(m, i)
  BY DEF Forgotten, Live
<1>4. n.migrations[Evict(r)].pages = {} /\ n.migrations[Evict(r)].dma = {}
  BY <1>1, <1>2, IdsUsed
<1>5. \A s \in Regions : /\ Admit(s) \in MigrationIds /\ Evict(s) \in MigrationIds
                         /\ Admit(s) # Evict(r) /\ (s # r => Evict(s) # Evict(r))
  BY IdTypes
<1>6. Steps(n)
  <2>1. \A op \in m.controlOps : op.for \in MigrationIds /\ op.for # Evict(r)
    BY <1>1, IdsUsed DEF Asking
  <2>2. \A op \in n.controlOps : n.migrations[op.for].dma = {} /\ ~Ended(n, op.for)
    BY <1>1, <1>3, <2>1 DEF Sound, Steps
  <2>3. \A i \in MigrationIds : /\ Ended(n, i) => Live(n, i) /\ n.migrations[i].dma = {}
                                /\ n.migrations[i].dma \subseteq n.migrations[i].pages
    BY <1>1, <1>3, <1>4 DEF Sound, Steps
  <2>4. \A op \in n.controlOps, s \in Regions :
          /\ op.for = Evict(s) => op.region = s /\ ~Live(n, Evict(s))
          /\ op.for = Admit(s) => Live(n, Admit(s))
    BY <1>1, <1>3, <1>5, <2>1 DEF Sound, Steps
  <2>. QED BY <1>1, <2>2, <2>3, <2>4 DEF Sound, Steps
<1>7. Coming(n)
  <2>1. \A s \in Regions : /\ Fetching(n, Admit(s)) <=> Fetching(m, Admit(s))
                           /\ n.migrations[Admit(s)] = m.migrations[Admit(s)]
    BY <1>1, <1>3, <1>5 DEF Fetching
  <2>. QED BY <1>1, <2>1 DEF Sound, Coming
<1>8. Going(n)
  <2>1. \A p \in Pages : m.state[p] = "MigratingToCPU" => RegionOf(p) # r
    BY DEF PagesOf
  <2>2. \A p \in Pages : RegionOf(p) \in Regions
    BY RegionType
  <2>3. \A p \in Pages : n.state[p] = "MigratingToCPU" => p \in n.migrations[Evict(RegionOf(p))].pages
    BY <1>1, <1>3, <1>5, <2>1, <2>2 DEF Sound, Going
  <2>4. \A p \in Pages : n.state[p] = "GPUResident" => ~Live(n, Evict(RegionOf(p)))
    BY <1>1, <1>2, <1>3, <1>5, <2>2 DEF Sound, Going
  <2>. QED BY <1>1, <2>3, <2>4 DEF Sound, Going
<1>9. Owning(n, None)
  <2>1. ASSUME NEW s \in Regions
        PROVE  /\ n.phase[s] = "Evicting" <=> Asking(n, Evict(s)) \/ Live(n, Evict(s))
               /\ s \in n.deferred => n.phase[s] = "Evicting"
               /\ \A p \in n.migrations[Evict(s)].pages :
                    RegionOf(p) = s /\ n.state[p] = "MigratingToCPU"
    <3>1. CASE s = r
      BY <1>1, <1>2, <1>4, <3>1
    <3>2. CASE s # r
      BY <1>1, <1>3, <1>5, <3>2 DEF Sound, Owning
    <3>. QED BY <3>1, <3>2
  <2>. QED BY <2>1 DEF Owning
<1>10. Mapped(n) /\ Listed(n) /\ Aiming(n) /\ Leaving(n) = Leaving(m)
  BY <1>1 DEF Sound, Mapped, Listed, Aiming, Leaving
<1>. QED BY <1>1, <1>6, <1>7, <1>8, <1>9, <1>10 DEF Sound

(* From m to n, pages of region r, which were being written back, are on   *)
(* the host again.                                                         *)
Returned(m, n, r) ==
  \A p \in Pages :
    \/ n.state[p] = m.state[p]
    \/ p \in PagesOf(r) /\ m.state[p] = "MigratingToCPU" /\ n.state[p] = "CPUResident"

LEMMA FinalizeEvictionSound ==
  ASSUME NEW m, NEW r \in Regions, Served(m), Ending(m, r)
  PROVE  LET n == FinalizeEviction(m, r)
         IN  /\ Sound(n, r, 0) /\ Returned(m, n, r)
             /\ ~Asking(n, Evict(r)) /\ ~Ended(n, Evict(r))
             /\ \A p \in PagesOf(r) : n.state[p] = "CPUResident"
             /\ n.phase[r] # "Evicting" /\ r \notin n.deferred
<1>. DEFINE n == FinalizeEviction(m, r)
            c == Cardinality(Out(m, r))
<1>1. /\ m \in Managers /\ Out(m, r) # {} /\ Out(m, r) \subseteq PagesOf(r)
      /\ \A p \in PagesOf(r) : /\ p \in Out(m, r) <=> m.state[p] = "MigratingToCPU"
                               /\ p \in Out(m, r) <=> m.frame[p]
                               /\ m.state[p] # "GPUResident"
  BY EndingRegion DEF Served
<1>2. PICK j : Released(m, j, r) /\ Dropped(ResumeDeferred(j, r), n, r, c)
  BY <1>1, FinalizeEvictionEffect
<1>. DEFINE x == ResumeDeferred(j, r)
<1>3. Served(j) /\ Sound(j, r, c) /\ j.phase[r] # "Evicting"
  BY <1>2, ServedKept, ReleasedSound DEF Released, SameWork
<1>4. /\ Sound(x, r, c) /\ x.state = j.state
      /\ SameWork(j, x) /\ x.phase[r] # "Evicting" /\ r \notin x.deferred
  BY <1>3, ResumeDeferredSound
<1>5. \A p \in PagesOf(r) : j.state[p] = "CPUResident"
  <2>1. \A p \in PagesOf(r) :
          /\ p \in Pages
          /\ m.state[p] \in {"CPUResident", "GPUResident", "MigratingToGPU", "MigratingToCPU"}
    BY <1>1 DEF Managers, PagesOf
  <2>2. \A p \in PagesOf(r) : m.state[p] # "CPUResident" => m.frame[p]
    BY <2>1 DEF Ending, Sound, Mapped
  <2>. QED BY <1>1, <1>2, <2>1, <2>2 DEF Released
<1>6. c \in Nat /\ Dropped(x, n, r, c)
  <2>1. Out(m, r) \subseteq Pages
    BY DEF Out, PagesOf
  <2>. QED BY <1>2, <2>1, PageSets
<1>. HIDE DEF x, n, c
<1>7. Sound(n, r, 0) /\ n.state = x.state
  BY <1>4, <1>5, <1>6, DroppedSound
<1>8. Returned(m, n, r)
  BY <1>1, <1>2, <1>4, <1>7 DEF Returned, Released
<1>9. ~Asking(n, Evict(r)) /\ ~Ended(n, Evict(r))
  BY <1>2, <1>4, <1>6, IdTypes DEF Ending, Released, Dropped, SameWork, Asking, Ended
<1>10. n.phase[r] # "Evicting" /\ r \notin n.deferred
  BY <1>4, <1>6 DEF Dropped, SameQueue
<1>. QED BY <1>4, <1>5, <1>7, <1>8, <1>9, <1>10 DEF n

LEMMA CompleteWriteBackSound ==
  ASSUME NoOverlap, NEW m, Safe(m), Served(m), NEW r \in Regions, Ending(m, r)
  PROVE  LET n == CompleteWriteBack(m, r)
         IN  /\ Sound(n, None, 0)
             /\ \E k : Returned(m, k, r) /\ Brought(k, n, Pages \ PagesOf(r))
<1>. DEFINE f == FinalizeEviction(m, r)
<1>1. PICK q, k : /\ Forgotten(f, q, Evict(r))
                  /\ SameQueue(q, k) /\ SameWork(q, k) /\ SameData(q, k)
                  /\ \A s \in Regions : k.phase[s] = q.phase[s]
                  /\ Safe(k) /\ Served(k)
                  /\ CompleteWriteBack(m, r) = ResumeWaiting(k, r)
  BY CompleteWriteBackEffect
<1>2. /\ Sound(f, r, 0) /\ Returned(m, f, r)
      /\ ~Asking(f, Evict(r)) /\ ~Ended(f, Evict(r))
      /\ \A p \in PagesOf(r) : f.state[p] = "CPUResident"
      /\ f.phase[r] # "Evicting" /\ r \notin f.deferred
  BY FinalizeEvictionSound
<1>. HIDE DEF f
<1>3. Sound(q, None, 0) /\ q.state = f.state
  BY <1>1, <1>2, ForgottenSound
<1>4. Sound(k, None, 0) /\ k.state = q.state
  <2>1. Calm(q, k)
    BY <1>1, <1>3 DEF Sound, Aiming, Safe, SameQueue, Calm
  <2>. QED BY <1>1, <1>3, <2>1, CalmSound DEF SameData
<1>5. LET n == ResumeWaiting(k, r) IN Sound(n, None, 0) /\ Brought(k, n, Pages \ PagesOf(r))
  BY <1>1, <1>4, ResumeWaitingSound
<1>6. Returned(m, k, r)
  BY <1>2, <1>3, <1>4 DEF Returned
<1>. QED BY <1>1, <1>5, <1>6

-----------------------------------------------------------------------------
(* Answers of the control path.                                            *)

(* The operation is answered; if it was one of an eviction of h, that      *)
(* eviction is in hand.                                                    *)
LEMMA AnsweredSound ==
  ASSUME NEW m, Sound(m, None, 0), NEW op \in m.controlOps, NEW n, Answered(m, n, op),
         NEW h, \A r \in Regions : op.for = Evict(r) => h = r
  PROVE  /\ Sound(n, h, 0) /\ n.state = m.state
         /\ ~Asking(n, op.for) /\ ~Ended(n, op.for) /\ n.migrations[op.for].dma = {}
<1>1. /\ n.migrations = m.migrations /\ n.then = m.then
      /\ n.state = m.state /\ n.frame = m.frame /\ n.remote = m.remote /\ n.pte = m.pte
      /\ n.evicting = m.evicting /\ n.lru = m.lru /\ n.phase = m.phase
      /\ n.faults = m.faults /\ n.deferred = m.deferred /\ n \in Managers /\ m \in Managers
      /\ n.controlOps = m.controlOps \ {op}
      /\ \A id : Ended(n, id) <=> Ended(m, id)
      /\ \A id : Live(n, id) <=> Live(m, id)
  BY DEF Answered, KeepsFrames, SameQueue, SameData, Ended, Live, Sound
<1>2. \A o1, o2 \in m.controlOps : o1.for = o2.for => o1 = o2
  BY DEF Sound, Steps
<1>3. /\ ~Asking(n, op.for)
      /\ \A id : id # op.for => (Asking(n, id) <=> Asking(m, id))
  BY <1>1, <1>2 DEF Asking
<1>4. ~Ended(m, op.for) /\ m.migrations[op.for].dma = {}
  BY DEF Sound, Steps
<1>5. Steps(n)
  <2>1. \A o \in m.controlOps : m.migrations[o.for].dma = {} /\ ~Ended(n, o.for)
    BY <1>1 DEF Sound, Steps
  <2>. QED BY <1>1, <2>1 DEF Sound, Steps
<1>6. Coming(n)
  <2>1. \A s \in Regions : Fetching(n, Admit(s)) => Fetching(m, Admit(s))
    BY <1>1 DEF Fetching
  <2>. QED BY <1>1, <2>1 DEF Sound, Coming
<1>7. Going(n)
  BY <1>1 DEF Sound, Going
<1>8. Owning(n, h)
  <2>1. \A s \in Regions : s # h => (Asking(n, Evict(s)) <=> Asking(m, Evict(s))) /\ s # None
    BY <1>3, IdTypes
  <2>. QED BY <1>1, <2>1 DEF Sound, Owning
<1>9. Mapped(n) /\ Listed(n) /\ Aiming(n) /\ Leaving(n) = Leaving(m)
  BY <1>1 DEF Sound, Mapped, Listed, Aiming, Leaving
<1>. QED BY <1>1, <1>3, <1>4, <1>5, <1>6, <1>7, <1>8, <1>9 DEF Sound

(* The eviction of region r, which writes nothing back yet, is in hand. *)
Beginning(m, r) ==
  /\ Sound(m, r, 0) /\ m.phase[r] = "Evicting"
  /\ ~Live(m, Evict(r)) /\ ~Asking(m, Evict(r)) /\ ~Ended(m, Evict(r))

LEMMA AnsweredBeginning ==
  ASSUME NEW m, Sound(m, None, 0), NEW op \in m.controlOps, NEW n, Answered(m, n, op),
         NEW r \in Regions, op.for = Evict(r)
  PROVE  Beginning(n, r) /\ op.region = r /\ n.state = m.state
<1>1. /\ Sound(n, r, 0) /\ n.state = m.state
      /\ ~Asking(n, op.for) /\ ~Ended(n, op.for)
  BY AnsweredSound, IdTypes
<1>2. op.region = r /\ ~Live(m, Evict(r)) /\ Asking(m, Evict(r))
  BY DEF Sound, Steps, Asking
<1>3. m.phase[r] = "Evicting"
  BY <1>2, IdTypes DEF Sound, Owning
<1>. QED BY <1>1, <1>2, <1>3 DEF Beginning, Answered, Live

(* The flush of the caches is asked for. *)
LEMMA FlushSound ==
  ASSUME NEW m, NEW r \in Regions, Beginning(m, r),
         NEW n, Requested(m, n, "CacheRangeFlush", <<r>>, EvictOf)
  PROVE  Sound(n, None, 0) /\ n.state = m.state
<1>. DEFINE new == Operation("CacheRangeFlush", r, Evict(r))
<1>1. /\ n.migrations = m.migrations /\ n.then = m.then
      /\ n.state = m.state /\ n.frame = m.frame /\ n.remote = m.remote /\ n.pte = m.pte
      /\ n.evicting = m.evicting /\ n.lru = m.lru /\ n.phase = m.phase
      /\ n.faults = m.faults /\ n.deferred = m.deferred /\ n \in Managers /\ m \in Managers
      /\ \A id \in MigrationIds : Ended(n, id) <=> Ended(m, id)
      /\ \A id : Live(n, id) <=> Live(m, id)
  BY DEF Requested, SameQueue, SameData, Ended, Live, Beginning, Sound
<1>2. \A op : op \in n.controlOps <=> op \in m.controlOps \/ op = new
  BY OneRegion DEF Requested, EvictOf
<1>3. new.for = Evict(r) /\ new.region = r /\ new.kind = "CacheRangeFlush"
  BY DEF Operation
<1>4. \A op \in m.controlOps : op.for \in MigrationIds /\ op.for # Evict(r)
  BY <1>1, IdsUsed DEF Beginning, Asking
<1>5. /\ Evict(r) \in MigrationIds /\ m.migrations[Evict(r)].dma = {}
      /\ m.migrations[Evict(r)].pages = {}
  BY <1>1, IdsUsed, IdTypes DEF Beginning
<1>6. \A s \in Regions : /\ Admit(s) \in MigrationIds /\ Evict(s) \in MigrationIds
                         /\ Admit(s) # Evict(r) /\ (s # r => Evict(s) # Evict(r))
  BY IdTypes
<1>. HIDE DEF new
<1>7. /\ Asking(n, Evict(r))
      /\ \A s \in Regions : s # r => (Asking(n, Evict(s)) <=> Asking(m, Evict(s)))
  BY <1>2, <1>3, <1>6 DEF Asking
<1>8. Steps(n)
  <2>1. \A o1, o2 \in n.controlOps : o1.for = o2.for => o1 = o2
    BY <1>2, <1>3, <1>4 DEF Beginning, Sound, Steps
  <2>2. \A op \in m.controlOps : m.migrations[op.for].dma = {} /\ ~Ended(m, op.for)
    BY DEF Beginning, Sound, Steps
  <2>3. \A op \in n.controlOps : n.migrations[op.for].dma = {} /\ ~Ended(n, op.for)
    BY <1>1, <1>2, <1>3, <1>4, <1>5, <2>2 DEF Beginning
  <2>4. \A i \in MigrationIds : /\ Ended(n, i) => Live(n, i) /\ n.migrations[i].dma = {}
                                /\ n.migrations[i].dma \subseteq n.migrations[i].pages
    BY <1>1 DEF Beginning, Sound, Steps
  <2>5. \A op \in n.controlOps, s \in Regions :
          op.for = Evict(s) => op.region = s /\ ~Live(n, Evict(s))
    BY <1>1, <1>2, <1>3, <1>6 DEF Beginning, Sound, Steps
  <2>6. \A op \in n.controlOps, s \in Regions : op.for = Admit(s) => Live(n, Admit(s))
    BY <1>1, <1>2, <1>3, <1>6 DEF Beginning, Sound, Steps
  <2>. QED BY <2>1, <2>3, <2>4, <2>5, <2>6 DEF Steps
<1>9. Coming(n)
  <2>1. \A s \in Regions : \A op \in n.controlOps : op.for = Admit(s) => op \in m.controlOps
    BY <1>2, <1>3, <1>6
  <2>2. \A s \in Regions : Fetching(n, Admit(s)) => Fetching(m, Admit(s))
    BY <1>1, <1>6, <2>1 DEF Fetching
  <2>. QED BY <1>1, <2>1, <2>2 DEF Beginning, Sound, Coming
<1>10. Going(n)
  BY <1>1 DEF Beginning, Sound, Going
<1>11. Owning(n, None)
  <2>1. ASSUME NEW s \in Regions
        PROVE  /\ n.phase[s] = "Evicting" <=> Asking(n, Evict(s)) \/ Live(n, Evict(s))
               /\ s \in n.deferred => n.phase[s] = "Evicting"
               /\ \A p \in n.migrations[Evict(s)].pages :
                    RegionOf(p) = s /\ n.state[p] = "MigratingToCPU"
    <3>1. CASE s = r
      BY <1>1, <1>5, <1>7, <3>1 DEF Beginning
    <3>2. CASE s # r
      BY <1>1, <1>7, <3>2 DEF Beginning, Sound, Owning
    <3>. QED BY <3>1, <3>2
  <2>. QED BY <2>1 DEF Owning
<1>12. Mapped(n) /\ Listed(n) /\ Aiming(n) /\ Leaving(n) = Leaving(m)
  BY <1>1 DEF Beginning, Sound, Mapped, Listed, Aiming, Leaving
<1>. QED BY <1>1, <1>8, <1>9, <1>10, <1>11, <1>12 DEF Beginning, Sound

(* A region being evicted has a page to write back. *)
LEMMA BeginningRegion ==
  ASSUME NEW m, NEW r \in Regions, Beginning(m, r)
  PROVE  /\ RegionFrames(m, r) # {}
         /\ \A p \in Pages : p \in RegionFrames(m, r) <=>
                               RegionOf(p) = r /\ m.state[p] = "GPUResident"
         /\ \A p \in Pages : RegionOf(p) = r => m.state[p] # "MigratingToCPU"
<1>1. m \in Managers /\ Evict(r) \in MigrationIds
  BY IdTypes DEF Beginning, Sound
<1>2. m.migrations[Evict(r)].pages = {}
  BY <1>1, IdsUsed DEF Beginning
<1>3. \A p \in Pages : RegionOf(p) = r => m.state[p] # "MigratingToCPU"
  BY <1>2 DEF Beginning, Sound, Going
<1>4. \A p \in Pages : m.state[p] = "GPUResident" => m.frame[p]
  BY DEF Beginning, Sound, Mapped
<1>5. \A p \in Pages : p \in RegionFrames(m, r) <=> RegionOf(p) = r /\ m.state[p] = "GPUResident"
  BY <1>4 DEF RegionFrames, Resident, PagesOf
<1>6. \E p \in PagesOf(r) : m.state[p] \in {"GPUResident", "MigratingToCPU"}
  BY DEF Beginning, Sound, Going
<1>. QED BY <1>3, <1>5, <1>6 DEF PagesOf

LEMMA WrittenBackSound ==
  ASSUME NEW m, NEW r \in Regions, Beginning(m, r), NEW k, WrittenBack(m, k, r)
  PROVE  Sound(k, None, 0) /\ Resting(k, Evict(r))
<1>. DEFINE out == RegionFrames(m, r)
<1>1. /\ out # {}
      /\ \A p \in Pages : p \in out <=> RegionOf(p) = r /\ m.state[p] = "GPUResident"
      /\ \A p \in Pages : RegionOf(p) = r => m.state[p] # "MigratingToCPU"
      /\ out \subseteq Pages
  BY BeginningRegion DEF RegionFrames, PagesOf
<1>2. /\ k.then = m.then
      /\ k.frame = m.frame /\ k.remote = m.remote /\ k.pte = m.pte
      /\ k.evicting = m.evicting /\ k.lru = m.lru /\ k.controlOps = m.controlOps
      /\ k.faults = m.faults /\ k.deferred = m.deferred /\ k \in Managers /\ m \in Managers
      /\ \A id : Ended(k, id) <=> Ended(m, id)
      /\ \A id : Asking(k, id) <=> Asking(m, id)
  BY DEF WrittenBack, SameQueue, Ended, Asking, Beginning, Sound
<1>3. /\ \A p \in Pages : k.state[p] = IF p \in out THEN "MigratingToCPU" ELSE m.state[p]
      /\ \A s \in Regions : k.phase[s] = m.phase[s]
      /\ k.migrations[Evict(r)].pages = out /\ k.migrations[Evict(r)].dma = {}
      /\ \A i \in MigrationIds : i # Evict(r) => /\ k.migrations[i] = m.migrations[i]
                                                 /\ Live(k, i) <=> Live(m, i)
  BY DEF WrittenBack, Beginning, Live
<1>. HIDE DEF out
<1>4. Live(k, Evict(r))
  <2>1. NoMigration.pages = {}
    BY DEF NoMigration
  <2>. QED BY <1>1, <1>3, <2>1 DEF Live
<1>5. \A s \in Regions : /\ Admit(s) \in MigrationIds /\ Evict(s) \in MigrationIds
                         /\ Admit(s) # Evict(r) /\ (s # r => Evict(s) # Evict(r))
  BY IdTypes
<1>6. \A p \in Pages : RegionOf(p) \in Regions
  BY RegionType
<1>7. \A op \in m.controlOps : op.for \in MigrationIds /\ op.for # Evict(r)
  BY <1>2, IdsUsed DEF Beginning, Asking
<1>8. Steps(k)
  <2>1. \A op \in m.controlOps : m.migrations[op.for].dma = {} /\ ~Ended(m, op.for)
    BY DEF Beginning, Sound, Steps
  <2>2. \A op \in k.controlOps : k.migrations[op.for].dma = {} /\ ~Ended(k, op.for)
    BY <1>2, <1>3, <1>7, <2>1
  <2>3. \A i \in MigrationIds : /\ Ended(k, i) => Live(k, i) /\ k.migrations[i].dma = {}
                                /\ k.migrations[i].dma \subseteq k.migrations[i].pages
    BY <1>2, <1>3 DEF Beginning, Sound, Steps
  <2>4. \A op \in k.controlOps, s \in Regions :
          /\ op.for = Evict(s) => op.region = s /\ ~Live(k, Evict(s))
          /\ op.for = Admit(s) => Live(k, Admit(s))
    BY <1>2, <1>3, <1>5, <1>7 DEF Beginning, Sound, Steps
  <2>. QED BY <1>2, <2>2, <2>3, <2>4 DEF Beginning, Sound, Steps
<1>9. Coming(k)
  <2>1. \A s \in Regions : /\ Fetching(k, Admit(s)) <=> Fetching(m, Admit(s))
                           /\ k.migrations[Admit(s)] = m.migrations[Admit(s)]
    BY <1>2, <1>3, <1>5 DEF Fetching
  <2>2. \A s \in Regions : \A p \in m.migrations[Admit(s)].pages :
          p \in Pages /\ p \notin out
    BY <1>1, <1>2, <1>5, IdsUsed DEF Beginning, Sound, Coming
  <2>3. \A p \in Pages : k.state[p] = "MigratingToGPU" => m.state[p] = "MigratingToGPU"
    BY <1>3
  <2>4. \A s \in Regions : \A p \in m.migrations[Admit(s)].pages :
          k.state[p] = m.state[p] /\ k.phase[RegionOf(p)] = m.phase[RegionOf(p)]
    BY <1>3, <1>6, <2>2
  <2>. QED BY <1>2, <2>1, <2>3, <2>4 DEF Beginning, Sound, Coming
<1>10. Going(k)
  <2>1. \A p \in Pages : k.state[p] = "MigratingToCPU" => p \in k.migrations[Evict(RegionOf(p))].pages
    BY <1>1, <1>3, <1>5, <1>6 DEF Beginning, Sound, Going
  <2>2. \A p \in Pages : k.state[p] = "GPUResident" => m.state[p] = "GPUResident" /\ RegionOf(p) # r
    BY <1>1, <1>3
  <2>3. \A p \in Pages : k.state[p] = "GPUResident" => ~Live(k, Evict(RegionOf(p)))
    BY <1>3, <1>5, <1>6, <2>2 DEF Beginning, Sound, Going
  <2>4. \A s \in Regions : \A p \in PagesOf(s) :
          m.state[p] \in {"GPUResident", "MigratingToCPU"} =>
            k.state[p] \in {"GPUResident", "MigratingToCPU"}
    BY <1>3 DEF PagesOf
  <2>5. \A s \in Regions : k.phase[s] = "Evicting" =>
          \E p \in PagesOf(s) : k.state[p] \in {"GPUResident", "MigratingToCPU"}
    BY <1>3, <2>4 DEF Beginning, Sound, Going
  <2>. QED BY <2>1, <2>3, <2>5 DEF Going
<1>11. Owning(k, None)
  <2>1. ASSUME NEW s \in Regions
        PROVE  /\ k.phase[s] = "Evicting" <=> Asking(k, Evict(s)) \/ Live(k, Evict(s))
               /\ s \in k.deferred => k.phase[s] = "Evicting"
               /\ \A p \in k.migrations[Evict(s)].pages :
                    RegionOf(p) = s /\ k.state[p] = "MigratingToCPU"
    <3>1. CASE s = r
      BY <1>1, <1>3, <1>4, <3>1 DEF Beginning
    <3>2. CASE s # r
      <4>1. \A p \in m.migrations[Evict(s)].pages :
              p \in Pages /\ RegionOf(p) = s /\ m.state[p] = "MigratingToCPU"
        BY <1>2, <1>5, <3>2, IdsUsed DEF Beginning, Sound, Owning
      <4>2. \A p \in m.migrations[Evict(s)].pages : RegionOf(p) = s /\ k.state[p] = "MigratingToCPU"
        BY <1>3, <4>1
      <4>. QED BY <1>2, <1>3, <1>5, <3>2, <4>2 DEF Beginning, Sound, Owning
    <3>. QED BY <3>1, <3>2
  <2>. QED BY <2>1 DEF Owning
<1>12. Mapped(k)
  <2>1. \A p \in out : p \in Pages /\ m.frame[p] /\ m.pte[p] = "Migrating"
    BY <1>1 DEF Beginning, Sound, Mapped
  <2>2. ASSUME NEW p \in Pages
        PROVE  /\ k.pte[p] = "Local" => k.state[p] = "GPUResident"
               /\ k.pte[p] = "Remote" => k.state[p] = "CPUResident" /\ k.remote[p]
               /\ k.state[p] # "CPUResident" => k.frame[p]
               /\ k.state[p] = "CPUResident" => ~k.frame[p] /\ k.pte[p] # "Migrating"
               /\ k.phase[RegionOf(p)] = "Evicting" /\ k.state[p] = "GPUResident" =>
                    k.pte[p] = "Migrating"
    <3>1. CASE p \in out
      BY <1>2, <1>3, <2>1, <3>1
    <3>2. CASE p \notin out
      BY <1>2, <1>3, <1>6, <3>2 DEF Beginning, Sound, Mapped
    <3>. QED BY <3>1, <3>2
  <2>. QED BY <2>2 DEF Mapped
<1>13. Listed(k)
  <2>1. \A p \in Pages : k.state[p] = "GPUResident" => m.state[p] = "GPUResident"
    BY <1>3
  <2>. QED BY <1>2, <1>3, <1>6, <2>1 DEF Beginning, Sound, Listed
<1>14. Aiming(k)
  BY <1>2, <1>3 DEF Beginning, Sound, Aiming
<1>15. Leaving(k) = Leaving(m)
  BY <1>2, <1>3, <1>6 DEF Leaving
<1>16. Resting(k, Evict(r))
  BY <1>1, <1>2, <1>3 DEF Beginning, Resting
<1>. QED BY <1>2, <1>8, <1>9, <1>10, <1>11, <1>12, <1>13, <1>14, <1>15, <1>16 DEF Beginning, Sound

LEMMA StartWriteBackSound ==
  ASSUME NEW m, NEW r \in Regions, Beginning(m, r)
  PROVE  LET n == StartWriteBack(m, r)
         IN  /\ Sound(n, None, 0)
             /\ \A p \in Pages : \/ n.state[p] = m.state[p]
                                 \/ m.state[p] = "GPUResident" /\ n.state[p] = "MigratingToCPU"
<1>. DEFINE n == StartWriteBack(m, r)
<1>1. m \in Managers /\ Evict(r) \in MigrationIds /\ Evict(r)[1] = "evict"
  BY IdTypes DEF Beginning, Sound, Evict
<1>2. /\ RegionFrames(m, r) # {}
      /\ \A p \in Pages : p \in RegionFrames(m, r) => m.state[p] = "GPUResident"
  BY BeginningRegion
<1>3. PICK k : WrittenBack(m, k, r) /\ Transferred(k, n, Evict(r))
  BY <1>1, <1>2, StartWriteBackEffect
<1>. HIDE DEF n
<1>4. Sound(k, None, 0) /\ Resting(k, Evict(r))
  BY <1>3, WrittenBackSound
<1>5. Sound(n, None, 0) /\ n.state = k.state
  BY <1>1, <1>3, <1>4, TransferredSound
<1>. QED BY <1>2, <1>3, <1>5 DEF WrittenBack, n

-----------------------------------------------------------------------------
(* The end of an admission.                                                *)

(* The pages of the only admission, that of transaction s, are in place.   *)
Placed(m, s) ==
  /\ Served(m) /\ Sound(m, None, 0) /\ Resting(m, Admit(s))
  /\ \A p \in m.migrations[Admit(s)].pages : m.state[p] = "GPUResident"

(* There is no other admission. *)
LEMMA OnlyAdmission ==
  ASSUME NEW m, Served(m), NEW s \in Regions, Live(m, Admit(s))
  PROVE  /\ m.faults[s] = "Migrating"
         /\ \A a \in Regions : a # s => ~Live(m, Admit(a)) /\ m.migrations[Admit(a)].pages = {}
<1>1. m \in Managers /\ Slot(m)
  BY DEF Served
<1>2. \A a \in Regions : Live(m, Admit(a)) => m.faults[a] = "Migrating" /\ m.active = a
  BY <1>1 DEF Slot, Live
<1>. QED BY <1>1, <1>2, IdsUsed, IdTypes

LEMMA RestingLive ==
  ASSUME NEW m, NEW id, Resting(m, id)
  PROVE  Live(m, id)
<1>1. NoMigration.pages = {} /\ NoMigration.faults = {}
  BY DEF NoMigration
<1>. QED BY <1>1 DEF Resting, Live

LEMMA FinishAdmissionSound ==
  ASSUME NEW m, NEW s \in Regions, Placed(m, s)
  PROVE  LET n == FinishAdmission(m, Admit(s)) IN Sound(n, None, 0) /\ n.state = m.state
<1>. DEFINE id == Admit(s)
            n  == FinishAdmission(m, id)
<1>1. m \in Managers /\ id \in MigrationIds /\ Live(m, id)
  BY RestingLive, IdTypes DEF Placed, Served
<1>2. PICK y : Closed(m, y, id) /\ n = FinishFaults(y, m.migrations[id].faults)
  BY <1>1, FinishAdmissionEffect
<1>3. Closing(y, s) /\ m.migrations[id].faults = {s}
  BY <1>1, <1>2, ClosedClosing DEF Placed, Live
<1>4. /\ y.then = m.then /\ y.controlOps = m.controlOps
      /\ y.state = m.state /\ y.frame = m.frame /\ y.remote = m.remote /\ y.pte = m.pte
      /\ y.evicting = m.evicting /\ y.lru = m.lru
      /\ y.faults = m.faults /\ y.deferred = m.deferred /\ y \in Managers
      /\ \A i \in MigrationIds : Ended(y, i) <=> Ended(m, i)
      /\ \A i : Asking(y, i) <=> Asking(m, i)
  BY <1>2 DEF Closed, SameQueue, SameData, Ended, Asking
<1>5. /\ ~Live(y, id) /\ y.migrations[id].dma = {} /\ y.migrations[id].pages = {}
      /\ \A i \in MigrationIds : i # id => /\ y.migrations[i] = m.migrations[i]
                                           /\ Live(y, i) <=> Live(m, i)
  <2>1. NoMigration.dma = {} /\ NoMigration.pages = {}
    BY DEF NoMigration
  <2>. QED BY <1>2, <2>1 DEF Closed, Live
<1>6. \A r \in Regions : /\ y.phase[r] = "Evicting" <=> m.phase[r] = "Evicting"
                         /\ m.phase[r] = "FaultHandling" => y.phase[r] = "FaultHandling"
  BY <1>2 DEF Closed
<1>7. \A r \in Regions : /\ Admit(r) \in MigrationIds /\ Evict(r) \in MigrationIds
                         /\ Evict(r) # id /\ (r # s => Admit(r) # id)
  BY IdTypes
<1>8. \A p \in Pages : RegionOf(p) \in Regions
  BY RegionType
<1>. HIDE DEF id, n
<1>9. Steps(y)
  <2>1. \A op \in m.controlOps : op.for \in MigrationIds /\ op.for # id
    BY <1>1, IdsUsed DEF Placed, Resting, Asking, id
  <2>2. \A op \in m.controlOps : m.migrations[op.for].dma = {} /\ ~Ended(m, op.for)
    BY DEF Placed, Sound, Steps
  <2>3. \A op \in y.controlOps : y.migrations[op.for].dma = {} /\ ~Ended(y, op.for)
    BY <1>4, <1>5, <2>1, <2>2
  <2>4. \A i \in MigrationIds : /\ Ended(y, i) => Live(y, i) /\ y.migrations[i].dma = {}
                                /\ y.migrations[i].dma \subseteq y.migrations[i].pages
    <3>1. ~Ended(m, id)
      BY DEF Placed, Resting, id
    <3>. QED BY <1>4, <1>5, <3>1 DEF Placed, Sound, Steps
  <2>5. \A op \in y.controlOps, r \in Regions :
          /\ op.for = Evict(r) => op.region = r /\ ~Live(y, Evict(r))
          /\ op.for = Admit(r) => Live(y, Admit(r))
    BY <1>4, <1>5, <1>7, <2>1 DEF Placed, Sound, Steps
  <2>. QED BY <1>4, <2>3, <2>4, <2>5 DEF Placed, Sound, Steps
<1>10. Coming(y)
  <2>1. \A a \in Regions : y.migrations[Admit(a)].pages = {}
    BY <1>1, <1>5, <1>7, OnlyAdmission DEF Placed, id
  <2>2. \A p \in Pages : m.state[p] # "MigratingToGPU"
    <3>1. \A p \in Pages : m.state[p] = "MigratingToGPU" => p \in m.migrations[Admit(s)].pages
      BY <1>1, OnlyAdmission DEF Placed, Sound, Coming, id
    <3>. QED BY <3>1 DEF Placed
  <2>. QED BY <1>4, <2>1, <2>2 DEF Coming
<1>11. Going(y)
  BY <1>4, <1>5, <1>6, <1>7, <1>8 DEF Placed, Sound, Going
<1>12. Owning(y, None)
  BY <1>4, <1>5, <1>6, <1>7 DEF Placed, Sound, Owning
<1>13. Mapped(y) /\ Listed(y)
  BY <1>4, <1>6, <1>8 DEF Placed, Sound, Mapped, Listed
<1>14. Aiming(y)
  BY <1>4, <1>6 DEF Placed, Sound, Aiming
<1>15. Leaving(y) = Leaving(m)
  BY <1>4, <1>6, <1>8 DEF Leaving
<1>16. Sound(y, None, 0)
  BY <1>4, <1>9, <1>10, <1>11, <1>12, <1>13, <1>14, <1>15 DEF Placed, Sound
<1>17. Sound(FinishFaults(y, {s}), None, 0) /\ FinishFaults(y, {s}).state = y.state
  BY <1>3, <1>16, FinishFaultsSound
<1>. QED BY <1>2, <1>3, <1>4, <1>17 DEF n, id

LEMMA InvalidateNextSound ==
  ASSUME NEW m, NEW s \in Regions, Placed(m, s)
  PROVE  LET n == InvalidateNext(m, Admit(s)) IN Sound(n, None, 0) /\ n.state = m.state
<1>. DEFINE n == InvalidateNext(m, Admit(s))
<1>1. m \in Managers /\ Admit(s) \in MigrationIds /\ Admit(s)[1] = "admit"
  BY IdTypes DEF Placed, Served, Admit
<1>2. n = FinishAdmission(m, Admit(s)) \/ Asked(m, n, Admit(s), "TLBInvalidate")
  BY <1>1, InvalidateNextEffect
<1>3. CASE n = FinishAdmission(m, Admit(s))
  BY <1>3, FinishAdmissionSound
<1>. HIDE DEF n
<1>4. CASE Asked(m, n, Admit(s), "TLBInvalidate")
  <2>1. Sound(n, None, 0) /\ n.state = m.state
    BY <1>1, <1>4, AskedSound DEF Placed
  <2>. QED BY <2>1 DEF n
<1>. QED BY <1>2, <1>3, <1>4

(* The transfer of an admission has ended, and the admission is in hand. *)
Landing(m, s) ==
  /\ Served(m) /\ Sound(m, None, 0) /\ Resting(m, Admit(s))
  /\ \A p \in m.migrations[Admit(s)].pages : m.state[p] = "MigratingToGPU"

LEMMA ArrivedSound ==
  ASSUME NEW m, NEW s \in Regions, Landing(m, s), NEW n, Arrived(m, n, Admit(s))
  PROVE  Placed(n, s)
<1>. DEFINE id  == Admit(s)
            new == m.migrations[id].pages
<1>1. m \in Managers /\ id \in MigrationIds /\ Live(m, id) /\ n \in Managers
  BY RestingLive, IdTypes DEF Landing, Served, Arrived
<1>2. /\ \A p \in new : m.state[p] = "MigratingToGPU" /\ m.phase[RegionOf(p)] = "MigratingToGPU"
      /\ new \subseteq Pages
  BY <1>1, IdsUsed DEF Landing, Sound, Coming
<1>3. /\ n.then = m.then /\ n.controlOps = m.controlOps /\ n.phase = m.phase
      /\ n.frame = m.frame /\ n.evicting = m.evicting
      /\ n.faults = m.faults /\ n.deferred = m.deferred
      /\ \A i \in MigrationIds : Ended(n, i) <=> Ended(m, i)
      /\ \A i : Asking(n, i) <=> Asking(m, i)
  BY DEF Arrived, SameQueue, Ended, Asking
<1>4. /\ \A i \in MigrationIds : i # id => n.migrations[i] = m.migrations[i]
      /\ n.migrations[id].pages = new /\ n.migrations[id].faults = m.migrations[id].faults
      /\ n.migrations[id].dma = m.migrations[id].dma
  BY DEF Arrived
<1>5. \A i \in MigrationIds : /\ Live(n, i) <=> Live(m, i)
                              /\ n.migrations[i].pages = m.migrations[i].pages
                              /\ n.migrations[i].dma = m.migrations[i].dma
  <2>1. NoMigration.pages = {} /\ NoMigration.faults = {}
    BY DEF NoMigration
  <2>2. Live(n, id)
    BY <1>4, <2>1 DEF Landing, Resting, Live
  <2>. QED BY <1>1, <1>4, <2>2 DEF Live
<1>6. \A p \in Pages : IF p \in new
                       THEN n.state[p] = "GPUResident" /\ n.pte[p] = "Local"
                       ELSE /\ n.state[p] = m.state[p] /\ n.pte[p] = m.pte[p]
                            /\ m.remote[p] => n.remote[p]
  BY DEF Arrived
<1>7. Elements(n.lru) = Elements(m.lru) \cup RegionsOfPages(new)
  BY DEF Arrived
<1>8. /\ \A r \in Regions : Admit(r) \in MigrationIds /\ Evict(r) \in MigrationIds
      /\ \A p \in Pages : RegionOf(p) \in Regions
      /\ \A p \in new : RegionOf(p) \in RegionsOfPages(new)
  BY IdTypes, RegionType DEF RegionsOfPages
<1>9. \A a \in Regions : a # s => m.migrations[Admit(a)].pages = {}
  BY <1>1, OnlyAdmission DEF Landing
<1>10. Resting(n, id)
  BY <1>1, <1>3, <1>4 DEF Landing, Resting
<1>. HIDE DEF new
<1>11. Steps(n)
  <2>1. \A op \in m.controlOps : op.for \in MigrationIds
    BY <1>1, IdsUsed
  <2>2. \A op \in m.controlOps : m.migrations[op.for].dma = {} /\ ~Ended(m, op.for)
    BY DEF Landing, Sound, Steps
  <2>3. \A op \in n.controlOps : n.migrations[op.for].dma = {} /\ ~Ended(n, op.for)
    BY <1>3, <1>5, <2>1, <2>2
  <2>4. \A i \in MigrationIds : /\ Ended(n, i) => Live(n, i) /\ n.migrations[i].dma = {}
                                /\ n.migrations[i].dma \subseteq n.migrations[i].pages
    BY <1>3, <1>5 DEF Landing, Sound, Steps
  <2>5. \A op \in n.controlOps, r \in Regions :
          /\ op.for = Evict(r) => op.region = r /\ ~Live(n, Evict(r))
          /\ op.for = Admit(r) => Live(n, Admit(r))
    BY <1>3, <1>5, <1>8 DEF Landing, Sound, Steps
  <2>. QED BY <1>3, <2>3, <2>4, <2>5 DEF Landing, Sound, Steps
<1>12. Coming(n)
  <2>1. \A p \in Pages : n.state[p] # "MigratingToGPU"
    <3>1. \A p \in Pages : m.state[p] = "MigratingToGPU" => p \in new
      BY <1>9 DEF Landing, Sound, Coming, new
    <3>. QED BY <1>6, <3>1
  <2>2. \A a \in Regions : \A p \in n.migrations[Admit(a)].pages :
          a = s /\ p \in new /\ n.phase[RegionOf(p)] = "MigratingToGPU"
                /\ n.state[p] = "GPUResident"
    BY <1>2, <1>3, <1>5, <1>6, <1>8, <1>9 DEF new
  <2>3. ~Fetching(n, id)
    BY <1>10 DEF Resting, Fetching, Asking
  <2>. QED BY <2>1, <2>2, <2>3 DEF Coming
<1>13. Going(n)
  <2>1. \A p \in new : ~Live(m, Evict(RegionOf(p)))
    <3>1. \A p \in new : p \in Pages /\ RegionOf(p) \in Regions /\ RegionOf(p) # None
      BY <1>2, <1>8, IdTypes
    <3>. QED BY <1>2, <3>1 DEF Landing, Sound, Owning
  <2>2. \A p \in Pages : n.state[p] = "GPUResident" => ~Live(n, Evict(RegionOf(p)))
    BY <1>5, <1>6, <1>8, <2>1 DEF Landing, Sound, Going
  <2>3. \A p \in Pages : n.state[p] = "MigratingToCPU" => p \in n.migrations[Evict(RegionOf(p))].pages
    BY <1>5, <1>6, <1>8 DEF Landing, Sound, Going
  <2>4. \A r \in Regions : \A p \in PagesOf(r) :
          m.state[p] \in {"GPUResident", "MigratingToCPU"} => n.state[p] = m.state[p]
    BY <1>2, <1>6 DEF PagesOf
  <2>5. \A r \in Regions : n.phase[r] = "Evicting" =>
          \E p \in PagesOf(r) : n.state[p] \in {"GPUResident", "MigratingToCPU"}
    BY <1>3, <2>4 DEF Landing, Sound, Going
  <2>. QED BY <2>2, <2>3, <2>5 DEF Going
<1>14. Owning(n, None)
  <2>1. \A r \in Regions : \A p \in m.migrations[Evict(r)].pages :
          p \in Pages /\ RegionOf(p) = r /\ m.state[p] = "MigratingToCPU"
    BY <1>1, <1>8, IdsUsed, IdTypes DEF Landing, Sound, Owning
  <2>2. \A r \in Regions : \A p \in m.migrations[Evict(r)].pages :
          RegionOf(p) = r /\ n.state[p] = "MigratingToCPU"
    BY <1>2, <1>6, <2>1
  <2>. QED BY <1>3, <1>5, <1>8, <2>2 DEF Landing, Sound, Owning
<1>15. Mapped(n)
  <2>1. \A p \in new : p \in Pages /\ m.frame[p]
    BY <1>2 DEF Landing, Sound, Mapped
  <2>2. ASSUME NEW p \in Pages
        PROVE  /\ n.pte[p] = "Local" => n.state[p] = "GPUResident"
               /\ n.pte[p] = "Remote" => n.state[p] = "CPUResident" /\ n.remote[p]
               /\ n.state[p] # "CPUResident" => n.frame[p]
               /\ n.state[p] = "CPUResident" => ~n.frame[p] /\ n.pte[p] # "Migrating"
               /\ n.phase[RegionOf(p)] = "Evicting" /\ n.state[p] = "GPUResident" =>
                    n.pte[p] = "Migrating"
    <3>1. CASE p \in new
      BY <1>2, <1>3, <1>6, <2>1, <3>1
    <3>2. CASE p \notin new
      BY <1>3, <1>6, <3>2 DEF Landing, Sound, Mapped
    <3>. QED BY <3>1, <3>2
  <2>. QED BY <2>2 DEF Mapped
<1>16. Listed(n)
  BY <1>3, <1>6, <1>7, <1>8 DEF Landing, Sound, Listed
<1>17. Aiming(n)
  BY <1>3 DEF Landing, Sound, Aiming
<1>18. Leaving(n) = Leaving(m)
  BY <1>3 DEF Leaving
<1>19. Sound(n, None, 0)
  BY <1>1, <1>3, <1>11, <1>12, <1>13, <1>14, <1>15, <1>16, <1>17, <1>18 DEF Landing, Sound
<1>20. Served(n)
  <2>1. \A i \in MigrationIds : n.migrations[i].faults = m.migrations[i].faults
    BY <1>4
  <2>2. \A r \in Regions : n.migrations[Admit(r)] # NoMigration =>
                             m.migrations[Admit(r)] # NoMigration
    BY <1>5, <1>8 DEF Live
  <2>. QED BY <1>1, <1>3, <2>1, <2>2, ServedKept DEF Landing, Arrived
<1>. QED BY <1>2, <1>4, <1>6, <1>10, <1>19, <1>20 DEF Placed

LEMMA CompleteAdmissionSound ==
  ASSUME NEW m, NEW s \in Regions, Landing(m, s)
  PROVE  LET n == CompleteAdmission(m, Admit(s))
         IN  /\ Sound(n, None, 0)
             /\ \A p \in Pages : \/ n.state[p] = m.state[p]
                                 \/ m.state[p] = "MigratingToGPU" /\ n.state[p] = "GPUResident"
<1>. DEFINE n == CompleteAdmission(m, Admit(s))
<1>1. m \in Managers /\ Admit(s) \in MigrationIds /\ m.migrations[Admit(s)] # NoMigration
  BY RestingLive, IdTypes DEF Landing, Served, Live
<1>2. PICK l : Arrived(m, l, Admit(s)) /\ n = InvalidateNext(l, Admit(s))
  BY <1>1, CompleteAdmissionEffect
<1>. HIDE DEF n
<1>3. Sound(n, None, 0) /\ n.state = l.state
  BY <1>2, ArrivedSound, InvalidateNextSound
<1>. QED BY <1>2, <1>3 DEF Arrived, Landing, n

-----------------------------------------------------------------------------
(* The entry points.                                                       *)

(* A step keeps the invariant and takes each page one stage on at most. *)
Along(m, n) ==
  \A p \in Pages :
    \/ n.state[p] = m.state[p]
    \/ m.state[p] = "CPUResident" /\ n.state[p] = "MigratingToGPU"
    \/ m.state[p] = "MigratingToGPU" /\ n.state[p] = "GPUResident"
    \/ m.state[p] = "GPUResident" /\ n.state[p] = "MigratingToCPU"
    \/ m.state[p] = "MigratingToCPU" /\ n.state[p] = "CPUResident"

Stage(m, n) == Sound(n, None, 0) /\ Along(m, n)

LEMMA HandledSound ==
  ASSUME NEW m, NEW r \in Regions, Served(m), Sound(m, None, 0),
         m.active = r, m.faults[r] = "Pending", m.phase[r] # "Evicting",
         NEW k, Handled(m, k, r)
  PROVE  Sound(k, None, 0) /\ k.state = m.state
<1>1. m \in Managers /\ Slot(m)
  BY DEF Served
<1>2. \A s \in Regions : m.faults[s] \notin {"Handling", "Migrating"}
  BY <1>1 DEF Slot
<1>3. \A a \in Regions : ~Live(m, Admit(a))
  BY <1>1, <1>2 DEF Slot, Live
<1>4. \A s \in Regions : k.faults[s] = "Handling" => k.phase[s] = "FaultHandling"
  BY <1>2 DEF Handled
<1>5. \A s \in Regions : k.phase[s] = "Evicting" <=> m.phase[s] = "Evicting"
  BY DEF Handled
<1>6. Calm(m, k)
  BY <1>3, <1>4, <1>5 DEF Handled, KeepsFrames, Calm
<1>. QED BY <1>6, CalmSound DEF Handled, SameData

LEMMA ServiceFaultSound ==
  ASSUME NoOverlap, NEW m, NEW r \in Regions, Serving(m, r), Sound(m, None, 0)
  PROVE  LET n == ServiceFault(m, r) IN Sound(n, None, 0) /\ Brought(m, n, Pages)
<1>. DEFINE n == ServiceFault(m, r)
<1>1. CASE n = FinishFaults(m, {r})
  <2>1. Sound(n, None, 0) /\ n.state = m.state
    BY <1>1, ServingClosing, FinishFaultsSound
  <2>. QED BY <2>1 DEF Brought
<1>2. ASSUME NEW sel \in SUBSET Pages, PrefetchDisabled => sel \subseteq PagesOf(r),
             n = WithCapacity(m, r, sel)
      PROVE  Sound(n, None, 0) /\ Brought(m, n, Pages)
  <2>1. Sound(n, None, 0) /\ Brought(m, n, sel)
    BY <1>2, WithCapacitySound
  <2>. QED BY <2>1 DEF Brought
<1>. QED BY <1>1, <1>2, ServiceFaultEffect

LEMMA FaultReadySound ==
  ASSUME NoOverlap, Safe(uvm), Served(uvm), Sound(uvm, None, 0),
         NEW r \in Regions, FaultReady(r)
  PROVE  Stage(uvm, uvm')
<1>1. uvm \in Managers /\ Slot(uvm)
  BY DEF Served
<1>2. PICK n : /\ SameButEvents(uvm, n)
               /\ n.events = uvm.events \ {<<"FaultReady", r>>}
               /\ \/ uvm' = n
                  \/ /\ uvm.faults[r] = "Pending" /\ uvm.phase[r] = "Evicting"
                     /\ uvm' = ParkFault(n, r)
                  \/ /\ uvm.faults[r] = "Pending" /\ uvm.phase[r] # "Evicting"
                     /\ \E k : Handled(n, k, r) /\ uvm' = ServiceFault(k, r)
  BY <1>1, FaultReadyEffect
<1>3. uvm.active = r /\ uvm.faults[r] = "Pending"
  BY <1>1 DEF Slot, FaultReady
<1>4. Sound(n, None, 0) /\ n.state = uvm.state
  BY <1>2, EventTakenSound
<1>5. /\ n.active = r /\ n.faults[r] = "Pending" /\ n.phase = uvm.phase
      /\ <<"FaultReady", r>> \notin n.events
  BY <1>2, <1>3 DEF SameButEvents
<1>6. Safe(n) /\ Served(n)
  <2>1. n \in Managers /\ Safe(n)
    BY <1>2, KeepsFramesSafe DEF SameButEvents, KeepsFrames
  <2>2. Slot(n)
    BY <1>1, <1>2 DEF Slot, SameButEvents
  <2>3. Queued(n)
    BY <1>2 DEF Served, Queued, SameButEvents
  <2>. QED BY <2>1, <2>2, <2>3 DEF Served
<1>7. CASE uvm' = n
  BY <1>4, <1>7 DEF Stage, Along
<1>8. CASE uvm.phase[r] = "Evicting" /\ uvm' = ParkFault(n, r)
  <2>1. Sound(ParkFault(n, r), None, 0) /\ ParkFault(n, r).state = n.state
    BY <1>4, <1>5, <1>6, <1>8, ParkFaultSound
  <2>. QED BY <1>4, <1>8, <2>1 DEF Stage, Along
<1>9. ASSUME uvm.phase[r] # "Evicting", NEW k, Handled(n, k, r), uvm' = ServiceFault(k, r)
      PROVE  Stage(uvm, uvm')
  <2>1. Sound(k, None, 0) /\ k.state = n.state
    BY <1>4, <1>5, <1>6, <1>9, HandledSound
  <2>2. Serving(k, r)
    <3>1. Safe(k)
      BY <1>6, <1>9, KeepsFramesSafe DEF Handled
    <3>. QED BY <1>5, <1>6, <1>9, <3>1, HandledServing
  <2>3. Sound(ServiceFault(k, r), None, 0) /\ Brought(k, ServiceFault(k, r), Pages)
    BY <2>1, <2>2, ServiceFaultSound
  <2>. QED BY <1>4, <1>9, <2>1, <2>3 DEF Stage, Along, Brought
<1>. QED BY <1>2, <1>7, <1>8, <1>9

LEMMA FaultStepsSound ==
  ASSUME Safe(uvm), Served(uvm), Sound(uvm, None, 0)
  PROVE  /\ \A p \in Pages, isWrite \in BOOLEAN : PageFault(p, isWrite) => Stage(uvm, uvm')
         /\ \A r \in Regions : AccessCounterNotify(r) => Stage(uvm, uvm')
         /\ SendControl \/ SendReset => Stage(uvm, uvm')
         /\ uvm' = uvm => Stage(uvm, uvm')
<1>1. uvm \in Managers
  BY DEF Safe
<1>2. ASSUME Quiet(uvm, uvm')
      PROVE  Stage(uvm, uvm')
  <2>1. uvm'.state = uvm.state
    BY <1>2 DEF Quiet, SameData
  <2>. QED BY <1>2, <2>1, QuietSound DEF Stage, Along
<1>3. ASSUME NEW r \in Regions, uvm.faults[r] = "None", uvm' = OpenFault(uvm, r)
      PROVE  Stage(uvm, uvm')
  <2>1. Sound(OpenFault(uvm, r), None, 0) /\ OpenFault(uvm, r).state = uvm.state
    BY <1>3, OpenFaultSound
  <2>. QED BY <1>3, <2>1 DEF Stage, Along
<1>4. ASSUME NEW p \in Pages, NEW isWrite \in BOOLEAN, PageFault(p, isWrite)
      PROVE  Stage(uvm, uvm')
  BY <1>1, <1>2, <1>3, <1>4, PageFaultEffect, RegionType
<1>5. ASSUME uvm' = uvm
      PROVE  Stage(uvm, uvm')
  BY <1>5 DEF Stage, Along
<1>6. ASSUME NEW r \in Regions, AccessCounterNotify(r)
      PROVE  Stage(uvm, uvm')
  BY <1>1, <1>3, <1>5, <1>6, NotifyEffect
<1>7. ASSUME SendControl \/ SendReset
      PROVE  Stage(uvm, uvm')
  BY <1>1, <1>2, <1>7, SendEffect
<1>. QED BY <1>4, <1>5, <1>6, <1>7

LEMMA RemoteMapSound ==
  ASSUME Sound(uvm, None, 0), NEW r \in Regions, RemoteMapComplete(r)
  PROVE  Stage(uvm, uvm')
<1>. DEFINE n == uvm'
<1>1. uvm \in Managers
  BY DEF Sound
<1>2. /\ Unseen(uvm, n)
      /\ \A p \in Pages :
           \/ n.pte[p] = uvm.pte[p] /\ (uvm.remote[p] => n.remote[p])
           \/ uvm.state[p] = "CPUResident" /\ n.pte[p] = "Remote" /\ n.remote[p]
  BY <1>1, RemoteMapEffect
<1>3. /\ n.migrations = uvm.migrations /\ n.controlOps = uvm.controlOps /\ n.then = uvm.then
      /\ n.state = uvm.state /\ n.frame = uvm.frame
      /\ n.evicting = uvm.evicting /\ n.lru = uvm.lru /\ n.phase = uvm.phase
      /\ n.faults = uvm.faults /\ n.deferred = uvm.deferred /\ n \in Managers
      /\ \A id \in MigrationIds : Ended(n, id) <=> Ended(uvm, id)
      /\ \A id : Live(n, id) <=> Live(uvm, id)
      /\ \A id : Asking(n, id) <=> Asking(uvm, id)
  BY <1>2 DEF Unseen, KeepsFrames, SameQueue, SameWork, Ended, Live, Asking
<1>. HIDE DEF n
<1>4. Steps(n)
  <2>1. \A op \in uvm.controlOps : op.for \in MigrationIds
    BY <1>1, IdsUsed
  <2>. QED BY <1>3, <2>1 DEF Sound, Steps
<1>5. Coming(n)
  <2>1. \A s \in Regions : Fetching(n, Admit(s)) <=> Fetching(uvm, Admit(s))
    BY <1>3, IdTypes DEF Fetching
  <2>. QED BY <1>3, <2>1 DEF Sound, Coming
<1>6. Going(n) /\ Owning(n, None)
  BY <1>3 DEF Sound, Going, Owning
<1>7. Mapped(n)
  BY <1>2, <1>3 DEF Sound, Mapped
<1>8. Listed(n) /\ Aiming(n) /\ Leaving(n) = Leaving(uvm)
  BY <1>3 DEF Sound, Listed, Aiming, Leaving
<1>9. Sound(n, None, 0)
  BY <1>3, <1>4, <1>5, <1>6, <1>7, <1>8 DEF Sound
<1>. QED BY <1>3, <1>9 DEF Stage, Along, n

LEMMA DMADoneSound ==
  ASSUME Sound(uvm, None, 0), NEW id \in MigrationIds, NEW p \in Pages, DMADone(id, p)
  PROVE  Stage(uvm, uvm')
<1>. DEFINE n == uvm'
<1>1. uvm \in Managers /\ Moved(uvm, n, id)
  BY DMADoneEffect DEF Sound
<1>. HIDE DEF n
<1>2. /\ SameMigration(uvm, n, id) /\ n.controlOps = uvm.controlOps
      /\ uvm.migrations[id].dma # {} /\ n.migrations[id].dma \subseteq uvm.migrations[id].dma
      /\ \A i \in MigrationIds :
           Ended(n, i) <=> Ended(uvm, i) \/ (i = id /\ n.migrations[id].dma = {})
  BY <1>1 DEF Moved, Ended
<1>3. /\ uvm.migrations[id].pages # {} /\ ~Ended(uvm, id)
      /\ \A op \in uvm.controlOps : op.for \in MigrationIds /\ op.for # id
  BY <1>1, <1>2, IdsUsed DEF Sound, Steps
<1>4. /\ \A i \in MigrationIds : Live(n, i) <=> Live(uvm, i)
      /\ Live(n, id) /\ Live(uvm, id)
  BY <1>2, <1>3, OpenIsLive
<1>5. /\ \A i \in MigrationIds : i # id => n.migrations[i] = uvm.migrations[i]
      /\ n.migrations[id].pages = uvm.migrations[id].pages
      /\ n.phase = uvm.phase /\ n.state = uvm.state
  BY <1>2 DEF SameMigration, SameData
<1>6. Steps(n)
  <2>1. \A op \in uvm.controlOps : uvm.migrations[op.for].dma = {} /\ ~Ended(uvm, op.for)
    BY DEF Sound, Steps
  <2>2. \A op \in n.controlOps : n.migrations[op.for].dma = {} /\ ~Ended(n, op.for)
    BY <1>2, <1>3, <1>5, <2>1
  <2>3. \A i \in MigrationIds : Ended(n, i) => Live(n, i) /\ n.migrations[i].dma = {}
    BY <1>2, <1>3, <1>4, <1>5 DEF Sound, Steps
  <2>4. \A i \in MigrationIds : n.migrations[i].dma \subseteq n.migrations[i].pages
    BY <1>2, <1>5 DEF Sound, Steps
  <2>5. \A op \in n.controlOps, r \in Regions :
          /\ op.for = Evict(r) => op.region = r /\ ~Live(n, Evict(r))
          /\ op.for = Admit(r) => Live(n, Admit(r))
    BY <1>2, <1>4, IdTypes DEF Sound, Steps
  <2>. QED BY <1>2, <2>2, <2>3, <2>4, <2>5 DEF Sound, Steps
<1>7. Coming(n)
  <2>1. \A s \in Regions : /\ Fetching(n, Admit(s)) => Fetching(uvm, Admit(s))
                           /\ n.migrations[Admit(s)].pages = uvm.migrations[Admit(s)].pages
    BY <1>2, <1>5, IdTypes DEF Fetching
  <2>. QED BY <1>2, <1>5, <2>1 DEF Sound, Coming
<1>8. \A r \in Regions : Asking(n, Evict(r)) <=> Asking(uvm, Evict(r))
  BY <1>2 DEF Asking
<1>9. Sound(n, None, 0) /\ n.state = uvm.state
  BY <1>2, <1>3, <1>6, <1>7, <1>8, CarriedSound
<1>. QED BY <1>9 DEF Stage, Along, n

LEMMA MigrationCompleteSound ==
  ASSUME NoOverlap, Safe(uvm), Served(uvm), Sound(uvm, None, 0),
         NEW id \in MigrationIds, MigrationComplete(id)
  PROVE  Stage(uvm, uvm')
<1>1. uvm \in Managers /\ Slot(uvm)
  BY DEF Served
<1>2. PICK n : /\ SameButEvents(uvm, n)
               /\ n.events = uvm.events \ {<<"MigrationComplete", id>>}
               /\ <<"MigrationComplete", id>> \in uvm.events
               /\ \/ uvm.migrations[id] = NoMigration /\ uvm' = n
                  \/ /\ uvm.migrations[id] # NoMigration /\ id[1] = "admit"
                     /\ uvm' = CompleteAdmission(n, id)
                  \/ /\ uvm.migrations[id] # NoMigration /\ id[1] # "admit"
                     /\ uvm' = CompleteWriteBack(n, id[2])
  BY <1>1, MigrationCompleteEffect
<1>3. Sound(n, None, 0) /\ n.state = uvm.state
  BY <1>2, EventTakenSound
<1>4. /\ n.migrations = uvm.migrations /\ n.controlOps = uvm.controlOps
      /\ ~Ended(n, id) /\ Ended(uvm, id)
  BY <1>2 DEF SameButEvents, Ended
<1>5. /\ ~Asking(n, id) /\ n.migrations[id].dma = {} /\ Live(n, id)
  BY <1>4 DEF Sound, Steps, Asking, Live
<1>6. Safe(n) /\ Served(n)
  <2>1. n \in Managers /\ Safe(n)
    BY <1>2, KeepsFramesSafe DEF SameButEvents, KeepsFrames
  <2>2. SameQueue(uvm, n)
    BY <1>2 DEF SameButEvents, SameQueue
  <2>3. n.then = uvm.then
    BY <1>2 DEF SameButEvents
  <2>. QED BY <1>4, <2>1, <2>2, <2>3, ServedKept
<1>7. CASE id[1] = "admit" /\ uvm' = CompleteAdmission(n, id)
  <2>1. PICK s \in Regions : id = Admit(s)
    BY <1>7, IdTypes
  <2>2. n.migrations[id].faults = {s}
    BY <1>4, <1>5, <1>1, <2>1 DEF Slot, Live
  <2>3. \A p \in n.migrations[id].pages : n.state[p] = "MigratingToGPU"
    BY <1>3, <1>4, <2>1 DEF Sound, Coming, Fetching
  <2>4. Landing(n, s)
    BY <1>3, <1>4, <1>5, <1>6, <2>1, <2>2, <2>3 DEF Landing, Resting
  <2>5. LET d == CompleteAdmission(n, Admit(s))
        IN  /\ Sound(d, None, 0)
            /\ \A p \in Pages : \/ d.state[p] = n.state[p]
                                \/ n.state[p] = "MigratingToGPU" /\ d.state[p] = "GPUResident"
    BY <2>4, CompleteAdmissionSound
  <2>. QED BY <1>3, <1>7, <2>1, <2>5 DEF Stage, Along
<1>8. CASE id[1] # "admit" /\ uvm' = CompleteWriteBack(n, id[2])
  <2>1. id[2] \in Regions /\ id = Evict(id[2])
    BY <1>8, IdTypes
  <2>2. Ending(n, id[2])
    BY <1>3, <1>4, <1>5, <2>1 DEF Ending
  <2>3. LET d == CompleteWriteBack(n, id[2])
        IN  /\ Sound(d, None, 0)
            /\ \E k : Returned(n, k, id[2]) /\ Brought(k, d, Pages \ PagesOf(id[2]))
    BY <1>6, <2>1, <2>2, CompleteWriteBackSound
  <2>4. PICK k : Returned(n, k, id[2]) /\ Brought(k, uvm', Pages \ PagesOf(id[2]))
    BY <1>8, <2>3
  <2>5. Along(uvm, uvm')
    BY <1>3, <2>4 DEF Along, Returned, Brought
  <2>. QED BY <1>8, <2>3, <2>5 DEF Stage
<1>. QED BY <1>2, <1>4, <1>5, <1>7, <1>8 DEF Live

LEMMA ControlRspSound ==
  ASSUME Safe(uvm), Served(uvm), Sound(uvm, None, 0), NEW op \in ControlOps, ControlRsp(op)
  PROVE  Stage(uvm, uvm')
<1>1. uvm \in Managers /\ Slot(uvm)
  BY DEF Served
<1>2. op \in uvm.controlOps
  BY <1>1, ControlRspEffect
<1>3. PICK n : /\ Answered(uvm, n, op)
               /\ \/ /\ op.for[1] = "evict" /\ op.kind = "TLBInvalidate"
                     /\ Requested(n, uvm', "CacheRangeFlush", <<op.region>>, EvictOf)
                  \/ /\ op.for[1] = "evict" /\ op.kind = "CacheRangeFlush"
                     /\ uvm' = StartWriteBack(n, op.region)
                  \/ /\ op.for[1] = "admit" /\ op.kind = "RemoteDrain"
                     /\ uvm' = DrainNext(n, op.for)
                  \/ /\ op.for[1] = "admit" /\ op.kind = "TLBInvalidate"
                     /\ uvm' = InvalidateNext(n, op.for)
  BY <1>1, ControlRspEffect
<1>4. op.for \in MigrationIds
  BY <1>1, <1>2, IdsUsed
<1>5. CASE op.for[1] = "evict"
  <2>1. op.for[2] \in Regions /\ op.for = Evict(op.for[2])
    BY <1>4, <1>5, IdTypes
  <2>. DEFINE r == op.for[2]
  <2>2. Beginning(n, r) /\ op.region = r /\ n.state = uvm.state
    BY <1>2, <1>3, <2>1, AnsweredBeginning
  <2>. HIDE DEF r
  <2>3. CASE Requested(n, uvm', "CacheRangeFlush", <<op.region>>, EvictOf)
    <3>1. Sound(uvm', None, 0) /\ uvm'.state = n.state
      BY <2>1, <2>2, <2>3, FlushSound DEF r
    <3>. QED BY <2>2, <3>1 DEF Stage, Along
  <2>4. CASE uvm' = StartWriteBack(n, op.region)
    <3>1. LET d == StartWriteBack(n, r)
          IN  /\ Sound(d, None, 0)
              /\ \A p \in Pages : \/ d.state[p] = n.state[p]
                                  \/ n.state[p] = "GPUResident" /\ d.state[p] = "MigratingToCPU"
      BY <2>1, <2>2, StartWriteBackSound DEF r
    <3>. QED BY <2>2, <2>4, <3>1 DEF Stage, Along
  <2>. QED BY <1>3, <1>5, <2>3, <2>4
<1>6. CASE op.for[1] = "admit"
  <2>1. PICK s \in Regions : op.for = Admit(s)
    BY <1>4, <1>6, IdTypes
  <2>2. \A r \in Regions : op.for # Evict(r)
    BY <2>1, IdTypes
  <2>3. /\ Sound(n, None, 0) /\ n.state = uvm.state
        /\ ~Asking(n, op.for) /\ ~Ended(n, op.for) /\ n.migrations[op.for].dma = {}
    BY <1>2, <1>3, <2>2, AnsweredSound
  <2>4. n.migrations = uvm.migrations
    BY <1>3 DEF Answered
  <2>5. Live(uvm, Admit(s))
    BY <1>2, <2>1 DEF Sound, Steps
  <2>6. uvm.migrations[Admit(s)].faults = {s}
    BY <1>1, <2>5 DEF Slot, Live
  <2>7. Resting(n, Admit(s))
    BY <2>1, <2>3, <2>4, <2>6 DEF Resting
  <2>8. CASE op.kind = "RemoteDrain" /\ uvm' = DrainNext(n, op.for)
    <3>1. \A p \in n.migrations[Admit(s)].pages : n.state[p] = "MigratingToGPU"
      BY <1>2, <2>1, <2>3, <2>4, <2>8 DEF Sound, Coming, Fetching
    <3>2. Sound(DrainNext(n, op.for), None, 0) /\ DrainNext(n, op.for).state = n.state
      BY <1>4, <1>6, <2>1, <2>3, <2>7, <3>1, DrainNextSound
    <3>. QED BY <2>3, <2>8, <3>2 DEF Stage, Along
  <2>9. CASE op.kind = "TLBInvalidate" /\ uvm' = InvalidateNext(n, op.for)
    <3>1. \A p \in n.migrations[Admit(s)].pages : n.state[p] = "GPUResident"
      BY <1>2, <2>1, <2>3, <2>4, <2>9 DEF Sound, Coming
    <3>2. Served(n)
      BY <1>3, ServedKept DEF Answered, KeepsFrames
    <3>3. Placed(n, s)
      BY <2>3, <2>7, <3>1, <3>2 DEF Placed
    <3>4. LET d == InvalidateNext(n, Admit(s)) IN Sound(d, None, 0) /\ d.state = n.state
      BY <3>3, InvalidateNextSound
    <3>. QED BY <2>1, <2>3, <2>9, <3>4 DEF Stage, Along
  <2>. QED BY <1>3, <1>6, <2>8, <2>9
<1>. QED BY <1>3, <1>5, <1>6

LEMMA InitSound == Init => Sound(uvm, None, 0)
<1>. SUFFICES ASSUME Init
              PROVE  Sound(uvm, None, 0)
  OBVIOUS
<1>1. uvm \in Managers
  BY InitSafe DEF Safe
<1>2. /\ uvm.state = [p \in Pages |-> "CPUResident"]
      /\ uvm.frame = [p \in Pages |-> FALSE]
      /\ uvm.remote = [p \in Pages |-> Eager]
      /\ uvm.pte = [p \in Pages |-> IF Eager THEN "Remote" ELSE "Invalid"]
      /\ uvm.phase = [r \in Regions |-> "Idle"]
      /\ uvm.faults = [r \in Regions |-> "None"]
      /\ uvm.deferred = {} /\ uvm.evicting = 0
      /\ uvm.migrations = [i \in MigrationIds |-> NoMigration]
      /\ uvm.then = [r \in Regions |-> None]
      /\ uvm.events = {} /\ uvm.controlOps = {}
  BY DEF Init
<1>3. /\ \A id : ~Ended(uvm, id) /\ ~Asking(uvm, id)
      /\ \A id \in MigrationIds : ~Live(uvm, id)
      /\ \A id \in MigrationIds : uvm.migrations[id].pages = {} /\ uvm.migrations[id].dma = {}
  BY <1>2 DEF Ended, Asking, Live, NoMigration
<1>4. \A r \in Regions : Admit(r) \in MigrationIds /\ Evict(r) \in MigrationIds
  BY IdTypes
<1>5. \A p \in Pages : RegionOf(p) \in Regions
  BY RegionType
<1>6. Steps(uvm)
  BY <1>2, <1>3 DEF Steps
<1>7. Coming(uvm) /\ Going(uvm) /\ Owning(uvm, None)
  BY <1>2, <1>3, <1>4, <1>5 DEF Coming, Going, Owning
<1>8. Mapped(uvm) /\ Listed(uvm)
  BY <1>2, <1>5 DEF Mapped, Listed
<1>9. Aiming(uvm)
  BY <1>2 DEF Aiming
<1>10. Leaving(uvm) = {} /\ Cardinality({}) = 0
  BY <1>2, FS_EmptySet DEF Leaving
<1>. QED BY <1>1, <1>2, <1>6, <1>7, <1>8, <1>9, <1>10 DEF Sound

-----------------------------------------------------------------------------
(* The invariant of the evictions and the theorems.                        *)

Settled(m) == Safe(m) /\ Served(m) /\ Sound(m, None, 0)

LEMMA NextSettled ==
  ASSUME NoOverlap, Settled(uvm), [Next]_uvm
  PROVE  Settled(uvm') /\ Stage(uvm, uvm')
<1>1. Safe(uvm) /\ Served(uvm) /\ Sound(uvm, None, 0)
  BY DEF Settled
<1>2. CASE UNCHANGED uvm
  BY <1>1, <1>2, FaultStepsSound DEF Settled
<1>3. CASE Next
  <2>1. Safe(uvm')
    BY <1>1, <1>3, FaultStepsSafe, MigrationStepsSafe, ControlStepsSafe DEF Next
  <2>2. Served(uvm')
    BY <1>1, <1>3, FaultStepsServed, MigrationStepsServed, ControlStepsServed DEF Next
  <2>3. Stage(uvm, uvm')
    BY <1>1, <1>3, FaultStepsSound, FaultReadySound, RemoteMapSound, DMADoneSound,
       MigrationCompleteSound, ControlRspSound DEF Next
  <2>. QED BY <2>1, <2>2, <2>3 DEF Stage, Settled
<1>. QED BY <1>2, <1>3

LEMMA SettledAlways ==
  ASSUME NoOverlap
  PROVE  Spec => []Settled(uvm)
<1>1. Init => Settled(uvm)
  BY InitSafe, InitServed, InitSound DEF Settled
<1>2. Settled(uvm) /\ [Next]_uvm => Settled(uvm)'
  BY NextSettled
<1>. QED BY <1>1, <1>2, PTL DEF Spec

(* An eviction owns its region: as long as a region is EVICTING one step   *)
(* of its eviction, and only one, is still to come, be it an answer of the *)
(* control path or the end of its write-back, and only behind such a step  *)
(* is a fault parked (beginEviction, parkFaultLocked, finalizeEviction).   *)
THEOREM OneEviction ==
  ASSUME NoOverlap
  PROVE  Spec => []EvictionOwnsRegion
<1>1. Settled(uvm) => EvictionOwnsRegion
  <2>. SUFFICES ASSUME Sound(uvm, None, 0), NEW r \in Regions
                PROVE  /\ Cardinality(EvictionSteps(r)) = IF uvm.phase[r] = "Evicting" THEN 1 ELSE 0
                       /\ r \in uvm.deferred => uvm.phase[r] = "Evicting"
    BY DEF EvictionOwnsRegion, Settled
  <2>. DEFINE ops == {op \in uvm.controlOps : op.for = Evict(r)}
              mig == {i \in {Evict(r)} : uvm.migrations[i] # NoMigration}
  <2>1. /\ uvm.phase[r] = "Evicting" <=> Asking(uvm, Evict(r)) \/ Live(uvm, Evict(r))
        /\ r \in uvm.deferred => uvm.phase[r] = "Evicting"
    BY IdTypes DEF Sound, Owning
  <2>2. EvictionSteps(r) = ops \cup mig
    BY DEF EvictionSteps
  <2>3. CASE Asking(uvm, Evict(r))
    <3>1. PICK op \in uvm.controlOps : op.for = Evict(r)
      BY <2>3 DEF Asking
    <3>2. ops = {op}
      BY <3>1 DEF Sound, Steps
    <3>3. mig = {}
      BY <3>1 DEF Sound, Steps, Live
    <3>. QED BY <2>1, <2>2, <2>3, <3>2, <3>3, FS_Singleton
  <2>4. CASE ~Asking(uvm, Evict(r)) /\ Live(uvm, Evict(r))
    <3>1. ops = {}
      BY <2>4 DEF Asking
    <3>2. mig = {Evict(r)}
      BY <2>4 DEF Live
    <3>. QED BY <2>1, <2>2, <2>4, <3>1, <3>2, FS_Singleton
  <2>5. CASE ~Asking(uvm, Evict(r)) /\ ~Live(uvm, Evict(r))
    <3>1. ops = {} /\ mig = {}
      BY <2>5 DEF Asking, Live
    <3>. QED BY <2>1, <2>2, <2>5, <3>1, FS_EmptySet
  <2>. QED BY <2>1, <2>3, <2>4, <2>5
<1>. QED BY <1>1, SettledAlways, PTL

(* The frames counted as on their way to be free are those of the regions  *)
(* being evicted, no fewer and no more, although they are counted when an  *)
(* eviction begins and taken off the count when its pages are released     *)
(* (evictingFrames; beginEviction, releaseEvictedPages).                   *)
THEOREM EvictingFramesCounted ==
  ASSUME NoOverlap
  PROVE  Spec => []EvictingAccounted
<1>1. Settled(uvm) => EvictingAccounted
  <2>1. Cardinality(Leaving(uvm)) \in Nat
    BY PageSets DEF Leaving
  <2>. QED BY <2>1 DEF Settled, Sound, Leaving, EvictingAccounted
<1>. QED BY <1>1, SettledAlways, PTL

(* A region with data on the GPU is being evicted or is in the recency     *)
(* list, where the choice of victims finds it (markRegionMigratedLRU,      *)
(* selectLRUVictims).                                                      *)
THEOREM ResidentFound ==
  ASSUME NoOverlap
  PROVE  Spec => []ResidentIsEvictable
<1>1. Settled(uvm) => ResidentIsEvictable
  BY DEF Settled, Sound, Listed, ResidentIsEvictable, Resident
<1>. QED BY <1>1, SettledAlways, PTL

(* The mapping that the GPU walks names the place that holds the page:     *)
(* LOCAL only while its data is in GPU memory, REMOTE only while it is on  *)
(* the host, and nothing usable while it moves.                            *)
THEOREM MappingCorrect ==
  ASSUME NoOverlap
  PROVE  Spec => []MappingMatchesResidency
<1>1. Settled(uvm) => MappingMatchesResidency
  BY DEF Settled, Sound, Mapped, MappingMatchesResidency
<1>. QED BY <1>1, SettledAlways, PTL

(* Data that is on the GPU leaves it only by a write-back.                 *)
THEOREM WrittenBackFirst ==
  ASSUME NoOverlap
  PROVE  Spec => NoUnsavedRelease
<1>1. Settled(uvm) /\ [Next]_uvm =>
        [\A p \in Pages : uvm.state[p] = "GPUResident" =>
                            uvm'.state[p] \in {"GPUResident", "MigratingToCPU"}]_uvm
  BY NextSettled DEF Stage, Along
<1>. QED BY <1>1, SettledAlways, PTL DEF Spec, NoUnsavedRelease

-----------------------------------------------------------------------------
(* The manager implements the abstract specification of residency.         *)

StageOf(s) ==
  CASE s = "CPUResident"    -> "Host"
    [] s = "MigratingToGPU" -> "ToGPU"
    [] s = "GPUResident"    -> "GPU"
    [] s = "MigratingToCPU" -> "ToHost"

PlaceOf(m) == [p \in Pages |-> StageOf(m.state[p])]

LEMMA PlaceOfType ==
  ASSUME NEW m \in Managers, NEW p \in Pages
  PROVE  /\ PlaceOf(m)[p] = "Host"   <=> m.state[p] = "CPUResident"
         /\ PlaceOf(m)[p] = "ToGPU"  <=> m.state[p] = "MigratingToGPU"
         /\ PlaceOf(m)[p] = "GPU"    <=> m.state[p] = "GPUResident"
         /\ PlaceOf(m)[p] = "ToHost" <=> m.state[p] = "MigratingToCPU"
<1>1. m.state[p] \in {"CPUResident", "GPUResident", "MigratingToGPU", "MigratingToCPU"}
  BY DEF Managers
<1>. QED BY <1>1 DEF PlaceOf, StageOf

(* A page that is not on the host holds one frame. *)
LEMMA AwayHasFrame ==
  ASSUME NEW m, Safe(m), Sound(m, None, 0)
  PROVE  {p \in Pages : PlaceOf(m)[p] # "Host"} = Held(m)
<1>1. \A p \in Pages : m.frame[p] <=> m.state[p] # "CPUResident"
  BY DEF Sound, Mapped
<1>. QED BY <1>1, PlaceOfType DEF Held, Safe

LEMMA StageMoves ==
  ASSUME Settled(uvm), Settled(uvm'), Stage(uvm, uvm')
  PROVE  Abstract!Next
<1>. DEFINE m == uvm
            n == uvm'
            S == {p \in Pages : m.state[p] # n.state[p]}
<1>1. Place = PlaceOf(m) /\ Place' = PlaceOf(n)
  BY DEF Place, PlaceOf, StageOf
<1>2. m \in Managers /\ n \in Managers /\ Along(m, n)
  BY DEF Settled, Served, Stage
<1>3. PlaceOf(n) = [p \in Pages |-> IF p \in S THEN Abstract!Onward[PlaceOf(m)[p]]
                                             ELSE PlaceOf(m)[p]]
  <2>1. /\ Abstract!Onward["Host"] = "ToGPU" /\ Abstract!Onward["ToGPU"] = "GPU"
        /\ Abstract!Onward["GPU"] = "ToHost" /\ Abstract!Onward["ToHost"] = "Host"
    BY DEF Abstract!Onward
  <2>2. ASSUME NEW p \in S
        PROVE  PlaceOf(n)[p] = Abstract!Onward[PlaceOf(m)[p]]
    BY <1>2, <2>1, PlaceOfType DEF Along
  <2>3. \A p \in Pages : p \notin S => PlaceOf(n)[p] = PlaceOf(m)[p]
    BY DEF PlaceOf
  <2>4. PlaceOf(n) = [p \in Pages |-> PlaceOf(n)[p]]
    BY DEF PlaceOf
  <2>. HIDE DEF S
  <2>. QED BY <2>2, <2>3, <2>4
<1>4. Abstract!Cardinality(Abstract!Away(PlaceOf(n))) <= Capacity
  <2>1. Abstract!Away(PlaceOf(n)) = Held(n)
    BY AwayHasFrame DEF Abstract!Away, Settled
  <2>2. Abstract!Cardinality(Held(n)) = Cardinality(Held(n))
    BY DEF Abstract!Cardinality, Cardinality
  <2>. QED BY <2>1, <2>2 DEF Settled, Safe, Accounted
<1>5. S \in SUBSET Pages
  OBVIOUS
<1>. HIDE DEF S
<1>6. Abstract!Move(S)
  BY <1>1, <1>3, <1>4 DEF Abstract!Move
<1>. QED BY <1>5, <1>6 DEF Abstract!Next

(* Every run of the manager, with its fault queue, its control messages,   *)
(* its evictions and its transfers, is one of the abstract specification:  *)
(* each page goes round Host -> ToGPU -> GPU -> ToHost one stage at a      *)
(* time, and never more than Capacity pages are away from the host.        *)
THEOREM Implements ==
  ASSUME NoOverlap
  PROVE  Spec => ImplementsResidency
<1>1. Init => Abstract!Init
  BY DEF Init, Abstract!Init, Place
<1>2. Settled(uvm) /\ [Next]_uvm => [Abstract!Next]_Place
  BY NextSettled, StageMoves
<1>. QED BY <1>1, <1>2, SettledAlways, PTL DEF Spec, ImplementsResidency, Abstract!Spec
=============================================================================
