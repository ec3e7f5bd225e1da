-------------------------- MODULE UVMManagerProofs --------------------------
(***************************************************************************)
(* The frame budget, the fault service and the replays of the UVM manager  *)
(* for every value of the constants.                                       *)
(*                                                                         *)
(* The inductive invariants are predicates on a value of struct            *)
(* UVMManager: Safe(m) for the frames, Slot(m) and Queued(m) for the       *)
(* single slot of the fault service and its queue.  For each there is one  *)
(* lemma for each method, in the order in which the methods call each      *)
(* other: from a value that satisfies it and arguments of the right type   *)
(* the method returns one that does.  Each entry point then follows.  The  *)
(* last part relates the value before a method to the value after it:      *)
(* Says(m, n), for the replays that answer the transactions it closes.     *)
(***************************************************************************)
EXTENDS UVMManager, OrderedListsProofs

Held(m) == {p \in Pages : m.frame[p]}

Accounted(m) ==
  /\ m.inUse = Cardinality(Held(m))
  /\ m.inUse <= Capacity
  /\ m.inUse <= PhysFrames

Safe(m) == m \in Managers /\ Accounted(m)

(* What most methods do: they keep the types and leave the frames and the  *)
(* counter alone.                                                          *)
KeepsFrames(m, n) == n \in Managers /\ n.frame = m.frame /\ n.inUse = m.inUse

LEMMA KeepsFramesTwice ==
  ASSUME NEW m, NEW k, NEW n, KeepsFrames(m, k), KeepsFrames(k, n)
  PROVE  KeepsFrames(m, n)
BY DEF KeepsFrames

LEMMA KeepsFramesSafe ==
  ASSUME NEW m, NEW n, Safe(m), KeepsFrames(m, n)
  PROVE  Safe(n)
BY DEF KeepsFrames, Safe, Accounted, Held

-----------------------------------------------------------------------------
(* Pages, regions and the lists of regions.                                *)

LEMMA RegionType ==
  /\ Regions \subseteq Nat
  /\ IsFiniteSet(Regions)
  /\ \A p \in Pages : RegionOf(p) \in Regions
<1>. DEFINE f == [p \in Pages |-> RegionOf(p)]
<1>1. \A p \in Nat, n \in Nat \ {0} : p \div n \in Nat
  OBVIOUS
<1>2. \A p \in Pages : RegionOf(p) \in Nat
  BY <1>1, TBNAssumption DEF RegionOf
<1>3. Regions \subseteq Nat /\ \A p \in Pages : RegionOf(p) \in Regions
  BY <1>2 DEF Regions
<1>4. f \in Surjection(Pages, Regions)
  BY <1>3 DEF Surjection, Regions
<1>5. IsFiniteSet(Regions)
  BY <1>4, TBNAssumption, FS_Surjection
<1>. QED BY <1>3, <1>5

LEMMA PageSets ==
  /\ Pages \subseteq Int /\ IsFiniteSet(Pages)
  /\ \A S \in SUBSET Pages : /\ IsFiniteSet(S)
                             /\ Cardinality(S) \in Nat
                             /\ RegionsOfPages(S) \subseteq Regions
<1>1. Pages \subseteq Int /\ IsFiniteSet(Pages)
  BY TBNAssumption
<1>2. \A S \in SUBSET Pages : IsFiniteSet(S) /\ Cardinality(S) \in Nat
  BY <1>1, FS_Subset, FS_CardinalityType
<1>3. \A S \in SUBSET Pages : RegionsOfPages(S) \subseteq Regions
  BY RegionType DEF RegionsOfPages
<1>. QED BY <1>1, <1>2, <1>3

LEMMA RegionList ==
  ASSUME NEW S \in SUBSET Regions
  PROVE  Ascending(S) \in Seq(Regions) /\ Elements(Ascending(S)) = S
<1>1. S \in SUBSET Int /\ IsFiniteSet(S)
  <2>1. IsFiniteSet(S)
    BY RegionType, FS_Subset
  <2>2. Regions \subseteq Int
    BY RegionType
  <2>. QED BY <2>1, <2>2
<1>2. Ascending(S) \in Seq(S) /\ Elements(Ascending(S)) = S
  BY <1>1, AscendingList
<1>3. Seq(S) \subseteq Seq(Regions)
  OBVIOUS
<1>. QED BY <1>2, <1>3

(* What a Safe value says about its counters. *)
LEMMA FreeFramesType ==
  ASSUME NEW m, Safe(m)
  PROVE  FreeFrames(m) \in Nat /\ m.inUse \in Nat /\ m.inUse + FreeFrames(m) <= Capacity
BY UVMAssumption DEF Safe, Accounted, Managers, FreeFrames

LEMMA SelectVictimsType ==
  ASSUME NEW m \in Managers, NEW required, NEW exclude
  PROVE  SelectVictims(m, required, exclude) \in Seq(Regions)
<1>1. m.lru \in Seq(Regions)
  BY DEF Managers
<1>2. \A S : Keep(Backwards(m.lru), S) \in Seq(Regions)
  BY <1>1, BackwardsList, KeepList
<1>3. \A S, T : Keep(Keep(Backwards(m.lru), S), T) \in Seq(Regions)
  BY <1>2, KeepList
<1>. QED BY <1>3 DEF SelectVictims

-----------------------------------------------------------------------------
(* Messages.                                                               *)

LEMMA SendKeeps ==
  ASSUME NEW m \in Managers, NEW msgs \in Seq(Messages)
  PROVE  KeepsFrames(m, Send(m, msgs))
<1>. DEFINE q == m.sendQueue \o msgs
<1>1. m.sendQueue \in Seq(Messages)
  BY DEF Managers
<1>2. q \in Seq(Messages)
  BY <1>1
<1>3. Send(m, msgs) = [m EXCEPT !.sendQueue = q]
  BY DEF Send
<1>. HIDE DEF q
<1>. QED BY <1>2, <1>3, ZenonT(60) DEF KeepsFrames, Managers

LEMMA ReplayAllKeeps ==
  ASSUME NEW m \in Managers, NEW rs \in Seq(Regions), NEW refused \in BOOLEAN
  PROVE  KeepsFrames(m, ReplayAll(m, rs, refused))
<1>. DEFINE msgs == [i \in 1..Len(rs) |->
                       [kind |-> "FaultReplay", region |-> rs[i], refused |-> refused]]
<1>1. Len(rs) \in Nat /\ \A i \in 1..Len(rs) : rs[i] \in Regions
  OBVIOUS
<1>2. \A i \in 1..Len(rs) : msgs[i] \in Messages
  BY <1>1 DEF Messages, Replays
<1>3. msgs \in Seq(Messages)
  BY <1>1, <1>2
<1>. QED BY <1>3, SendKeeps DEF ReplayAll

LEMMA RequestKeeps ==
  ASSUME NEW m \in Managers, NEW kind, NEW rs \in Seq(Regions), NEW for,
         \A r \in Regions : [kind |-> kind, region |-> r, for |-> for[r]] \in ControlOps
  PROVE  KeepsFrames(m, Request(m, kind, rs, for))
<1>. DEFINE op(r) == [kind |-> kind, region |-> r, for |-> for[r]]
            ops == m.controlOps \cup {op(r) : r \in Elements(rs)}
            n == [m EXCEPT !.controlOps = ops]
            msgs == [i \in 1..Len(rs) |-> op(rs[i])]
<1>1. Len(rs) \in Nat /\ \A i \in 1..Len(rs) : rs[i] \in Regions
  OBVIOUS
<1>2. m.controlOps \subseteq ControlOps
  BY DEF Managers
<1>3. \A r \in Elements(rs) : op(r) \in ControlOps
  BY <1>1 DEF Elements
<1>4. ops \subseteq ControlOps
  BY <1>2, <1>3
<1>5. \A i \in 1..Len(rs) : msgs[i] \in Messages
  BY <1>1 DEF Messages
<1>6. msgs \in Seq(Messages)
  BY <1>1, <1>5
<1>7. Request(m, kind, rs, for) = Send(n, msgs)
  BY DEF Request
<1>. HIDE DEF op, ops, msgs
<1>8. KeepsFrames(m, n) /\ n \in Managers
  BY <1>4 DEF KeepsFrames, Managers
<1>. QED BY <1>6, <1>7, <1>8, SendKeeps, KeepsFramesTwice

LEMMA QueueResetsKeeps ==
  ASSUME NEW m \in Managers, NEW rs \in Seq(Regions)
  PROVE  KeepsFrames(m, QueueResets(m, rs))
<1>. DEFINE q == m.resets \o Keep(rs, Regions \ Elements(m.resets))
<1>1. m.resets \in Seq(Regions)
  BY DEF Managers
<1>2. Keep(rs, Regions \ Elements(m.resets)) \in Seq(Regions)
  BY KeepList
<1>3. q \in Seq(Regions)
  BY <1>1, <1>2
<1>4. QueueResets(m, rs) = IF AccessCounterEnabled THEN [m EXCEPT !.resets = q] ELSE m
  BY DEF QueueResets
<1>. HIDE DEF q
<1>5. KeepsFrames(m, m) /\ KeepsFrames(m, [m EXCEPT !.resets = q])
  BY <1>3 DEF KeepsFrames, Managers
<1>. QED BY <1>4, <1>5

-----------------------------------------------------------------------------
(* The fault queue.                                                        *)

LEMMA StartNextKeeps ==
  ASSUME NEW m \in Managers
  PROVE  KeepsFrames(m, StartNext(m))
<1>1. CASE m.active # None \/ m.cue = <<>>
  BY <1>1 DEF StartNext, KeepsFrames
<1>2. CASE ~(m.active # None \/ m.cue = <<>>)
  <2>. DEFINE r == Head(m.cue)
              n == [m EXCEPT !.active = r,
                             !.cue = Tail(@),
                             !.claimed = @ \cup {r},
                             !.phase[r] = IF @ = "Evicting" THEN @ ELSE "FaultPending",
                             !.events = @ \cup {<<"FaultReady", r>>}]
  <2>1. m.cue \in Seq(Regions) /\ m.cue # <<>>
    BY <1>2 DEF Managers
  <2>2. r \in Regions /\ Tail(m.cue) \in Seq(Regions)
    BY <2>1
  <2>3. <<"FaultReady", r>> \in Events
    BY <2>2 DEF Events
  <2>4. StartNext(m) = n
    BY <1>2 DEF StartNext
  <2>. HIDE DEF r
  <2>5. n \in Managers /\ n.frame = m.frame /\ n.inUse = m.inUse
    BY <2>2, <2>3, ZenonT(60) DEF Managers
  <2>. QED BY <2>4, <2>5 DEF KeepsFrames
<1>. QED BY <1>1, <1>2

LEMMA UnclaimKeeps ==
  ASSUME NEW m \in Managers, NEW S
  PROVE  KeepsFrames(m, Unclaim(m, S))
BY DEF KeepsFrames, Unclaim, Managers

LEMMA FreeSlotKeeps ==
  ASSUME NEW m \in Managers, NEW S
  PROVE  KeepsFrames(m, FreeSlot(m, S))
<1>. DEFINE n == [m EXCEPT !.active = None]
<1>1. KeepsFrames(m, m) /\ KeepsFrames(m, n) /\ n \in Managers
  BY DEF KeepsFrames, Managers
<1>2. FreeSlot(m, S) = IF m.active \in S THEN StartNext(n) ELSE m
  BY DEF FreeSlot
<1>. HIDE DEF n
<1>. QED BY <1>1, <1>2, StartNextKeeps, KeepsFramesTwice

LEMMA ParkFaultKeeps ==
  ASSUME NEW m \in Managers, NEW r \in Regions
  PROVE  KeepsFrames(m, ParkFault(m, r))
<1>. DEFINE n == [m EXCEPT !.faults[r] = "Pending", !.deferred = @ \cup {r}]
            k == Unclaim(n, {r})
<1>1. KeepsFrames(m, n) /\ n \in Managers
  BY ZenonT(60) DEF KeepsFrames, Managers
<1>2. ParkFault(m, r) = FreeSlot(k, {r})
  BY DEF ParkFault
<1>. HIDE DEF n
<1>3. KeepsFrames(n, k) /\ k \in Managers
  BY <1>1, UnclaimKeeps DEF KeepsFrames
<1>. HIDE DEF k
<1>4. KeepsFrames(k, ParkFault(m, r))
  BY <1>2, <1>3, FreeSlotKeeps
<1>. QED BY <1>1, <1>3, <1>4, KeepsFramesTwice

LEMMA ResumeDeferredKeeps ==
  ASSUME NEW m \in Managers, NEW r \in Regions
  PROVE  KeepsFrames(m, ResumeDeferred(m, r))
<1>. DEFINE q == Append(m.cue, r)
            n == [m EXCEPT !.deferred = @ \ {r}, !.cue = q]
<1>1. m.cue \in Seq(Regions)
  BY DEF Managers
<1>2. q \in Seq(Regions)
  BY <1>1
<1>3. ResumeDeferred(m, r) = IF r \in m.deferred THEN StartNext(n) ELSE m
  BY DEF ResumeDeferred
<1>. HIDE DEF q
<1>4. KeepsFrames(m, m) /\ KeepsFrames(m, n) /\ n \in Managers
  BY <1>2 DEF KeepsFrames, Managers
<1>. HIDE DEF n
<1>. QED BY <1>3, <1>4, StartNextKeeps, KeepsFramesTwice

LEMMA RetireFaultsKeeps ==
  ASSUME NEW m \in Managers, NEW S
  PROVE  KeepsFrames(m, RetireFaults(m, S))
<1>. DEFINE k == Unclaim(m, S)
            n == [k EXCEPT !.faults = [r \in Regions |-> IF r \in S THEN "None" ELSE @[r]]]
<1>1. KeepsFrames(m, k) /\ k \in Managers
  BY UnclaimKeeps DEF KeepsFrames
<1>2. RetireFaults(m, S) = FreeSlot(n, S)
  BY DEF RetireFaults
<1>. HIDE DEF k
<1>3. KeepsFrames(k, n) /\ n \in Managers
  BY <1>1 DEF KeepsFrames, Managers
<1>. HIDE DEF n
<1>4. KeepsFrames(n, RetireFaults(m, S))
  BY <1>2, <1>3, FreeSlotKeeps
<1>. QED BY <1>1, <1>3, <1>4, KeepsFramesTwice

LEMMA FinishFaultsKeeps ==
  ASSUME NEW m \in Managers, NEW S \in SUBSET Regions
  PROVE  KeepsFrames(m, FinishFaults(m, S))
<1>. DEFINE k == ReplayAll(m, Ascending(S), FALSE)
<1>1. KeepsFrames(m, k) /\ k \in Managers
  BY RegionList, ReplayAllKeeps DEF KeepsFrames
<1>2. FinishFaults(m, S) = RetireFaults(k, S)
  BY DEF FinishFaults
<1>. HIDE DEF k
<1>. QED BY <1>1, <1>2, RetireFaultsKeeps, KeepsFramesTwice

LEMMA OpenFaultKeeps ==
  ASSUME NEW m \in Managers, NEW r \in Regions
  PROVE  KeepsFrames(m, OpenFault(m, r))
<1>. DEFINE q == Append(m.cue, r)
            n == [m EXCEPT !.faults[r] = "Pending", !.cue = q]
<1>1. m.cue \in Seq(Regions)
  BY DEF Managers
<1>2. q \in Seq(Regions)
  BY <1>1
<1>3. OpenFault(m, r) = StartNext(n)
  BY DEF OpenFault
<1>. HIDE DEF q
<1>4. KeepsFrames(m, n) /\ n \in Managers
  BY <1>2 DEF KeepsFrames, Managers
<1>. HIDE DEF n
<1>. QED BY <1>3, <1>4, StartNextKeeps, KeepsFramesTwice

-----------------------------------------------------------------------------
(* Evictions.                                                              *)

LEMMA LRUKeeps ==
  ASSUME NEW m \in Managers
  PROVE  /\ \A S : KeepsFrames(m, RemoveLRU(m, S))
         /\ \A rs \in Seq(Regions) : KeepsFrames(m, AddLRU(m, rs))
<1>1. m.lru \in Seq(Regions)
  BY DEF Managers
<1>2. ASSUME NEW q \in Seq(Regions)
      PROVE  KeepsFrames(m, [m EXCEPT !.lru = q])
  BY DEF KeepsFrames, Managers
<1>3. \A S : Keep(m.lru, S) \in Seq(Regions)
  BY <1>1, KeepList
<1>4. \A rs \in Seq(Regions) :
         Backwards(rs) \o Keep(m.lru, Regions \ Elements(rs)) \in Seq(Regions)
  BY <1>3, BackwardsList
<1>. QED BY <1>2, <1>3, <1>4 DEF RemoveLRU, AddLRU

LEMMA BeginEvictionsKeeps ==
  ASSUME NEW m \in Managers, NEW vs \in Seq(Regions), NEW then \in Waiting \cup {None}
  PROVE  KeepsFrames(m, BeginEvictions(m, vs, then))
<1>. DEFINE S == Elements(vs)
            victims == UNION {RegionFrames(m, r) : r \in S}
            k == RemoveLRU(m, S)
            e == k.evicting + Cardinality(victims)
            f == [r \in Regions |-> IF r \in S THEN then ELSE k.then[r]]
            g == [r \in Regions |-> IF r \in S THEN "Evicting" ELSE k.phase[r]]
            h == [p \in Pages |-> IF p \in Parked(m, S) THEN "Migrating" ELSE k.pte[p]]
            n == [k EXCEPT !.phase = g, !.evicting = e, !.pte = h, !.then = f]
<1>1. victims \in SUBSET Pages
  BY DEF RegionFrames, PagesOf
<1>2. Cardinality(victims) \in Nat
  BY <1>1, PageSets
<1>3. KeepsFrames(m, k) /\ k \in Managers
  BY LRUKeeps DEF KeepsFrames
<1>4. BeginEvictions(m, vs, then) = Request(n, "TLBInvalidate", vs, EvictOf)
  BY DEF BeginEvictions
<1>. HIDE DEF victims, k, S
<1>5. e \in Nat
  BY <1>2, <1>3 DEF Managers
<1>6. f \in [Regions -> Waiting \cup {None}]
  BY <1>3 DEF Managers
<1>7. /\ g \in [Regions -> {"Idle", "FaultPending", "FaultHandling",
                             "MigratingToGPU", "Evicting"}]
      /\ h \in [Pages -> {"Invalid", "Remote", "Migrating", "Local"}]
  BY <1>3 DEF Managers
<1>. HIDE DEF e, f, g, h
<1>8. KeepsFrames(k, n) /\ n \in Managers
  <2>1. n \in Managers /\ n.frame = k.frame /\ n.inUse = k.inUse
    BY <1>3, <1>5, <1>6, <1>7 DEF Managers
  <2>. QED BY <2>1 DEF KeepsFrames
<1>9. \A r \in Regions :
        [kind |-> "TLBInvalidate", region |-> r, for |-> EvictOf[r]] \in ControlOps
  BY DEF EvictOf, Evict, ControlOps
<1>. HIDE DEF n
<1>10. KeepsFrames(n, BeginEvictions(m, vs, then))
  BY <1>4, <1>8, <1>9, RequestKeeps
<1>. QED BY <1>3, <1>8, <1>10, KeepsFramesTwice

LEMMA PreEvictKeeps ==
  ASSUME NEW m \in Managers, NEW exclude
  PROVE  KeepsFrames(m, PreEvict(m, exclude))
<1>1. KeepsFrames(m, m)
  BY DEF KeepsFrames
<1>. QED BY <1>1, SelectVictimsType, BeginEvictionsKeeps DEF PreEvict

-----------------------------------------------------------------------------
(* Migrations.                                                             *)

LEMMA CoveringType ==
  ASSUME NEW m, NEW r
  PROVE  CoveringMigration(m, r) \in MigrationIds \cup {None}
<1>. DEFINE ids == {m.migrationOf[p] : p \in PagesOf(r)}
                     \cap {i \in MigrationIds : i[1] = "admit" /\ m.migrations[i] # NoMigration}
<1>1. ids \subseteq MigrationIds
  OBVIOUS
<1>2. CoveringMigration(m, r) = IF ids = {} THEN None ELSE CHOOSE i \in ids : TRUE
  BY DEF CoveringMigration
<1>. HIDE DEF ids
<1>. QED BY <1>1, <1>2

(* The pages admitted fit the budget and the allocator. *)
LEMMA AdmittedFits ==
  ASSUME NEW m, Safe(m), NEW sel \in SUBSET Pages
  PROVE  LET adm == Admitted(m, sel)
             new == {p \in adm : ~m.frame[p]}
         IN  /\ adm \subseteq sel
             /\ Cardinality(new) \in Nat
             /\ m.inUse + Cardinality(new) <= Capacity
             /\ m.inUse + Cardinality(new) <= PhysFrames
<1>. DEFINE cpu   == {p \in sel : m.state[p] = "CPUResident"}
            needs == {p \in cpu : ~m.frame[p]}
            phys  == IF m.inUse >= PhysFrames THEN 0 ELSE PhysFrames - m.inUse
            avail == Min({FreeFrames(m), phys})
            adm   == Admitted(m, sel)
            new   == {p \in adm : ~m.frame[p]}
<1>1. adm = {p \in cpu : m.frame[p] \/ Rank(needs, p) < avail}
  BY DEF Admitted
<1>2. m.inUse \in Nat /\ m.inUse + FreeFrames(m) <= Capacity /\ FreeFrames(m) \in Nat
  BY FreeFramesType
<1>3. phys \in Nat /\ m.inUse + phys <= PhysFrames
  BY <1>2, UVMAssumption DEF Safe, Accounted
<1>4. avail \in Nat /\ avail <= FreeFrames(m) /\ avail <= phys
  <2>1. \A a, b \in Nat : \E x \in {a, b} : \A y \in {a, b} : x <= y
    OBVIOUS
  <2>2. \E x \in {FreeFrames(m), phys} : \A y \in {FreeFrames(m), phys} : x <= y
    BY <2>1, <1>2, <1>3
  <2>3. /\ avail \in {FreeFrames(m), phys}
        /\ \A y \in {FreeFrames(m), phys} : avail <= y
    BY <2>2 DEF Min
  <2>. QED BY <2>3, <1>2, <1>3
<1>. HIDE DEF avail
<1>5. needs \in SUBSET Int /\ IsFiniteSet(needs)
  BY PageSets
<1>6. new \subseteq {p \in needs : Rank(needs, p) < avail}
  BY <1>1
<1>7. adm \subseteq sel /\ Cardinality(new) \in Nat
  BY <1>1, PageSets
<1>. HIDE DEF needs, adm, new
<1>8. /\ IsFiniteSet({p \in needs : Rank(needs, p) < avail})
      /\ Cardinality({p \in needs : Rank(needs, p) < avail}) <= avail
  BY <1>4, <1>5, FirstElements
<1>9. Cardinality(new) <= Cardinality({p \in needs : Rank(needs, p) < avail})
  BY <1>6, <1>8, FS_Subset
<1>10. Cardinality({p \in needs : Rank(needs, p) < avail}) \in Nat
  BY <1>8, FS_CardinalityType
<1>11. Cardinality(new) <= avail
  BY <1>4, <1>7, <1>8, <1>9, <1>10
<1>12. /\ adm \subseteq sel
       /\ Cardinality(new) \in Nat
       /\ m.inUse + Cardinality(new) <= Capacity
       /\ m.inUse + Cardinality(new) <= PhysFrames
  BY <1>2, <1>3, <1>4, <1>7, <1>11, UVMAssumption
<1>. QED BY <1>12 DEF adm, new

LEMMA StartTransferKeeps ==
  ASSUME NEW m \in Managers, NEW id \in MigrationIds
  PROVE  KeepsFrames(m, StartTransfer(m, id))
<1>. DEFINE moved == {p \in m.migrations[id].pages : m.frame[p]}
            g == [m.migrations EXCEPT ![id].dma = moved]
            e == IF moved = {} THEN m.events \cup {<<"MigrationComplete", id>>} ELSE m.events
            n == [m EXCEPT !.migrations = g, !.events = e]
<1>1. m.migrations \in [MigrationIds -> Migration] /\ m.events \subseteq Events
  BY DEF Managers
<1>2. moved \subseteq Pages
  BY <1>1 DEF Migration
<1>3. StartTransfer(m, id) = n
  BY DEF StartTransfer
<1>4. e \subseteq Events
  BY <1>1 DEF Events
<1>. HIDE DEF moved
<1>5. g \in [MigrationIds -> Migration]
  BY <1>1, <1>2 DEF Migration
<1>. HIDE DEF e, g
<1>6. KeepsFrames(m, n)
  BY <1>4, <1>5 DEF KeepsFrames, Managers
<1>. QED BY <1>3, <1>6

LEMMA TodoKeeps ==
  ASSUME NEW m \in Managers, NEW id \in MigrationIds, NEW todo \in Seq(Regions)
  PROVE  KeepsFrames(m, [m EXCEPT !.migrations[id].todo = todo])
<1>. DEFINE g == [m.migrations EXCEPT ![id].todo = todo]
<1>1. m.migrations \in [MigrationIds -> Migration]
  BY DEF Managers
<1>2. g \in [MigrationIds -> Migration]
  BY <1>1 DEF Migration
<1>3. [m EXCEPT !.migrations[id].todo = todo] = [m EXCEPT !.migrations = g]
  OBVIOUS
<1>. HIDE DEF g
<1>4. KeepsFrames(m, [m EXCEPT !.migrations = g])
  BY <1>2 DEF KeepsFrames, Managers
<1>. QED BY <1>3, <1>4

LEMMA DrainNextKeeps ==
  ASSUME NEW m \in Managers, NEW id \in {"admit"} \X Regions
  PROVE  KeepsFrames(m, DrainNext(m, id))
<1>. DEFINE todo == m.migrations[id].todo
            done == [m EXCEPT !.migrations[id].todo = <<>>]
            left == [m EXCEPT !.migrations[id].todo = Tail(@)]
<1>1. id \in MigrationIds
  BY DEF MigrationIds
<1>2. todo \in Seq(Regions)
  BY <1>1 DEF Managers, Migration
<1>3. KeepsFrames(m, done) /\ done \in Managers
  <2>1. <<>> \in Seq(Regions)
    OBVIOUS
  <2>2. KeepsFrames(m, done)
    BY <1>1, <2>1, TodoKeeps
  <2>. HIDE DEF done
  <2>. QED BY <2>2 DEF KeepsFrames
<1>4. CASE todo = <<>> \/ ~AccessCounterEnabled
  <2>1. DrainNext(m, id) = StartTransfer(done, id)
    BY <1>4 DEF DrainNext
  <2>. HIDE DEF done
  <2>. QED BY <2>1, <1>1, <1>3, StartTransferKeeps, KeepsFramesTwice
<1>5. CASE ~(todo = <<>> \/ ~AccessCounterEnabled)
  <2>1. Tail(todo) \in Seq(Regions) /\ Head(todo) \in Regions
    BY <1>2, <1>5
  <2>2. left = [m EXCEPT !.migrations[id].todo = Tail(todo)]
    OBVIOUS
  <2>3. KeepsFrames(m, left) /\ left \in Managers
    BY <1>1, <2>1, <2>2, TodoKeeps DEF KeepsFrames
  <2>4. DrainNext(m, id) = Request(left, "RemoteDrain", <<Head(todo)>>, [r \in Regions |-> id])
    BY <1>5 DEF DrainNext
  <2>5. \A r \in Regions :
          [kind |-> "RemoteDrain", region |-> r, for |-> [k \in Regions |-> id][r]] \in ControlOps
    BY DEF ControlOps
  <2>6. <<Head(todo)>> \in Seq(Regions)
    BY <2>1
  <2>. HIDE DEF left
  <2>7. KeepsFrames(left, DrainNext(m, id))
    BY <2>3, <2>4, <2>5, <2>6, RequestKeeps
  <2>. QED BY <2>3, <2>7, KeepsFramesTwice
<1>. QED BY <1>4, <1>5

LEMMA InvalidateOne ==
  ASSUME NEW m \in Managers, NEW id \in {"admit"} \X Regions,
         m.migrations[id].todo # <<>>
  PROVE  KeepsFrames(m, Request([m EXCEPT !.migrations[id].todo = Tail(@)],
                                "TLBInvalidate", <<Head(m.migrations[id].todo)>>,
                                [r \in Regions |-> id]))
<1>. DEFINE todo == m.migrations[id].todo
            left == [m EXCEPT !.migrations[id].todo = Tail(@)]
            for  == [r \in Regions |-> id]
            n == Request(left, "TLBInvalidate", <<Head(todo)>>, for)
<1>1. id \in MigrationIds
  BY DEF MigrationIds
<1>2. todo \in Seq(Regions)
  BY <1>1 DEF Managers, Migration
<1>3. Tail(todo) \in Seq(Regions) /\ Head(todo) \in Regions /\ <<Head(todo)>> \in Seq(Regions)
  BY <1>2
<1>4. left = [m EXCEPT !.migrations[id].todo = Tail(todo)]
  OBVIOUS
<1>5. KeepsFrames(m, left) /\ left \in Managers
  BY <1>1, <1>3, <1>4, TodoKeeps DEF KeepsFrames
<1>6. \A r \in Regions :
        [kind |-> "TLBInvalidate", region |-> r, for |-> for[r]] \in ControlOps
  BY DEF ControlOps
<1>. HIDE DEF left, for
<1>7. KeepsFrames(left, n)
  BY <1>3, <1>5, <1>6, RequestKeeps
<1>8. KeepsFrames(m, n)
  BY <1>5, <1>7, KeepsFramesTwice
<1>. QED BY <1>8 DEF left, for

LEMMA JoinKeeps ==
  ASSUME NEW m \in Managers, NEW id \in MigrationIds, NEW r \in Regions
  PROVE  KeepsFrames(m, [m EXCEPT !.faults[r] = "Migrating",
                                  !.migrations[id].faults = @ \cup {r}])
<1>. DEFINE g == [m.migrations EXCEPT ![id].faults = @ \cup {r}]
            n == [m EXCEPT !.faults[r] = "Migrating", !.migrations = g]
<1>1. m.migrations \in [MigrationIds -> Migration]
  BY DEF Managers
<1>2. g \in [MigrationIds -> Migration]
  BY <1>1 DEF Migration
<1>3. [m EXCEPT !.faults[r] = "Migrating", !.migrations[id].faults = @ \cup {r}] = n
  OBVIOUS
<1>. HIDE DEF g
<1>4. KeepsFrames(m, n)
  BY <1>2 DEF KeepsFrames, Managers
<1>. QED BY <1>3, <1>4

LEMMA DeferAdmissionKeeps ==
  ASSUME NEW m \in Managers, NEW r \in Regions, NEW sel \in SUBSET Pages
  PROVE  KeepsFrames(m, DeferAdmission(m, r, sel))
<1>. DEFINE rs == RegionsOfPages(sel)
            k  == ReplayAll(m, Ascending({x \in rs : CoveringMigration(m, x) = None}), TRUE)
            id == CoveringMigration(m, r)
<1>1. {x \in rs : CoveringMigration(m, x) = None} \in SUBSET Regions
  BY PageSets
<1>2. KeepsFrames(m, k) /\ k \in Managers
  BY <1>1, RegionList, ReplayAllKeeps DEF KeepsFrames
<1>3. id \in MigrationIds \cup {None}
  BY CoveringType
<1>4. DeferAdmission(m, r, sel) =
        IF r \in rs /\ id # None
        THEN [k EXCEPT !.faults[r] = "Migrating", !.migrations[id].faults = @ \cup {r}]
        ELSE RetireFaults(k, {r})
  BY DEF DeferAdmission
<1>. HIDE DEF rs, k, id
<1>5. KeepsFrames(k, DeferAdmission(m, r, sel))
  <2>1. CASE r \in rs /\ id # None
    <3>1. id \in MigrationIds
      BY <1>3, <2>1
    <3>2. KeepsFrames(k, [k EXCEPT !.faults[r] = "Migrating",
                                   !.migrations[id].faults = @ \cup {r}])
      BY <1>2, <3>1, JoinKeeps
    <3>. QED BY <1>4, <2>1, <3>2
  <2>2. CASE ~(r \in rs /\ id # None)
    BY <1>2, <1>4, <2>2, RetireFaultsKeeps
  <2>. QED BY <2>1, <2>2
<1>. QED BY <1>2, <1>5, KeepsFramesTwice

LEMMA StartAdmissionSafe ==
  ASSUME NEW m, Safe(m), NEW r \in Regions, NEW sel \in SUBSET Pages
  PROVE  Safe(StartAdmission(m, r, sel))
<1>. DEFINE adm == Admitted(m, sel)
            new == {p \in adm : ~m.frame[p]}
            rs  == RegionsOfPages(adm)
            id  == Admit(r)
            mig == [pages |-> adm, faults |-> {r}, dma |-> {}, todo |-> Ascending(rs),
                    invalidate |-> \E p \in adm : m.remote[p]]
            u == m.inUse + Cardinality(new)
            f == [p \in Pages |-> m.frame[p] \/ p \in adm]
            s == [p \in Pages |-> IF p \in adm THEN "MigratingToGPU" ELSE m.state[p]]
            t == [p \in Pages |-> IF p \in adm THEN "Migrating" ELSE m.pte[p]]
            o == [p \in Pages |-> IF p \in adm THEN id ELSE m.migrationOf[p]]
            h == [k \in Regions |-> IF k \in rs THEN "MigratingToGPU" ELSE m.phase[k]]
            g == [k \in Regions |-> IF k \in rs THEN id ELSE m.regionMig[k]]
            a == [m.faults EXCEPT ![r] = "Migrating"]
            i == [m.migrations EXCEPT ![id] = mig]
            n == [m EXCEPT !.inUse = u, !.frame = f, !.state = s, !.pte = t,
                           !.migrationOf = o, !.phase = h, !.regionMig = g,
                           !.faults = a, !.migrations = i]
            d == DrainNext(n, id)
<1>1. m \in Managers
  BY DEF Safe
<1>2. /\ adm \in SUBSET Pages
      /\ Cardinality(new) \in Nat
      /\ u <= Capacity /\ u <= PhysFrames
  BY AdmittedFits
<1>3. rs \in SUBSET Regions /\ Ascending(rs) \in Seq(Regions)
  BY <1>2, PageSets, RegionList
<1>4. id \in MigrationIds /\ id \in {"admit"} \X Regions
  BY DEF Admit, MigrationIds
<1>5. mig \in Migration
  BY <1>2, <1>3 DEF Migration
<1>6. StartAdmission(m, r, sel) =
        IF adm = {} THEN DeferAdmission(m, r, sel) ELSE PreEvict(d, sel)
  BY DEF StartAdmission
<1>7. f \in [Pages -> BOOLEAN] /\ Held(m) \in SUBSET Pages /\ new \in SUBSET Pages
      /\ {p \in Pages : f[p]} = Held(m) \cup new /\ Held(m) \cap new = {}
  BY <1>1, <1>2 DEF Managers, Held
<1>8. Cardinality(Held(m) \cup new) = Cardinality(Held(m)) + Cardinality(new)
  <2>1. IsFiniteSet(Held(m)) /\ IsFiniteSet(new) /\ Cardinality(Held(m)) \in Nat
    BY <1>7, PageSets
  <2>2. Cardinality(Held(m) \cap new) = 0
    BY <1>7, FS_EmptySet
  <2>. HIDE DEF new
  <2>3. Cardinality(Held(m) \cup new) =
          Cardinality(Held(m)) + Cardinality(new) - Cardinality(Held(m) \cap new)
    BY <2>1, FS_Union
  <2>. QED BY <2>1, <2>2, <2>3, <1>2
<1>. HIDE DEF adm, new, rs, id, mig
<1>9. /\ s \in [Pages -> {"CPUResident", "GPUResident", "MigratingToGPU", "MigratingToCPU"}]
      /\ t \in [Pages -> {"Invalid", "Remote", "Migrating", "Local"}]
      /\ o \in [Pages -> MigrationIds \cup {None}]
      /\ h \in [Regions -> {"Idle", "FaultPending", "FaultHandling",
                            "MigratingToGPU", "Evicting"}]
      /\ g \in [Regions -> MigrationIds \cup {None}]
      /\ a \in [Regions -> {"None", "Pending", "Handling", "Migrating"}]
      /\ i \in [MigrationIds -> Migration]
      /\ u \in Nat
  BY <1>1, <1>2, <1>4, <1>5 DEF Managers
<1>10. u = Cardinality({p \in Pages : f[p]})
  BY <1>7, <1>8 DEF Safe, Accounted
<1>. HIDE DEF u, f, s, t, o, h, g, a, i
<1>11. n \in Managers /\ n.frame = f /\ n.inUse = u
  BY <1>1, <1>7, <1>9 DEF Managers
<1>12. Safe(n)
  BY <1>2, <1>10, <1>11 DEF Safe, Accounted, Held
<1>. HIDE DEF n
<1>13. KeepsFrames(n, d) /\ d \in Managers
  BY <1>4, <1>11, DrainNextKeeps DEF KeepsFrames
<1>14. Safe(d)
  BY <1>12, <1>13, KeepsFramesSafe
<1>. HIDE DEF d
<1>15. Safe(PreEvict(d, sel))
  BY <1>13, <1>14, PreEvictKeeps, KeepsFramesSafe
<1>16. Safe(DeferAdmission(m, r, sel))
  BY <1>1, DeferAdmissionKeeps, KeepsFramesSafe
<1>. QED BY <1>6, <1>15, <1>16

LEMMA WithCapacitySafe ==
  ASSUME NEW m, Safe(m), NEW r \in Regions, NEW sel \in SUBSET Pages
  PROVE  Safe(WithCapacity(m, r, sel))
<1>. DEFINE victims == SelectVictims(m, Cardinality(sel), sel)
            wait == [txn |-> r, pages |-> sel, rest |-> Tail(victims)]
            n == BeginEvictions(m, <<Head(victims)>>, wait)
<1>1. m \in Managers
  BY DEF Safe
<1>2. victims \in Seq(Regions)
  BY <1>1, SelectVictimsType
<1>3. WithCapacity(m, r, sel) =
        IF FreeFrames(m) >= Cardinality(sel) \/ EvictionDisabled \/ victims = <<>>
        THEN StartAdmission(m, r, sel)
        ELSE n
  BY DEF WithCapacity
<1>. HIDE DEF victims
<1>4. ASSUME victims # <<>>
      PROVE  Safe(n)
  <2>1. /\ Tail(victims) \in Seq(Regions)
        /\ Head(victims) \in Regions
        /\ <<Head(victims)>> \in Seq(Regions)
    BY <1>2, <1>4
  <2>2. wait \in Waiting
    BY <2>1 DEF Waiting
  <2>. HIDE DEF wait
  <2>3. KeepsFrames(m, n)
    BY <1>1, <2>1, <2>2, BeginEvictionsKeeps
  <2>. QED BY <2>3, KeepsFramesSafe
<1>. QED BY <1>3, <1>4, StartAdmissionSafe

LEMMA EvictNextSafe ==
  ASSUME NEW m, Safe(m), NEW wait \in Waiting
  PROVE  Safe(EvictNext(m, wait))
<1>. DEFINE left == {i \in 1..Len(wait.rest) : Evictable(m, wait.rest[i])}
            i    == Min(left)
            next == [wait EXCEPT !.rest = SubSeq(@, i + 1, Len(@))]
            n    == BeginEvictions(m, <<wait.rest[i]>>, next)
<1>1. m \in Managers
  BY DEF Safe
<1>2. wait.txn \in Regions /\ wait.pages \in SUBSET Pages /\ wait.rest \in Seq(Regions)
  BY DEF Waiting
<1>3. Safe(WithCapacity(m, wait.txn, wait.pages))
  BY <1>2, WithCapacitySafe
<1>4. EvictNext(m, wait) =
        IF left = {} THEN WithCapacity(m, wait.txn, wait.pages) ELSE n
  BY DEF EvictNext
<1>5. left \in SUBSET Int /\ IsFiniteSet(left) /\ left \subseteq 1..Len(wait.rest)
  <2>1. IsFiniteSet(1..Len(wait.rest)) /\ left \in SUBSET (1..Len(wait.rest))
    BY <1>2, FS_Interval
  <2>. QED BY <2>1, FS_Subset
<1>. HIDE DEF left
<1>6. ASSUME left # {}
      PROVE  Safe(n)
  <2>1. \E x \in left : \A y \in left : x <= y
    BY <1>5, <1>6, LeastElement
  <2>2. i \in left
    BY <2>1 DEF Min
  <2>. HIDE DEF i
  <2>3. i \in 1..Len(wait.rest) /\ wait.rest[i] \in Regions /\ <<wait.rest[i]>> \in Seq(Regions)
    BY <1>2, <1>5, <2>2
  <2>4. SubSeq(wait.rest, i + 1, Len(wait.rest)) \in Seq(Regions)
    BY <1>2, <2>3
  <2>5. next \in Waiting
    BY <2>4 DEF Waiting
  <2>. HIDE DEF next
  <2>6. KeepsFrames(m, n)
    BY <1>1, <2>3, <2>5, BeginEvictionsKeeps
  <2>. QED BY <2>6, KeepsFramesSafe
<1>. QED BY <1>3, <1>4, <1>6

LEMMA ResumeWaitingSafe ==
  ASSUME NEW m, Safe(m), NEW r \in Regions
  PROVE  Safe(ResumeWaiting(m, r))
<1>. DEFINE wait == m.then[r]
            f == [m.then EXCEPT ![r] = None]
            n == [m EXCEPT !.then = f]
<1>1. m \in Managers /\ wait \in Waiting \cup {None}
  BY DEF Safe, Managers
<1>2. f \in [Regions -> Waiting \cup {None}]
  BY <1>1 DEF Managers
<1>3. ResumeWaiting(m, r) = IF wait = None THEN n ELSE EvictNext(n, wait)
  BY DEF ResumeWaiting
<1>. HIDE DEF f, wait
<1>4. KeepsFrames(m, n)
  BY <1>1, <1>2 DEF KeepsFrames, Managers
<1>5. Safe(n)
  BY <1>4, KeepsFramesSafe
<1>. HIDE DEF n
<1>. QED BY <1>1, <1>3, <1>5, EvictNextSafe

LEMMA ForgetMigrationKeeps ==
  ASSUME NEW m \in Managers, NEW id \in MigrationIds
  PROVE  KeepsFrames(m, ForgetMigration(m, id))
<1>. DEFINE g == [m.migrations EXCEPT ![id] = NoMigration]
            o == [p \in Pages |-> IF m.migrationOf[p] = id THEN None ELSE m.migrationOf[p]]
<1>1. <<>> \in Seq(Regions)
  OBVIOUS
<1>2. NoMigration \in Migration
  BY <1>1 DEF NoMigration, Migration
<1>3. g \in [MigrationIds -> Migration] /\ o \in [Pages -> MigrationIds \cup {None}]
  BY <1>2 DEF Managers
<1>4. ForgetMigration(m, id) = [m EXCEPT !.migrations = g, !.migrationOf = o]
  BY DEF ForgetMigration
<1>. HIDE DEF g, o
<1>5. KeepsFrames(m, [m EXCEPT !.migrations = g, !.migrationOf = o])
  BY <1>3 DEF KeepsFrames, Managers
<1>. QED BY <1>4, <1>5

(* The frames come back before the counter does: in between, parked faults *)
(* resume on a counter that still includes them.                           *)
LEMMA FinalizeEvictionSafe ==
  ASSUME NEW m, Safe(m), NEW r \in Regions
  PROVE  Safe(FinalizeEviction(m, r))
<1>. DEFINE out == {p \in PagesOf(r) : m.frame[p] /\ m.state[p] \in {"MigratingToCPU", "GPUResident"}}
            c   == Cardinality(out)
            mapped == IF AccessCounterEnabled /\ ~LazyRemotePTE THEN "Remote" ELSE "Invalid"
            f == [p \in Pages |-> m.frame[p] /\ p \notin out]
            s == [p \in Pages |-> IF p \in out THEN "CPUResident" ELSE m.state[p]]
            v == [p \in Pages |-> IF p \in out THEN mapped = "Remote" ELSE m.remote[p]]
            t == [p \in Pages |-> IF p \in out THEN mapped ELSE m.pte[p]]
            h == [m.phase EXCEPT ![r] = "Idle"]
            k == [m EXCEPT !.frame = f, !.state = s, !.remote = v, !.pte = t, !.phase[r] = "Idle"]
            q == QueueResets(k, <<r>>)
            g == [q.regionMig EXCEPT ![r] = None]
            j == [q EXCEPT !.regionMig[r] = None]
            x == ResumeDeferred(IF out = {} THEN q ELSE j, r)
            y == RemoveLRU(x, {r})
            u == IF y.inUse >= c THEN y.inUse - c ELSE 0
            e == IF y.evicting >= c THEN y.evicting - c ELSE 0
            z == [y EXCEPT !.inUse = u, !.evicting = e]
<1>1. m \in Managers /\ m.inUse \in Nat
  BY DEF Safe, Managers
<1>2. FinalizeEviction(m, r) = IF out = {} THEN x ELSE z
  BY DEF FinalizeEviction
<1>3. /\ out \subseteq Held(m) /\ Held(m) \in SUBSET Pages
      /\ {p \in Pages : f[p]} = Held(m) \ out
  BY DEF Held, PagesOf
<1>4. IsFiniteSet(Held(m)) /\ c \in Nat /\ c <= Cardinality(Held(m))
  <2>1. out \in SUBSET Pages
    BY <1>3
  <2>2. IsFiniteSet(Held(m)) /\ c \in Nat
    BY <1>3, <2>1, PageSets
  <2>. QED BY <1>3, <2>2, FS_Subset
<1>5. Cardinality({p \in Pages : f[p]}) = Cardinality(Held(m)) - c
  <2>1. Held(m) \cap out = out
    BY <1>3
  <2>2. Cardinality(Held(m) \ out) = Cardinality(Held(m)) - Cardinality(Held(m) \cap out)
    BY <1>4, FS_Difference
  <2>. QED BY <2>1, <2>2, <1>3
<1>6. out = {} => f = m.frame
  BY <1>1 DEF Managers
<1>7. /\ f \in [Pages -> BOOLEAN]
      /\ s \in [Pages -> {"CPUResident", "GPUResident", "MigratingToGPU", "MigratingToCPU"}]
      /\ v \in [Pages -> BOOLEAN]
      /\ t \in [Pages -> {"Invalid", "Remote", "Migrating", "Local"}]
      /\ h \in [Regions -> {"Idle", "FaultPending", "FaultHandling",
                            "MigratingToGPU", "Evicting"}]
  BY <1>1 DEF Managers
<1>. HIDE DEF out, c, f, s, v, t
<1>8. k \in Managers /\ k.frame = f /\ k.inUse = m.inUse
  <2>1. k = [m EXCEPT !.frame = f, !.state = s, !.remote = v, !.pte = t, !.phase = h]
    OBVIOUS
  <2>. HIDE DEF h
  <2>. QED BY <1>1, <1>7, <2>1 DEF Managers
<1>. HIDE DEF k
<1>9. q \in Managers /\ q.frame = f /\ q.inUse = m.inUse
  <2>1. <<r>> \in Seq(Regions)
    OBVIOUS
  <2>2. KeepsFrames(k, q)
    BY <1>8, <2>1, QueueResetsKeeps
  <2>. HIDE DEF q
  <2>. QED BY <1>8, <2>2 DEF KeepsFrames
<1>. HIDE DEF q
<1>10. g \in [Regions -> MigrationIds \cup {None}]
  BY <1>9 DEF Managers
<1>11. j \in Managers /\ j.frame = f /\ j.inUse = m.inUse
  <2>1. j = [q EXCEPT !.regionMig = g]
    OBVIOUS
  <2>. HIDE DEF g
  <2>. QED BY <1>9, <1>10, <2>1 DEF Managers
<1>. HIDE DEF j
<1>12. x \in Managers /\ x.frame = f /\ x.inUse = m.inUse
  BY <1>9, <1>11, ResumeDeferredKeeps DEF KeepsFrames
<1>. HIDE DEF x
<1>13. y \in Managers /\ y.frame = f /\ y.inUse = m.inUse
  BY <1>12, LRUKeeps DEF KeepsFrames
<1>. HIDE DEF y
<1>14. /\ u \in Nat /\ e \in Nat
       /\ u = m.inUse - c /\ u <= m.inUse
  BY <1>1, <1>4, <1>13 DEF Managers, Safe, Accounted
<1>. HIDE DEF u, e
<1>15. z \in Managers /\ z.frame = f /\ z.inUse = u
  BY <1>13, <1>14 DEF Managers
<1>16. Safe(z)
  BY <1>1, <1>5, <1>14, <1>15, UVMAssumption DEF Safe, Accounted, Held
<1>17. out = {} => Safe(x)
  BY <1>6, <1>12 DEF Safe, Accounted, Held
<1>. QED BY <1>2, <1>16, <1>17

LEMMA StartWriteBackSafe ==
  ASSUME NEW m, Safe(m), NEW r \in Regions
  PROVE  Safe(StartWriteBack(m, r))
<1>. DEFINE out == RegionFrames(m, r)
            id  == Evict(r)
            mig == [pages |-> out, faults |-> {}, dma |-> {}, todo |-> <<>>,
                    invalidate |-> FALSE]
            s == [p \in Pages |-> IF p \in out THEN "MigratingToCPU" ELSE m.state[p]]
            o == [p \in Pages |-> IF p \in out THEN id ELSE m.migrationOf[p]]
            h == [m.phase EXCEPT ![r] = "Evicting"]
            g == [m.regionMig EXCEPT ![r] = id]
            i == [m.migrations EXCEPT ![id] = mig]
            n == [m EXCEPT !.state = s, !.migrationOf = o, !.phase = h,
                           !.regionMig = g, !.migrations = i]
<1>1. m \in Managers
  BY DEF Safe
<1>2. id \in MigrationIds
  BY DEF Evict, MigrationIds
<1>3. mig \in Migration
  <2>1. <<>> \in Seq(Regions) /\ out \subseteq Pages
    BY DEF RegionFrames, PagesOf
  <2>. QED BY <2>1 DEF Migration
<1>4. StartWriteBack(m, r) =
        IF out = {} THEN ResumeWaiting(FinalizeEviction(m, r), r) ELSE StartTransfer(n, id)
  BY DEF StartWriteBack
<1>. HIDE DEF out, id, mig
<1>5. /\ s \in [Pages -> {"CPUResident", "GPUResident", "MigratingToGPU", "MigratingToCPU"}]
      /\ o \in [Pages -> MigrationIds \cup {None}]
      /\ h \in [Regions -> {"Idle", "FaultPending", "FaultHandling",
                            "MigratingToGPU", "Evicting"}]
      /\ g \in [Regions -> MigrationIds \cup {None}]
      /\ i \in [MigrationIds -> Migration]
  BY <1>1, <1>2, <1>3 DEF Managers
<1>. HIDE DEF s, o, h, g, i
<1>6. n \in Managers /\ n.frame = m.frame /\ n.inUse = m.inUse
  BY <1>1, <1>5 DEF Managers
<1>7. KeepsFrames(m, n)
  BY <1>6 DEF KeepsFrames
<1>8. Safe(n)
  BY <1>7, KeepsFramesSafe
<1>. HIDE DEF n
<1>9. Safe(StartTransfer(n, id))
  BY <1>2, <1>6, <1>8, StartTransferKeeps, KeepsFramesSafe
<1>. QED BY <1>4, <1>9, FinalizeEvictionSafe, ResumeWaitingSafe

LEMMA FinishAdmissionKeeps ==
  ASSUME NEW m \in Managers, NEW id \in MigrationIds
  PROVE  KeepsFrames(m, FinishAdmission(m, id))
<1>. DEFINE mig == m.migrations[id]
            rs  == RegionsOfPages(mig.pages)
            l == Ascending(rs)
            g == [r \in Regions |-> IF r \in rs THEN None ELSE m.regionMig[r]]
            h == [r \in Regions |->
                    IF r \in rs /\ m.phase[r] = "MigratingToGPU" THEN "Idle" ELSE m.phase[r]]
            k == [m EXCEPT !.regionMig = g, !.phase = h]
            q == QueueResets(k, l)
            x == ForgetMigration(q, id)
            y == ReplayAll(x, l, FALSE)
<1>1. mig.pages \in SUBSET Pages /\ mig.faults \in SUBSET Regions
  BY DEF Managers, Migration
<1>2. l \in Seq(Regions)
  BY <1>1, PageSets, RegionList
<1>3. FinishAdmission(m, id) = FinishFaults(y, mig.faults)
  BY DEF FinishAdmission
<1>. HIDE DEF l, rs, mig
<1>4. /\ g \in [Regions -> MigrationIds \cup {None}]
      /\ h \in [Regions -> {"Idle", "FaultPending", "FaultHandling",
                            "MigratingToGPU", "Evicting"}]
  BY DEF Managers
<1>. HIDE DEF g, h
<1>5. KeepsFrames(m, k) /\ k \in Managers
  BY <1>4 DEF KeepsFrames, Managers
<1>. HIDE DEF k
<1>6. KeepsFrames(k, q) /\ q \in Managers
  BY <1>2, <1>5, QueueResetsKeeps DEF KeepsFrames
<1>. HIDE DEF q
<1>7. KeepsFrames(q, x) /\ x \in Managers
  BY <1>6, ForgetMigrationKeeps DEF KeepsFrames
<1>. HIDE DEF x
<1>8. KeepsFrames(x, y) /\ y \in Managers
  BY <1>2, <1>7, ReplayAllKeeps DEF KeepsFrames
<1>. HIDE DEF y
<1>9. KeepsFrames(y, FinishAdmission(m, id))
  BY <1>1, <1>3, <1>8, FinishFaultsKeeps
<1>. QED BY <1>5, <1>6, <1>7, <1>8, <1>9, KeepsFramesTwice

LEMMA InvalidateNextKeeps ==
  ASSUME NEW m \in Managers, NEW id \in {"admit"} \X Regions
  PROVE  KeepsFrames(m, InvalidateNext(m, id))
<1>1. id \in MigrationIds
  BY DEF MigrationIds
<1>. QED BY <1>1, FinishAdmissionKeeps, InvalidateOne DEF InvalidateNext

LEMMA CompleteAdmissionSafe ==
  ASSUME NEW m, Safe(m), NEW id \in {"admit"} \X Regions
  PROVE  Safe(CompleteAdmission(m, id))
<1>. DEFINE mig == m.migrations[id]
            rs  == Ascending(RegionsOfPages(mig.pages))
            s == [p \in Pages |-> IF p \in mig.pages THEN "GPUResident" ELSE m.state[p]]
            v == [p \in Pages |-> m.remote[p] /\ p \notin mig.pages]
            t == [p \in Pages |-> IF p \in mig.pages THEN "Local" ELSE m.pte[p]]
            k == [m EXCEPT !.state = s, !.remote = v, !.pte = t]
            l == AddLRU(k, rs)
            n == [l EXCEPT !.migrations[id].todo = rs]
<1>1. m \in Managers /\ id \in MigrationIds
  BY DEF Safe, MigrationIds
<1>2. rs \in Seq(Regions)
  <2>1. mig.pages \in SUBSET Pages
    BY <1>1 DEF Managers, Migration
  <2>. QED BY <2>1, PageSets, RegionList
<1>3. CompleteAdmission(m, id) = InvalidateNext(IF mig.invalidate THEN n ELSE l, id)
  BY DEF CompleteAdmission
<1>4. /\ s \in [Pages -> {"CPUResident", "GPUResident", "MigratingToGPU", "MigratingToCPU"}]
      /\ v \in [Pages -> BOOLEAN]
      /\ t \in [Pages -> {"Invalid", "Remote", "Migrating", "Local"}]
  BY <1>1 DEF Managers
<1>. HIDE DEF mig, rs, s, v, t
<1>5. KeepsFrames(m, k) /\ k \in Managers
  BY <1>1, <1>4 DEF KeepsFrames, Managers
<1>. HIDE DEF k
<1>6. KeepsFrames(k, l) /\ l \in Managers
  BY <1>2, <1>5, LRUKeeps DEF KeepsFrames
<1>. HIDE DEF l
<1>7. KeepsFrames(l, n)
  BY <1>1, <1>2, <1>6, TodoKeeps
<1>. HIDE DEF n
<1>8. n \in Managers
  BY <1>7 DEF KeepsFrames
<1>9. Safe(l) /\ Safe(n)
  BY <1>5, <1>6, <1>7, KeepsFramesSafe
<1>10. Safe(InvalidateNext(l, id)) /\ Safe(InvalidateNext(n, id))
  BY <1>6, <1>8, <1>9, InvalidateNextKeeps, KeepsFramesSafe
<1>. QED BY <1>3, <1>10

LEMMA CompleteWriteBackSafe ==
  ASSUME NEW m, Safe(m), NEW r \in Regions
  PROVE  Safe(CompleteWriteBack(m, r))
<1>. DEFINE id == Evict(r)
            waiting == m.migrations[id].faults
            j == FinalizeEviction(m, r)
            k == ForgetMigration(j, id)
            n == FinishFaults(k, waiting)
<1>1. id \in MigrationIds
  BY DEF Evict, MigrationIds
<1>2. waiting \in SUBSET Regions
  BY <1>1 DEF Safe, Managers, Migration
<1>3. CompleteWriteBack(m, r) = ResumeWaiting(n, r)
  BY DEF CompleteWriteBack
<1>4. Safe(j)
  BY FinalizeEvictionSafe
<1>. HIDE DEF id, waiting, j
<1>5. Safe(k)
  <2>1. j \in Managers
    BY <1>4 DEF Safe
  <2>. QED BY <1>1, <1>4, <2>1, ForgetMigrationKeeps, KeepsFramesSafe
<1>. HIDE DEF k
<1>6. Safe(n)
  <2>1. k \in Managers
    BY <1>5 DEF Safe
  <2>. QED BY <1>2, <1>5, <2>1, FinishFaultsKeeps, KeepsFramesSafe
<1>. HIDE DEF n
<1>. QED BY <1>3, <1>6, ResumeWaitingSafe

-----------------------------------------------------------------------------
(* The service of a fault.                                                 *)

LEMMA ServiceFaultSafe ==
  ASSUME NEW m, Safe(m), NEW r \in Regions
  PROVE  Safe(ServiceFault(m, r))
<1>. DEFINE id  == CoveringMigration(m, r)
            sel == Selection(Resident(m), InFlight(m), r)
            n   == [m EXCEPT !.faults[r] = "Migrating", !.migrations[id].faults = @ \cup {r}]
<1>1. m \in Managers
  BY DEF Safe
<1>2. sel \in SUBSET Pages
  BY DEF Selection, NodePages
<1>3. ServiceFault(m, r) =
        IF id # None THEN n
        ELSE IF sel = {} THEN FinishFaults(m, {r}) ELSE WithCapacity(m, r, sel)
  BY DEF ServiceFault
<1>4. id \in MigrationIds \cup {None}
  BY CoveringType
<1>. HIDE DEF id, sel
<1>5. ASSUME id # None
      PROVE  Safe(n)
  <2>1. id \in MigrationIds
    BY <1>4, <1>5
  <2>2. KeepsFrames(m, n)
    BY <1>1, <2>1, JoinKeeps
  <2>. QED BY <2>2, KeepsFramesSafe
<1>6. Safe(FinishFaults(m, {r}))
  BY <1>1, FinishFaultsKeeps, KeepsFramesSafe
<1>. HIDE DEF n
<1>. QED BY <1>2, <1>3, <1>5, <1>6, WithCapacitySafe

-----------------------------------------------------------------------------
(* The entry points.                                                       *)

LEMMA InitSafe == Init => Safe(uvm)
<1>. SUFFICES ASSUME Init
              PROVE  Safe(uvm)
  OBVIOUS
<1>1. <<>> \in Seq(Regions) /\ <<>> \in Seq(Messages)
  OBVIOUS
<1>2. NoMigration \in Migration
  BY <1>1 DEF NoMigration, Migration
<1>. DEFINE i == [x \in MigrationIds |-> NoMigration]
<1>3. i \in [MigrationIds -> Migration]
  BY <1>2
<1>. DEFINE empty == <<>>
<1>4. empty \in Seq(Regions) /\ empty \in Seq(Messages)
  BY <1>1
<1>5. uvm.migrations = i /\ uvm.inUse = 0 /\ \A p \in Pages : ~uvm.frame[p]
  BY DEF Init
<1>6. uvm \in Managers
  <2>1. uvm = [state       |-> [p \in Pages |-> "CPUResident"],
               frame       |-> [p \in Pages |-> FALSE],
               remote      |-> [p \in Pages |-> Eager],
               pte         |-> [p \in Pages |-> IF Eager THEN "Remote" ELSE "Invalid"],
               migrationOf |-> [p \in Pages |-> None],
               phase       |-> [r \in Regions |-> "Idle"],
               regionMig   |-> [r \in Regions |-> None],
               claimed     |-> {},
               faults      |-> [r \in Regions |-> "None"],
               cue         |-> empty,
               active      |-> None,
               deferred    |-> {},
               migrations  |-> i,
               then        |-> [r \in Regions |-> None],
               lru         |-> empty,
               inUse       |-> 0,
               evicting    |-> 0,
               remoteMaps  |-> {},
               events      |-> {},
               controlOps  |-> {},
               sendQueue   |-> empty,
               resets      |-> empty]
    BY DEF Init
  <2>2. Eager \in BOOLEAN
    BY DEF Eager
  <2>. HIDE DEF i, empty
  <2>. QED BY <1>3, <1>4, <2>1, <2>2 DEF Managers
<1>7. Cardinality(Held(uvm)) = 0
  <2>1. Held(uvm) = {}
    BY <1>5 DEF Held
  <2>. QED BY <2>1, FS_EmptySet
<1>. QED BY <1>5, <1>6, <1>7, UVMAssumption DEF Safe, Accounted

LEMMA FaultStepsSafe ==
  ASSUME Safe(uvm)
  PROVE  /\ \A p \in Pages, isWrite \in BOOLEAN : PageFault(p, isWrite) => Safe(uvm')
         /\ \A r \in Regions : AccessCounterNotify(r) => Safe(uvm')
         /\ \A r \in Regions : FaultReady(r) => Safe(uvm')
         /\ \A r \in Regions : RemoteMapComplete(r) => Safe(uvm')
<1>. DEFINE m == uvm
<1>1. m \in Managers /\ KeepsFrames(m, m)
  BY DEF Safe, KeepsFrames
<1>2. \A r \in Regions : Safe(OpenFault(m, r))
  BY <1>1, OpenFaultKeeps, KeepsFramesSafe
<1>3. ASSUME NEW p \in Pages, NEW isWrite \in BOOLEAN, PageFault(p, isWrite)
      PROVE  Safe(uvm')
  <2>. DEFINE r == RegionOf(p)
              n == [m EXCEPT !.remoteMaps = @ \cup {r},
                             !.events = @ \cup {<<"RemoteMap", r>>}]
  <2>1. r \in Regions
    BY RegionType
  <2>2. uvm' = uvm \/ uvm' = n \/ uvm' = OpenFault(m, r)
    BY <1>3 DEF PageFault
  <2>. HIDE DEF r, m
  <2>3. <<"RemoteMap", r>> \in Events
    BY <2>1 DEF Events
  <2>4. KeepsFrames(m, n)
    BY <1>1, <2>1, <2>3, ZenonT(60) DEF KeepsFrames, Managers
  <2>5. Safe(m)
    BY DEF m
  <2>6. Safe(n)
    BY <2>4, <2>5, KeepsFramesSafe
  <2>. QED BY <1>2, <2>1, <2>2, <2>5, <2>6 DEF m
<1>4. ASSUME NEW r \in Regions, AccessCounterNotify(r)
      PROVE  Safe(uvm')
  BY <1>2, <1>4 DEF AccessCounterNotify
<1>5. ASSUME NEW r \in Regions, FaultReady(r)
      PROVE  Safe(uvm')
  <2>. DEFINE e == uvm.events \ {<<"FaultReady", r>>}
              n == [m EXCEPT !.events = e]
              k == [n EXCEPT !.faults[r] = "Handling", !.phase[r] = "FaultHandling"]
  <2>1. uvm' = n \/ uvm' = ParkFault(n, r) \/ uvm' = ServiceFault(k, r)
    BY <1>5 DEF FaultReady
  <2>2. e \subseteq Events
    BY <1>1 DEF Managers
  <2>. HIDE DEF e
  <2>3. KeepsFrames(m, n) /\ n \in Managers
    BY <1>1, <2>2 DEF KeepsFrames, Managers
  <2>4. Safe(n)
    BY <2>3, KeepsFramesSafe
  <2>. HIDE DEF n
  <2>5. KeepsFrames(n, k)
    BY <2>3 DEF KeepsFrames, Managers
  <2>6. Safe(k)
    BY <2>4, <2>5, KeepsFramesSafe
  <2>. HIDE DEF k
  <2>7. Safe(ParkFault(n, r)) /\ Safe(ServiceFault(k, r))
    BY <2>3, <2>4, <2>6, ParkFaultKeeps, KeepsFramesSafe, ServiceFaultSafe
  <2>. QED BY <2>1, <2>4, <2>7
<1>6. ASSUME NEW r \in Regions, RemoteMapComplete(r)
      PROVE  Safe(uvm')
  <2>. DEFINE cold == ColdPages(uvm, r)
              v == [p \in Pages |-> uvm.remote[p] \/ p \in cold]
              t == [p \in Pages |-> IF p \in cold THEN "Remote" ELSE uvm.pte[p]]
              n == [m EXCEPT !.events = @ \ {<<"RemoteMap", r>>},
                             !.remoteMaps = @ \ {r},
                             !.remote = v, !.pte = t]
  <2>1. uvm' = ReplayAll(n, <<r>>, FALSE)
    BY <1>6 DEF RemoteMapComplete
  <2>2. v \in [Pages -> BOOLEAN] /\ t \in [Pages -> {"Invalid", "Remote", "Migrating", "Local"}]
    BY <1>1 DEF Managers
  <2>. HIDE DEF v, t
  <2>3. KeepsFrames(m, n) /\ n \in Managers
    BY <1>1, <2>2 DEF KeepsFrames, Managers
  <2>4. Safe(n)
    BY <2>3, KeepsFramesSafe
  <2>5. <<r>> \in Seq(Regions)
    OBVIOUS
  <2>. HIDE DEF n
  <2>. QED BY <2>1, <2>3, <2>4, <2>5, ReplayAllKeeps, KeepsFramesSafe
<1>. QED BY <1>3, <1>4, <1>5, <1>6

LEMMA MigrationStepsSafe ==
  ASSUME Safe(uvm)
  PROVE  /\ \A id \in MigrationIds, p \in Pages : DMADone(id, p) => Safe(uvm')
         /\ \A id \in MigrationIds : MigrationComplete(id) => Safe(uvm')
<1>. DEFINE m == uvm
<1>1. m \in Managers
  BY DEF Safe
<1>2. ASSUME NEW id \in MigrationIds, NEW p \in Pages, DMADone(id, p)
      PROVE  Safe(uvm')
  <2>. DEFINE g == [uvm.migrations EXCEPT ![id].dma = @ \ {p}]
              e == IF uvm.migrations[id].dma = {p}
                   THEN uvm.events \cup {<<"MigrationComplete", id>>} ELSE uvm.events
              n == [m EXCEPT !.migrations = g, !.events = e]
  <2>1. uvm' = n
    BY <1>2 DEF DMADone
  <2>2. g \in [MigrationIds -> Migration] /\ e \subseteq Events
    <3>1. uvm.migrations \in [MigrationIds -> Migration] /\ uvm.events \subseteq Events
      BY <1>1 DEF Managers
    <3>2. g \in [MigrationIds -> Migration]
      BY <3>1 DEF Migration
    <3>3. <<"MigrationComplete", id>> \in Events
      BY DEF Events
    <3>. QED BY <3>1, <3>2, <3>3
  <2>. HIDE DEF g, e
  <2>3. KeepsFrames(m, n)
    BY <1>1, <2>2 DEF KeepsFrames, Managers
  <2>. QED BY <2>1, <2>3, KeepsFramesSafe
<1>3. ASSUME NEW id \in MigrationIds, MigrationComplete(id)
      PROVE  Safe(uvm')
  <2>. DEFINE e == uvm.events \ {<<"MigrationComplete", id>>}
              n == [m EXCEPT !.events = e]
  <2>1. uvm' = n \/ (id[1] = "admit" /\ uvm' = CompleteAdmission(n, id))
                 \/ (id[1] # "admit" /\ uvm' = CompleteWriteBack(n, id[2]))
    BY <1>3 DEF MigrationComplete
  <2>2. e \subseteq Events
    BY <1>1 DEF Managers
  <2>. HIDE DEF e
  <2>3. KeepsFrames(m, n)
    BY <1>1, <2>2 DEF KeepsFrames, Managers
  <2>4. Safe(n)
    BY <2>3, KeepsFramesSafe
  <2>5. id[2] \in Regions /\ (id[1] = "admit" => id \in {"admit"} \X Regions)
    BY DEF MigrationIds
  <2>. HIDE DEF n
  <2>. QED BY <2>1, <2>4, <2>5, CompleteAdmissionSafe, CompleteWriteBackSafe
<1>. QED BY <1>2, <1>3

LEMMA ControlStepsSafe ==
  ASSUME Safe(uvm)
  PROVE  /\ \A op \in ControlOps : ControlRsp(op) => Safe(uvm')
         /\ SendControl => Safe(uvm')
         /\ SendReset => Safe(uvm')
<1>. DEFINE m == uvm
<1>1. m \in Managers
  BY DEF Safe
<1>2. ASSUME NEW op \in ControlOps, ControlRsp(op)
      PROVE  Safe(uvm')
  <2>. DEFINE e == uvm.controlOps \ {op}
              n == [m EXCEPT !.controlOps = e]
              flush == Request(n, "CacheRangeFlush", <<op.region>>, EvictOf)
  <2>1. op.region \in Regions
    BY DEF ControlOps
  <2>2. \/ /\ op.for \in {"evict"} \X Regions
           /\ op.kind \in {"TLBInvalidate", "CacheRangeFlush"}
        \/ /\ op.for \in {"admit"} \X Regions
           /\ op.kind \in {"TLBInvalidate", "RemoteDrain"}
    BY DEF ControlOps
  <2>3. \/ uvm' = flush
        \/ uvm' = StartWriteBack(n, op.region)
        \/ op.for \in {"admit"} \X Regions /\ uvm' = DrainNext(n, op.for)
        \/ op.for \in {"admit"} \X Regions /\ uvm' = InvalidateNext(n, op.for)
    <3>. DEFINE a == op.for[1] = "evict" /\ op.kind = "TLBInvalidate"
                b == op.for[1] = "evict" /\ op.kind = "CacheRangeFlush"
                c == op.for[1] = "admit" /\ op.kind = "RemoteDrain"
                d == op.for[1] = "admit" /\ op.kind = "TLBInvalidate"
    <3>1. a \/ b \/ c \/ d
      BY <2>2
    <3>2. (c \/ d) => op.for \in {"admit"} \X Regions
      BY <2>2
    <3>3. uvm' = CASE a -> flush
                   [] b -> StartWriteBack(n, op.region)
                   [] c -> DrainNext(n, op.for)
                   [] d -> InvalidateNext(n, op.for)
      BY <1>2 DEF ControlRsp
    <3>. HIDE DEF a, b, c, d, flush, n
    <3>. QED BY <3>1, <3>2, <3>3
  <2>4. e \subseteq ControlOps
    BY <1>1 DEF Managers
  <2>. HIDE DEF e
  <2>5. KeepsFrames(m, n) /\ n \in Managers
    BY <1>1, <2>4 DEF KeepsFrames, Managers
  <2>6. Safe(n)
    BY <2>5, KeepsFramesSafe
  <2>. HIDE DEF n
  <2>7. Safe(flush)
    <3>1. \A r \in Regions :
            [kind |-> "CacheRangeFlush", region |-> r, for |-> EvictOf[r]] \in ControlOps
      BY DEF EvictOf, Evict, ControlOps
    <3>2. <<op.region>> \in Seq(Regions)
      BY <2>1
    <3>3. KeepsFrames(n, flush)
      BY <2>5, <3>1, <3>2, RequestKeeps
    <3>. QED BY <2>6, <3>3, KeepsFramesSafe
  <2>8. op.for \in {"admit"} \X Regions =>
          Safe(DrainNext(n, op.for)) /\ Safe(InvalidateNext(n, op.for))
    BY <2>5, <2>6, DrainNextKeeps, InvalidateNextKeeps, KeepsFramesSafe
  <2>9. Safe(StartWriteBack(n, op.region))
    BY <2>1, <2>6, StartWriteBackSafe
  <2>. HIDE DEF flush
  <2>. QED BY <2>3, <2>7, <2>8, <2>9
<1>3. ASSUME SendControl
      PROVE  Safe(uvm')
  <2>. DEFINE q == Tail(uvm.sendQueue)
  <2>1. q \in Seq(Messages)
    BY <1>1, <1>3 DEF SendControl, Managers
  <2>2. uvm' = [m EXCEPT !.sendQueue = q]
    BY <1>3 DEF SendControl
  <2>. HIDE DEF q
  <2>3. KeepsFrames(m, [m EXCEPT !.sendQueue = q])
    BY <1>1, <2>1 DEF KeepsFrames, Managers
  <2>. QED BY <2>2, <2>3, KeepsFramesSafe
<1>4. ASSUME SendReset
      PROVE  Safe(uvm')
  <2>. DEFINE q == Tail(uvm.resets)
  <2>1. q \in Seq(Regions)
    BY <1>1, <1>4 DEF SendReset, Managers
  <2>2. uvm' = [m EXCEPT !.resets = q]
    BY <1>4 DEF SendReset
  <2>. HIDE DEF q
  <2>3. KeepsFrames(m, [m EXCEPT !.resets = q])
    BY <1>1, <2>1 DEF KeepsFrames, Managers
  <2>. QED BY <2>2, <2>3, KeepsFramesSafe
<1>. QED BY <1>2, <1>3, <1>4

-----------------------------------------------------------------------------
(* The theorems.                                                           *)

(* Safe(uvm) is inductive: Init establishes it and every step keeps it. *)
LEMMA SafeAlways == Spec => [](Safe(uvm))
<1>1. Init => Safe(uvm)
  BY InitSafe
<1>2. Safe(uvm) /\ [Next]_uvm => Safe(uvm)'
  <2>. SUFFICES ASSUME Safe(uvm), [Next]_uvm
                PROVE  Safe(uvm')
    OBVIOUS
  <2>1. CASE UNCHANGED uvm
    BY <2>1
  <2>2. CASE Next
    BY <2>2, FaultStepsSafe, MigrationStepsSafe, ControlStepsSafe DEF Next
  <2>. QED BY <2>1, <2>2
<1>. QED BY <1>1, <1>2, PTL DEF Spec

(* Type correctness: in every reachable state each field of the manager,   *)
(* with its queues of messages, regions and waiting admissions, is of its  *)
(* type (struct UVMManager, uvm_manager.go).                               *)
THEOREM TypeCorrect == Spec => []TypeOK
<1>1. Safe(uvm) => TypeOK
  BY DEF Safe, TypeOK
<1>. QED BY <1>1, SafeAlways, PTL

(* The frame budget: for any memory, any region size and any number of     *)
(* frames, inUse is the number of frames UVM holds and never exceeds the   *)
(* capacity or what the allocator has, whatever evictions, admissions and  *)
(* resumed services are under way (admitPageToMigration,                   *)
(* releaseEvictedPages).                                                   *)
THEOREM FrameBudget == Spec => []FramesAccounted
<1>1. Safe(uvm) => FramesAccounted
  BY DEF Safe, Accounted, Held, FramesAccounted
<1>. QED BY <1>1, SafeAlways, PTL
-----------------------------------------------------------------------------
(* The fault service: its queue, its single slot, and what passes between  *)
(* them.                                                                   *)

(* An admission does not wait for the eviction of a page it is to admit. *)
Apart(v, wait) == \A k \in {v} \cup Elements(wait.rest) : PagesOf(k) \cap wait.pages = {}

(* Who has the service slot.  The event that starts a service, the         *)
(* admission of pages and the admission that waits for victims all belong  *)
(* to the active transaction, and each says how far it has come.           *)
Slot(m) ==
  /\ \A r \in Regions : m.faults[r] \in {"Handling", "Migrating"} => m.active = r
  /\ \A r \in Regions :
       <<"FaultReady", r>> \in m.events => m.active = r /\ m.faults[r] = "Pending"
  /\ \A r \in Regions :
       m.migrations[Admit(r)] # NoMigration =>
         m.faults[r] = "Migrating" /\ m.migrations[Admit(r)].faults = {r}
  /\ \A r \in Regions : m.migrations[Evict(r)].faults = {}
  /\ \A v \in Regions :
       m.then[v] # None => m.faults[m.then[v].txn] = "Handling" /\ Apart(v, m.then[v])
  /\ \A v, w \in Regions : m.then[v] # None /\ m.then[w] # None => v = w

One(b) == IF b THEN 1 ELSE 0

(* A live transaction has the slot, is parked or is in the queue, once. *)
Queued(m) ==
  \A r \in Regions :
    One(m.active = r) + One(r \in m.deferred) + Times(m.cue, r) = One(m.faults[r] # "None")

Served(m) == m \in Managers /\ Slot(m) /\ Queued(m)

(* The active transaction r has nothing left that waits for it. *)
Closing(m, r) ==
  /\ Served(m)
  /\ m.faults[r] \in {"Handling", "Migrating"}
  /\ \A s \in Regions : m.migrations[Admit(s)] = NoMigration
  /\ \A v \in Regions : m.then[v] = None

-----------------------------------------------------------------------------
(* What a method leaves alone.                                             *)

SameQueue(m, n) ==
  /\ n.faults = m.faults /\ n.cue = m.cue /\ n.active = m.active /\ n.deferred = m.deferred
  /\ \A r \in Regions : <<"FaultReady", r>> \in n.events <=> <<"FaultReady", r>> \in m.events

SameWork(m, n) ==
  /\ n.migrations = m.migrations /\ n.controlOps = m.controlOps /\ n.then = m.then
  /\ \A id \in MigrationIds :
       <<"MigrationComplete", id>> \in n.events <=> <<"MigrationComplete", id>> \in m.events

SameData(m, n) ==
  /\ n.state = m.state /\ n.frame = m.frame /\ n.remote = m.remote /\ n.pte = m.pte
  /\ n.evicting = m.evicting /\ n.lru = m.lru

Quiet(m, n) ==
  /\ n \in Managers
  /\ SameQueue(m, n) /\ SameWork(m, n) /\ SameData(m, n) /\ n.phase = m.phase

LEMMA QuietTwice ==
  ASSUME NEW m, NEW k, NEW n, Quiet(m, k), Quiet(k, n)
  PROVE  Quiet(m, n)
BY DEF Quiet, SameQueue, SameWork, SameData

(* The two directions of a migration. *)
LEMMA IdTypes ==
  /\ None \notin Regions /\ None \notin Nat
  /\ \A r \in Regions : Admit(r) \in MigrationIds /\ Evict(r) \in MigrationIds
  /\ \A r, s \in Regions : Admit(r) # Evict(s) /\ (Admit(r) = Admit(s) => r = s)
                                               /\ (Evict(r) = Evict(s) => r = s)
  /\ \A id \in MigrationIds : (\E r \in Regions : id = Admit(r)) \/ (\E r \in Regions : id = Evict(r))
  /\ \A id \in MigrationIds : id[2] \in Regions
                                /\ (id[1] = "admit" => id = Admit(id[2]))
                                /\ (id[1] # "admit" => id = Evict(id[2]))
<1>1. None \notin Regions /\ None \notin Nat
  BY RegionType, UVMAssumption
<1>2. \A r \in Regions : Admit(r) \in MigrationIds /\ Evict(r) \in MigrationIds
  BY DEF Admit, Evict, MigrationIds
<1>3. \A r, s \in Regions : Admit(r) # Evict(s) /\ (Admit(r) = Admit(s) => r = s)
                                               /\ (Evict(r) = Evict(s) => r = s)
  BY DEF Admit, Evict
<1>4. \A id \in MigrationIds : id[2] \in Regions
                                /\ (id[1] = "admit" => id = Admit(id[2]))
                                /\ (id[1] # "admit" => id = Evict(id[2]))
  BY DEF Admit, Evict, MigrationIds
<1>. QED BY <1>1, <1>2, <1>3, <1>4

LEMMA SendQuiet ==
  ASSUME NEW m \in Managers, NEW msgs \in Seq(Messages)
  PROVE  Quiet(m, Send(m, msgs))
<1>1. Send(m, msgs) \in Managers
  BY SendKeeps DEF KeepsFrames
<1>. DEFINE q == m.sendQueue \o msgs
<1>2. Send(m, msgs) = [m EXCEPT !.sendQueue = q]
  BY DEF Send
<1>. HIDE DEF q
<1>3. \A n : n = [m EXCEPT !.sendQueue = q] =>
        SameQueue(m, n) /\ SameWork(m, n) /\ SameData(m, n) /\ n.phase = m.phase
  BY DEF SameQueue, SameWork, SameData, Managers
<1>. QED BY <1>1, <1>2, <1>3 DEF Quiet

LEMMA ReplayAllQuiet ==
  ASSUME NEW m \in Managers, NEW rs \in Seq(Regions), NEW refused \in BOOLEAN
  PROVE  Quiet(m, ReplayAll(m, rs, refused))
<1>. DEFINE msgs == [i \in 1..Len(rs) |->
                       [kind |-> "FaultReplay", region |-> rs[i], refused |-> refused]]
<1>1. Len(rs) \in Nat /\ \A i \in 1..Len(rs) : rs[i] \in Regions
  OBVIOUS
<1>2. \A i \in 1..Len(rs) : msgs[i] \in Messages
  BY <1>1 DEF Messages, Replays
<1>3. msgs \in Seq(Messages)
  BY <1>1, <1>2
<1>. QED BY <1>3, SendQuiet DEF ReplayAll

LEMMA QueueResetsQuiet ==
  ASSUME NEW m \in Managers, NEW rs \in Seq(Regions)
  PROVE  Quiet(m, QueueResets(m, rs))
<1>1. QueueResets(m, rs) \in Managers
  BY QueueResetsKeeps DEF KeepsFrames
<1>. DEFINE q == m.resets \o Keep(rs, Regions \ Elements(m.resets))
<1>2. QueueResets(m, rs) = IF AccessCounterEnabled THEN [m EXCEPT !.resets = q] ELSE m
  BY DEF QueueResets
<1>. HIDE DEF q
<1>3. \A n : n = [m EXCEPT !.resets = q] =>
        SameQueue(m, n) /\ SameWork(m, n) /\ SameData(m, n) /\ n.phase = m.phase
  BY DEF SameQueue, SameWork, SameData, Managers
<1>4. SameQueue(m, m) /\ SameWork(m, m) /\ SameData(m, m)
  BY DEF SameQueue, SameWork, SameData
<1>. QED BY <1>1, <1>2, <1>3, <1>4 DEF Quiet

Operation(kind, r, id) == [kind |-> kind, region |-> r, for |-> id]

(* From m to n, the regions rs got an operation each, which resumes for[r]. *)
Requested(m, n, kind, rs, for) ==
  /\ n \in Managers
  /\ SameQueue(m, n) /\ SameData(m, n) /\ n.phase = m.phase
  /\ n.migrations = m.migrations /\ n.then = m.then
  /\ \A id \in MigrationIds :
       <<"MigrationComplete", id>> \in n.events <=> <<"MigrationComplete", id>> \in m.events
  /\ \A op : op \in n.controlOps <=>
       \/ op \in m.controlOps
       \/ \E r \in Elements(rs) : op = Operation(kind, r, for[r])

(* A control operation is recorded and sent. *)
LEMMA RequestEffect ==
  ASSUME NEW m \in Managers, NEW kind, NEW rs \in Seq(Regions), NEW for,
         \A r \in Regions : Operation(kind, r, for[r]) \in ControlOps
  PROVE  Requested(m, Request(m, kind, rs, for), kind, rs, for)
<1>. DEFINE op(r) == [kind |-> kind, region |-> r, for |-> for[r]]
            ops == m.controlOps \cup {op(r) : r \in Elements(rs)}
            n == [m EXCEPT !.controlOps = ops]
            msgs == [i \in 1..Len(rs) |-> op(rs[i])]
<1>1. Len(rs) \in Nat /\ \A i \in 1..Len(rs) : rs[i] \in Regions
  OBVIOUS
<1>2. m.controlOps \subseteq ControlOps
  BY DEF Managers
<1>3. \A r \in Elements(rs) : op(r) \in ControlOps
  BY <1>1 DEF Elements, Operation
<1>4. ops \subseteq ControlOps
  BY <1>2, <1>3
<1>5. \A i \in 1..Len(rs) : msgs[i] \in Messages
  BY <1>1 DEF Messages, Operation
<1>6. msgs \in Seq(Messages)
  BY <1>1, <1>5
<1>7. Request(m, kind, rs, for) = Send(n, msgs)
  BY DEF Request
<1>. HIDE DEF ops, msgs
<1>8. /\ n \in Managers /\ n.controlOps = ops
      /\ SameQueue(m, n) /\ SameData(m, n) /\ n.phase = m.phase
      /\ n.migrations = m.migrations /\ n.then = m.then /\ n.events = m.events
  BY <1>4 DEF Managers, SameQueue, SameData
<1>. HIDE DEF n
<1>9. Quiet(n, Send(n, msgs))
  BY <1>6, <1>8, SendQuiet
<1>10. \A o : o \in ops <=>
         \/ o \in m.controlOps
         \/ \E r \in Elements(rs) : o = Operation(kind, r, for[r])
  BY DEF ops, Operation
<1>. DEFINE l == Send(n, msgs)
<1>11. Quiet(n, l)
  BY <1>9
<1>. HIDE DEF l
<1>12. \A o : o \in l.controlOps <=>
         \/ o \in m.controlOps
         \/ \E r \in Elements(rs) : o = Operation(kind, r, for[r])
  BY <1>8, <1>10, <1>11 DEF Quiet, SameWork
<1>13. Requested(m, l, kind, rs, for)
  BY <1>8, <1>11, <1>12 DEF Requested, Quiet, SameQueue, SameWork, SameData
<1>. QED BY <1>7, <1>13 DEF l

-----------------------------------------------------------------------------
(* The queue and the slot.                                                 *)

LEMMA StartNextEffect ==
  ASSUME NEW m \in Managers
  PROVE  LET n == StartNext(m)
             r == Head(m.cue)
         IN  /\ n \in Managers
             /\ SameWork(m, n) /\ SameData(m, n)
             /\ n.faults = m.faults /\ n.deferred = m.deferred
             /\ m.active # None \/ m.cue = <<>> => n = m
             /\ m.active = None /\ m.cue # <<>> =>
                  /\ r \in Regions /\ n.active = r /\ n.cue = Tail(m.cue)
                  /\ \A k \in Regions :
                       <<"FaultReady", k>> \in n.events <=> k = r \/ <<"FaultReady", k>> \in m.events
                  /\ \A k \in Regions :
                       n.phase[k] = IF k = r /\ m.phase[k] # "Evicting"
                                    THEN "FaultPending" ELSE m.phase[k]
<1>1. StartNext(m) \in Managers
  BY StartNextKeeps DEF KeepsFrames
<1>2. CASE m.active # None \/ m.cue = <<>>
  BY <1>1, <1>2 DEF StartNext, SameWork, SameData
<1>3. CASE m.active = None /\ m.cue # <<>>
  <2>. DEFINE r == Head(m.cue)
              e == m.events \cup {<<"FaultReady", r>>}
              h == [m.phase EXCEPT ![r] = IF @ = "Evicting" THEN @ ELSE "FaultPending"]
              n == [m EXCEPT !.active = r, !.cue = Tail(@), !.claimed = @ \cup {r},
                             !.phase = h, !.events = e]
  <2>1. m.cue \in Seq(Regions) /\ m.cue # <<>>
    BY <1>3 DEF Managers
  <2>2. r \in Regions
    BY <2>1
  <2>3. StartNext(m) = n
    BY <1>3 DEF StartNext
  <2>4. /\ n.active = r /\ n.cue = Tail(m.cue) /\ n.phase = h /\ n.events = e
        /\ n.faults = m.faults /\ n.deferred = m.deferred
        /\ n.migrations = m.migrations /\ n.controlOps = m.controlOps /\ n.then = m.then
        /\ SameData(m, n)
    <3>. HIDE DEF r, h, e
    <3>. QED BY DEF Managers, SameData
  <2>5. \A k \in Regions :
          h[k] = IF k = r /\ m.phase[k] # "Evicting" THEN "FaultPending" ELSE m.phase[k]
    BY <2>2 DEF Managers
  <2>6. /\ \A k \in Regions : <<"FaultReady", k>> \in e <=> k = r \/ <<"FaultReady", k>> \in m.events
        /\ \A id \in MigrationIds :
              <<"MigrationComplete", id>> \in e <=> <<"MigrationComplete", id>> \in m.events
    OBVIOUS
  <2>. HIDE DEF h, e, n
  <2>7. SameWork(m, n)
    BY <2>4, <2>6 DEF SameWork
  <2>. QED BY <1>1, <1>3, <2>2, <2>3, <2>4, <2>5, <2>6, <2>7
<1>. QED BY <1>2, <1>3

LEMMA StartNextServed ==
  ASSUME NEW m, Served(m)
  PROVE  Served(StartNext(m))
<1>. DEFINE n == StartNext(m)
            r == Head(m.cue)
<1>1. m \in Managers /\ Slot(m) /\ Queued(m) /\ n \in Managers
  BY StartNextEffect DEF Served
<1>2. CASE m.active # None \/ m.cue = <<>>
  BY <1>1, <1>2, StartNextEffect DEF Served
<1>3. CASE m.active = None /\ m.cue # <<>>
  <2>1. /\ r \in Regions /\ n.active = r /\ n.cue = Tail(m.cue)
        /\ \A k \in Regions :
             <<"FaultReady", k>> \in n.events <=> k = r \/ <<"FaultReady", k>> \in m.events
        /\ n.faults = m.faults /\ n.deferred = m.deferred
        /\ n.migrations = m.migrations /\ n.then = m.then
    BY <1>1, <1>3, StartNextEffect DEF SameWork
  <2>2. m.cue \in Seq(Regions)
    BY <1>1 DEF Managers
  <2>3. \A k \in Regions : /\ Times(m.cue, k) = Times(n.cue, k) + One(r = k)
                           /\ Times(n.cue, k) \in Nat
    BY <1>3, <2>1, <2>2, TimesTail, TimesType DEF One
  <2>. HIDE DEF n, r
  <2>4. \A k \in Regions : m.faults[k] \notin {"Handling", "Migrating"} /\ k # None
    BY <1>1, <1>3, IdTypes DEF Slot
  <2>5. m.faults[r] = "Pending"
    <3>1. m.faults[r] # "None"
      BY <1>1, <2>1, <2>3 DEF Queued, One
    <3>. QED BY <1>1, <2>1, <2>4, <3>1 DEF Managers
  <2>6. Queued(n)
    BY <1>1, <1>3, <2>1, <2>3, <2>4 DEF Queued, One
  <2>7. Slot(n)
    BY <1>1, <1>3, <2>1, <2>4, <2>5 DEF Slot
  <2>. QED BY <1>1, <2>6, <2>7 DEF Served, n
<1>. QED BY <1>2, <1>3

LEMMA UnclaimEffect ==
  ASSUME NEW m \in Managers, NEW S \in SUBSET Regions
  PROVE  LET n == Unclaim(m, S)
         IN  /\ n \in Managers /\ SameQueue(m, n) /\ SameWork(m, n) /\ SameData(m, n)
             /\ \A k \in Regions : n.phase[k] # m.phase[k] =>
                  k \in S /\ m.phase[k] # "Evicting" /\ n.phase[k] = "Idle"
<1>. DEFINE h == [k \in Regions |-> IF k \in S \cap m.claimed /\ m.phase[k] # "Evicting"
                                   THEN "Idle" ELSE m.phase[k]]
<1>1. Unclaim(m, S) \in Managers
  BY UnclaimKeeps DEF KeepsFrames
<1>2. Unclaim(m, S) = [m EXCEPT !.claimed = @ \ S, !.phase = h]
  BY DEF Unclaim
<1>3. \A k \in Regions : h[k] # m.phase[k] =>
        k \in S /\ m.phase[k] # "Evicting" /\ h[k] = "Idle"
  OBVIOUS
<1>. HIDE DEF h
<1>4. \A n : n = [m EXCEPT !.claimed = @ \ S, !.phase = h] =>
        SameQueue(m, n) /\ SameWork(m, n) /\ SameData(m, n) /\ n.phase = h
  BY DEF SameQueue, SameWork, SameData, Managers
<1>. QED BY <1>1, <1>2, <1>3, <1>4

(* A method that moves no transaction and opens no admission. *)
LEMMA ServedKept ==
  ASSUME NEW m, Served(m), NEW n \in Managers, SameQueue(m, n),
         \A v \in Regions : n.then[v] = m.then[v] \/ n.then[v] = None,
         \A id \in MigrationIds : n.migrations[id].faults = m.migrations[id].faults,
         \A r \in Regions : n.migrations[Admit(r)] # NoMigration =>
                              m.migrations[Admit(r)] # NoMigration
  PROVE  Served(n)
<1>1. Slot(n)
  BY IdTypes DEF Served, Slot, SameQueue
<1>2. Queued(n)
  BY DEF Served, Queued, SameQueue
<1>. QED BY <1>1, <1>2 DEF Served

LEMMA QuietServed ==
  ASSUME NEW m, Served(m), NEW n, Quiet(m, n)
  PROVE  Served(n)
BY ServedKept DEF Quiet, SameWork

(* Nothing is retired. *)
LEMMA RetireNone ==
  ASSUME NEW m \in Managers
  PROVE  LET n == RetireFaults(m, {})
         IN  /\ n \in Managers /\ SameQueue(m, n) /\ SameWork(m, n) /\ SameData(m, n)
             /\ \A k \in Regions : n.phase[k] = m.phase[k]
<1>. DEFINE k == Unclaim(m, {})
            f == [r \in Regions |-> IF r \in {} THEN "None" ELSE k.faults[r]]
            n == [k EXCEPT !.faults = f]
<1>1. /\ k \in Managers /\ SameQueue(m, k) /\ SameWork(m, k) /\ SameData(m, k)
      /\ \A r \in Regions : k.phase[r] = m.phase[r]
  BY UnclaimEffect
<1>2. RetireFaults(m, {}) = n
  BY DEF RetireFaults, FreeSlot
<1>. HIDE DEF k
<1>3. f = k.faults
  BY <1>1 DEF Managers
<1>. HIDE DEF f
<1>4. n = k
  BY <1>1, <1>3 DEF Managers
<1>. QED BY <1>1, <1>2, <1>4

(* From m to l, the active transaction r is over and the slot is free. *)
Freed(m, l, r) ==
  /\ l \in Managers /\ SameWork(m, l) /\ SameData(m, l)
  /\ l.active = None /\ l.cue = m.cue /\ l.deferred = m.deferred
  /\ \A s \in Regions : l.faults[s] = IF s = r THEN "None" ELSE m.faults[s]
  /\ \A s \in Regions : l.phase[s] # m.phase[s] => m.phase[s] # "Evicting" /\ l.phase[s] = "Idle"
                                                   /\ s = r
  /\ \A s \in Regions : <<"FaultReady", s>> \in l.events <=> <<"FaultReady", s>> \in m.events

LEMMA RetireActiveEffect ==
  ASSUME NEW m \in Managers, NEW r \in Regions, m.active = r
  PROVE  \E l : Freed(m, l, r) /\ RetireFaults(m, {r}) = StartNext(l)
<1>. DEFINE k == Unclaim(m, {r})
            f == [s \in Regions |-> IF s \in {r} THEN "None" ELSE k.faults[s]]
            n == [k EXCEPT !.faults = f]
            l == [n EXCEPT !.active = None]
<1>1. /\ k \in Managers /\ SameQueue(m, k) /\ SameWork(m, k) /\ SameData(m, k)
      /\ \A s \in Regions : k.phase[s] # m.phase[s] =>
           s \in {r} /\ m.phase[s] # "Evicting" /\ k.phase[s] = "Idle"
  BY UnclaimEffect
<1>2. RetireFaults(m, {r}) = FreeSlot(n, {r})
  BY DEF RetireFaults
<1>. HIDE DEF k
<1>3. f \in [Regions -> {"None", "Pending", "Handling", "Migrating"}]
  BY <1>1 DEF Managers
<1>4. \A s \in Regions : f[s] = IF s = r THEN "None" ELSE m.faults[s]
  BY <1>1 DEF SameQueue
<1>. HIDE DEF f
<1>5. /\ n \in Managers /\ n.active = r /\ l \in Managers
      /\ l.faults = f /\ l.active = None /\ l.cue = k.cue /\ l.deferred = k.deferred
      /\ SameWork(k, l) /\ SameData(k, l) /\ l.phase = k.phase /\ l.events = k.events
  BY <1>1, <1>3 DEF Managers, SameQueue, SameWork, SameData
<1>6. FreeSlot(n, {r}) = StartNext(l)
  BY <1>5 DEF FreeSlot
<1>. HIDE DEF l, n
<1>7. Freed(m, l, r)
  BY <1>1, <1>4, <1>5 DEF Freed, SameQueue, SameWork, SameData
<1>. QED BY <1>2, <1>6, <1>7

LEMMA FreedServed ==
  ASSUME NEW m, NEW r \in Regions, Closing(m, r), NEW l, Freed(m, l, r)
  PROVE  Served(l)
<1>1. m \in Managers /\ Slot(m) /\ Queued(m) /\ m.active = r
  BY DEF Closing, Served, Slot
<1>2. Slot(l)
  BY <1>1, IdTypes DEF Slot, Closing, Freed, SameWork
<1>3. Queued(l)
  <2>. SUFFICES ASSUME NEW s \in Regions
                PROVE  One(l.active = s) + One(s \in l.deferred) + Times(l.cue, s)
                         = One(l.faults[s] # "None")
    BY DEF Queued
  <2>1. One(m.active = s) + One(s \in m.deferred) + Times(m.cue, s) = One(m.faults[s] # "None")
    BY <1>1 DEF Queued
  <2>2. Times(m.cue, s) \in Nat /\ s # None
    BY <1>1, TimesType, IdTypes DEF Managers
  <2>3. m.faults[r] # "None"
    BY DEF Closing
  <2>4. CASE s = r
    BY <1>1, <2>1, <2>2, <2>3, <2>4 DEF One, Freed
  <2>5. CASE s # r
    BY <1>1, <2>1, <2>2, <2>5 DEF One, Freed
  <2>. QED BY <2>4, <2>5
<1>. QED BY <1>2, <1>3 DEF Served, Freed

(* The active transaction is retired and the next one starts. *)
LEMMA RetireActive ==
  ASSUME NEW m, NEW r \in Regions, Closing(m, r)
  PROVE  Served(RetireFaults(m, {r}))
<1>1. m \in Managers /\ m.active = r
  BY DEF Closing, Served, Slot
<1>. QED BY <1>1, RetireActiveEffect, FreedServed, StartNextServed

LEMMA FinishFaultsServed ==
  ASSUME NEW m, NEW r \in Regions, Closing(m, r)
  PROVE  Served(FinishFaults(m, {r}))
<1>. DEFINE k == ReplayAll(m, Ascending({r}), FALSE)
<1>1. Quiet(m, k)
  BY RegionList, ReplayAllQuiet DEF Closing, Served
<1>2. FinishFaults(m, {r}) = RetireFaults(k, {r})
  BY DEF FinishFaults
<1>. HIDE DEF k
<1>3. Closing(k, r)
  BY <1>1, QuietServed DEF Closing, Quiet, SameQueue, SameWork
<1>. QED BY <1>2, <1>3, RetireActive

(* From m to l, the active transaction r waits outside the queue. *)
Shelved(m, l, r) ==
  /\ l \in Managers /\ SameWork(m, l) /\ SameData(m, l)
  /\ l.active = None /\ l.cue = m.cue /\ l.deferred = m.deferred \cup {r} /\ l.faults = m.faults
  /\ \A s \in Regions : l.phase[s] # m.phase[s] => m.phase[s] # "Evicting" /\ l.phase[s] = "Idle"
                                                   /\ s = r
  /\ \A s \in Regions : <<"FaultReady", s>> \in l.events <=> <<"FaultReady", s>> \in m.events

LEMMA ParkFaultEffect ==
  ASSUME NEW m \in Managers, NEW r \in Regions, m.active = r, m.faults[r] = "Pending"
  PROVE  \E l : Shelved(m, l, r) /\ ParkFault(m, r) = StartNext(l)
<1>. DEFINE f == [m.faults EXCEPT ![r] = "Pending"]
            k == [m EXCEPT !.faults = f, !.deferred = @ \cup {r}]
            u == Unclaim(k, {r})
            l == [u EXCEPT !.active = None]
<1>1. f = m.faults
  BY DEF Managers
<1>2. ParkFault(m, r) = FreeSlot(u, {r})
  BY DEF ParkFault
<1>. HIDE DEF f
<1>3. /\ k \in Managers /\ SameWork(m, k) /\ SameData(m, k) /\ k.phase = m.phase
      /\ k.faults = m.faults /\ k.active = r /\ k.cue = m.cue
      /\ k.deferred = m.deferred \cup {r} /\ k.events = m.events
  BY <1>1, ZenonT(60) DEF Managers, SameWork, SameData
<1>. HIDE DEF k
<1>4. /\ u \in Managers /\ SameQueue(k, u) /\ SameWork(k, u) /\ SameData(k, u)
      /\ \A s \in Regions : u.phase[s] # k.phase[s] =>
           s \in {r} /\ k.phase[s] # "Evicting" /\ u.phase[s] = "Idle"
  BY <1>3, UnclaimEffect
<1>. HIDE DEF u
<1>5. /\ l \in Managers /\ l.active = None /\ l.faults = u.faults /\ l.cue = u.cue
      /\ l.deferred = u.deferred /\ SameWork(u, l) /\ SameData(u, l) /\ l.phase = u.phase
      /\ l.events = u.events
  BY <1>4 DEF Managers, SameWork, SameData
<1>6. FreeSlot(u, {r}) = StartNext(l)
  BY <1>3, <1>4 DEF FreeSlot, SameQueue
<1>. HIDE DEF l
<1>7. Shelved(m, l, r)
  BY <1>3, <1>4, <1>5 DEF Shelved, SameQueue, SameWork, SameData
<1>. QED BY <1>2, <1>6, <1>7

LEMMA ShelvedServed ==
  ASSUME NEW m, Served(m), NEW r \in Regions,
         m.active = r, m.faults[r] = "Pending", <<"FaultReady", r>> \notin m.events,
         NEW l, Shelved(m, l, r)
  PROVE  Served(l)
<1>1. m \in Managers /\ Slot(m) /\ Queued(m)
  BY DEF Served
<1>2. Slot(l)
  BY <1>1, IdTypes DEF Slot, Shelved, SameWork
<1>3. Queued(l)
  <2>. SUFFICES ASSUME NEW s \in Regions
                PROVE  One(l.active = s) + One(s \in l.deferred) + Times(l.cue, s)
                         = One(l.faults[s] # "None")
    BY DEF Queued
  <2>1. One(m.active = s) + One(s \in m.deferred) + Times(m.cue, s) = One(m.faults[s] # "None")
    BY <1>1 DEF Queued
  <2>2. Times(m.cue, s) \in Nat /\ s # None
    BY <1>1, TimesType, IdTypes DEF Managers
  <2>3. CASE s = r
    BY <1>1, <2>1, <2>2, <2>3 DEF One, Shelved
  <2>4. CASE s # r
    BY <1>1, <2>1, <2>2, <2>4 DEF One, Shelved
  <2>. QED BY <2>3, <2>4
<1>. QED BY <1>2, <1>3 DEF Served, Shelved

(* A fault that finds its region being evicted waits outside the queue. *)
LEMMA ParkFaultServed ==
  ASSUME NEW m, Served(m), NEW r \in Regions,
         m.active = r, m.faults[r] = "Pending", <<"FaultReady", r>> \notin m.events
  PROVE  Served(ParkFault(m, r))
<1>1. m \in Managers
  BY DEF Served
<1>. QED BY <1>1, ParkFaultEffect, ShelvedServed, StartNextServed

(* From m to k, transaction r enters the queue: a new one, or one that was *)
(* parked.                                                                 *)
Entered(m, k, r) ==
  /\ k \in Managers /\ SameWork(m, k) /\ SameData(m, k) /\ k.phase = m.phase
  /\ \A s \in Regions : <<"FaultReady", s>> \in k.events <=> <<"FaultReady", s>> \in m.events
  /\ k.cue = Append(m.cue, r) /\ k.active = m.active
  /\ \/ r \in m.deferred /\ k.deferred = m.deferred \ {r} /\ k.faults = m.faults
     \/ /\ m.faults[r] = "None" /\ k.deferred = m.deferred
        /\ k.faults = [m.faults EXCEPT ![r] = "Pending"]

LEMMA EnteredServed ==
  ASSUME NEW m, Served(m), NEW r \in Regions, NEW k, Entered(m, k, r)
  PROVE  Served(k)
<1>1. m \in Managers /\ Slot(m) /\ Queued(m)
  BY DEF Served
<1>2. Queued(k)
  <2>. SUFFICES ASSUME NEW s \in Regions
                PROVE  One(k.active = s) + One(s \in k.deferred) + Times(k.cue, s)
                         = One(k.faults[s] # "None")
    BY DEF Queued
  <2>1. One(m.active = s) + One(s \in m.deferred) + Times(m.cue, s) = One(m.faults[s] # "None")
    BY <1>1 DEF Queued
  <2>2. Times(m.cue, s) \in Nat /\ Times(k.cue, s) = Times(m.cue, s) + One(r = s)
    BY <1>1, TimesType, TimesAppend DEF Managers, One, Entered
  <2>3. m.faults \in [Regions -> {"None", "Pending", "Handling", "Migrating"}]
    BY <1>1 DEF Managers
  <2>4. CASE s = r
    <3>1. k.active = m.active
      BY DEF Entered
    <3>2. \/ r \in m.deferred /\ r \notin k.deferred /\ k.faults[r] = m.faults[r]
          \/ /\ m.faults[r] = "None" /\ k.faults[r] = "Pending"
             /\ (r \in k.deferred <=> r \in m.deferred)
      BY <2>3 DEF Entered
    <3>3. Times(k.cue, r) = Times(m.cue, r) + 1
      BY <2>2, <2>4 DEF One
    <3>. QED BY <2>1, <2>2, <2>4, <3>1, <3>2, <3>3 DEF One
  <2>5. CASE s # r
    <3>1. k.faults[s] = m.faults[s] /\ (s \in k.deferred <=> s \in m.deferred)
      BY <2>3, <2>5 DEF Entered
    <3>. QED BY <2>1, <2>2, <2>5, <3>1 DEF One, Entered
  <2>. QED BY <2>4, <2>5
<1>3. Slot(k)
  <2>1. \A s \in Regions : k.faults[s] = m.faults[s]
                          \/ (m.faults[s] = "None" /\ k.faults[s] = "Pending")
    BY <1>1 DEF Managers, Entered
  <2>2. \A v \in Regions : m.then[v] # None => m.then[v].txn \in Regions
    BY <1>1 DEF Managers, Waiting
  <2>3. /\ \A s \in Regions : k.faults[s] \in {"Handling", "Migrating"} => k.active = s
        /\ \A s \in Regions :
              <<"FaultReady", s>> \in k.events => k.active = s /\ k.faults[s] = "Pending"
    BY <1>1, <2>1 DEF Slot, Entered
  <2>4. /\ \A s \in Regions :
             k.migrations[Admit(s)] # NoMigration =>
               k.faults[s] = "Migrating" /\ k.migrations[Admit(s)].faults = {s}
        /\ \A s \in Regions : k.migrations[Evict(s)].faults = {}
    BY <1>1, <2>1 DEF Slot, SameWork, Entered
  <2>5. /\ \A v \in Regions :
             k.then[v] # None => k.faults[k.then[v].txn] = "Handling" /\ Apart(v, k.then[v])
        /\ \A v, w \in Regions : k.then[v] # None /\ k.then[w] # None => v = w
    BY <1>1, <2>1, <2>2 DEF Slot, SameWork, Entered
  <2>. QED BY <2>3, <2>4, <2>5 DEF Slot
<1>. QED BY <1>2, <1>3 DEF Served, Entered

LEMMA ResumeDeferredEffect ==
  ASSUME NEW m \in Managers, NEW r \in Regions
  PROVE  LET n == ResumeDeferred(m, r)
         IN  \/ r \notin m.deferred /\ n = m
             \/ \E k : Entered(m, k, r) /\ k.deferred = m.deferred \ {r} /\ n = StartNext(k)
<1>. DEFINE q == Append(m.cue, r)
            k == [m EXCEPT !.deferred = @ \ {r}, !.cue = q]
<1>1. q \in Seq(Regions)
  BY AppendList DEF Managers
<1>2. ResumeDeferred(m, r) = IF r \in m.deferred THEN StartNext(k) ELSE m
  BY DEF ResumeDeferred
<1>. HIDE DEF q
<1>3. /\ k \in Managers /\ SameWork(m, k) /\ SameData(m, k) /\ k.phase = m.phase
      /\ k.events = m.events /\ k.active = m.active
      /\ k.cue = q /\ k.deferred = m.deferred \ {r} /\ k.faults = m.faults
  BY <1>1 DEF Managers, SameWork, SameData
<1>. HIDE DEF k
<1>4. r \in m.deferred => Entered(m, k, r)
  BY <1>3 DEF q, Entered
<1>. QED BY <1>2, <1>3, <1>4

LEMMA ResumeDeferredServed ==
  ASSUME NEW m, Served(m), NEW r \in Regions
  PROVE  Served(ResumeDeferred(m, r))
<1>1. m \in Managers
  BY DEF Served
<1>. QED BY <1>1, ResumeDeferredEffect, EnteredServed, StartNextServed

LEMMA OpenFaultEffect ==
  ASSUME NEW m \in Managers, NEW r \in Regions, m.faults[r] = "None"
  PROVE  \E k : /\ Entered(m, k, r) /\ k.deferred = m.deferred
                /\ \A s \in Regions : k.faults[s] = "Handling" => m.faults[s] = "Handling"
                /\ OpenFault(m, r) = StartNext(k)
<1>. DEFINE q == Append(m.cue, r)
            f == [m.faults EXCEPT ![r] = "Pending"]
            k == [m EXCEPT !.faults = f, !.cue = q]
<1>1. q \in Seq(Regions) /\ f \in [Regions -> {"None", "Pending", "Handling", "Migrating"}]
  BY AppendList DEF Managers
<1>2. OpenFault(m, r) = StartNext(k)
  BY DEF OpenFault
<1>3. \A s \in Regions : f[s] = "Handling" => m.faults[s] = "Handling"
  BY DEF Managers
<1>. HIDE DEF q, f
<1>4. /\ k \in Managers /\ SameWork(m, k) /\ SameData(m, k) /\ k.phase = m.phase
      /\ k.events = m.events /\ k.active = m.active
      /\ k.cue = q /\ k.deferred = m.deferred /\ k.faults = f
  BY <1>1 DEF Managers, SameWork, SameData
<1>. HIDE DEF k
<1>5. Entered(m, k, r)
  BY <1>4 DEF q, f, Entered
<1>. QED BY <1>2, <1>3, <1>4, <1>5

LEMMA OpenFaultServed ==
  ASSUME NEW m, Served(m), NEW r \in Regions, m.faults[r] = "None"
  PROVE  Served(OpenFault(m, r))
<1>1. m \in Managers
  BY DEF Served
<1>. QED BY <1>1, OpenFaultEffect, EnteredServed, StartNextServed

-----------------------------------------------------------------------------
(* Evictions.                                                              *)

LEMMA LRUEffect ==
  ASSUME NEW m \in Managers, NEW q \in Seq(Regions)
  PROVE  LET n == [m EXCEPT !.lru = q]
         IN  /\ n \in Managers /\ SameQueue(m, n) /\ SameWork(m, n) /\ n.phase = m.phase
             /\ n.state = m.state /\ n.frame = m.frame /\ n.remote = m.remote
             /\ n.pte = m.pte /\ n.evicting = m.evicting /\ n.lru = q
BY DEF Managers, SameQueue, SameWork

LEMMA RemoveLRUEffect ==
  ASSUME NEW m \in Managers, NEW S
  PROVE  LET n == RemoveLRU(m, S)
         IN  /\ n \in Managers /\ SameQueue(m, n) /\ SameWork(m, n) /\ n.phase = m.phase
             /\ n.state = m.state /\ n.frame = m.frame /\ n.remote = m.remote
             /\ n.pte = m.pte /\ n.evicting = m.evicting
             /\ Elements(n.lru) = Elements(m.lru) \cap (Regions \ S)
<1>. DEFINE q == Keep(m.lru, Regions \ S)
<1>1. m.lru \in Seq(Regions)
  BY DEF Managers
<1>2. q \in Seq(Regions) /\ Elements(q) = Elements(m.lru) \cap (Regions \ S)
  BY <1>1, KeepList
<1>3. RemoveLRU(m, S) = [m EXCEPT !.lru = q]
  BY DEF RemoveLRU
<1>. HIDE DEF q
<1>. QED BY <1>2, <1>3, LRUEffect

LEMMA AddLRUEffect ==
  ASSUME NEW m \in Managers, NEW rs \in Seq(Regions)
  PROVE  LET n == AddLRU(m, rs)
         IN  /\ n \in Managers /\ SameQueue(m, n) /\ SameWork(m, n) /\ n.phase = m.phase
             /\ n.state = m.state /\ n.frame = m.frame /\ n.remote = m.remote
             /\ n.pte = m.pte /\ n.evicting = m.evicting
             /\ Elements(n.lru) = Elements(m.lru) \cup Elements(rs)
<1>. DEFINE t == Keep(m.lru, Regions \ Elements(rs))
            q == Backwards(rs) \o t
<1>1. m.lru \in Seq(Regions)
  BY DEF Managers
<1>2. t \in Seq(Regions) /\ Elements(t) = Elements(m.lru) \cap (Regions \ Elements(rs))
  BY <1>1, KeepList
<1>3. Backwards(rs) \in Seq(Regions) /\ Elements(Backwards(rs)) = Elements(rs)
  BY BackwardsList
<1>4. \A u \in Seq(Regions) : Elements(u) \subseteq Regions
  BY DEF Elements
<1>5. q \in Seq(Regions) /\ Elements(q) = Elements(m.lru) \cup Elements(rs)
  <2>. HIDE DEF t
  <2>1. q \in Seq(Regions)
    BY <1>2, <1>3
  <2>2. Elements(q) = Elements(rs) \cup Elements(t)
    BY <1>2, <1>3, ElementsConcat
  <2>. QED BY <1>1, <1>2, <1>4, <2>1, <2>2
<1>6. AddLRU(m, rs) = [m EXCEPT !.lru = q]
  BY DEF AddLRU
<1>. HIDE DEF q
<1>. QED BY <1>5, <1>6, LRUEffect

(* The list of victims is drawn from the regions that can be evicted. *)
LEMMA VictimsEvictable ==
  ASSUME NEW m \in Managers, NEW required, NEW exclude
  PROVE  LET vs == SelectVictims(m, required, exclude)
         IN  /\ vs \in Seq(Regions)
             /\ \A r \in Elements(vs) : Eligible(m, r, exclude) /\ RegionFrames(m, r) # {}
<1>. DEFINE T == {r \in Regions : Eligible(m, r, exclude) /\ RegionFrames(m, r) # {}}
            old == Keep(Backwards(m.lru), T)
<1>1. m.lru \in Seq(Regions)
  BY DEF Managers
<1>2. Backwards(m.lru) \in Seq(Regions)
  BY <1>1, BackwardsList
<1>3. old \in Seq(Regions) /\ Elements(old) \subseteq T
  BY <1>2, KeepList
<1>. HIDE DEF old
<1>4. \A S : Keep(old, S) \in Seq(Regions) /\ Elements(Keep(old, S)) \subseteq T
  BY <1>3, KeepList
<1>5. Elements(<<>>) = {} /\ <<>> \in Seq(Regions)
  BY DEF Elements
<1>. HIDE DEF T
<1>6. LET vs == SelectVictims(m, required, exclude)
      IN  vs \in Seq(Regions) /\ Elements(vs) \subseteq T
  BY <1>4, <1>5 DEF SelectVictims, old, T
<1>. QED BY <1>6 DEF T

(* From m to n, the evictions of the regions vs begin, with then behind each. *)
Begun(m, n, vs, then) ==
  LET S == Elements(vs)
  IN  /\ n \in Managers /\ SameQueue(m, n)
      /\ n.migrations = m.migrations
      /\ n.state = m.state /\ n.frame = m.frame /\ n.remote = m.remote
      /\ n.evicting = m.evicting + Cardinality(UNION {RegionFrames(m, r) : r \in S})
      /\ n.pte = [p \in Pages |-> IF p \in Parked(m, S) THEN "Migrating" ELSE m.pte[p]]
      /\ n.phase = [r \in Regions |-> IF r \in S THEN "Evicting" ELSE m.phase[r]]
      /\ n.then = [r \in Regions |-> IF r \in S THEN then ELSE m.then[r]]
      /\ Elements(n.lru) = Elements(m.lru) \cap (Regions \ S)
      /\ \A id \in MigrationIds :
           <<"MigrationComplete", id>> \in n.events <=> <<"MigrationComplete", id>> \in m.events
      /\ \A op : op \in n.controlOps <=>
           \/ op \in m.controlOps
           \/ \E r \in S : op = Operation("TLBInvalidate", r, Evict(r))

LEMMA BeginEvictionsEffect ==
  ASSUME NEW m \in Managers, NEW vs \in Seq(Regions), NEW then \in Waiting \cup {None}
  PROVE  Begun(m, BeginEvictions(m, vs, then), vs, then)
<1>. DEFINE S == Elements(vs)
            k == RemoveLRU(m, S)
            c == Cardinality(UNION {RegionFrames(m, r) : r \in S})
            e == k.evicting + c
            f == [r \in Regions |-> IF r \in S THEN then ELSE k.then[r]]
            g == [r \in Regions |-> IF r \in S THEN "Evicting" ELSE k.phase[r]]
            h == [p \in Pages |-> IF p \in Parked(m, S) THEN "Migrating" ELSE k.pte[p]]
            n == [k EXCEPT !.phase = g, !.evicting = e, !.pte = h, !.then = f]
            l == BeginEvictions(m, vs, then)
<1>1. /\ k \in Managers /\ SameQueue(m, k) /\ SameWork(m, k) /\ k.phase = m.phase
      /\ k.state = m.state /\ k.frame = m.frame /\ k.remote = m.remote
      /\ k.pte = m.pte /\ k.evicting = m.evicting
      /\ Elements(k.lru) = Elements(m.lru) \cap (Regions \ S)
  BY RemoveLRUEffect
<1>2. c \in Nat
  <2>1. UNION {RegionFrames(m, r) : r \in S} \in SUBSET Pages
    BY DEF RegionFrames, PagesOf
  <2>. QED BY <2>1, PageSets
<1>3. l = Request(n, "TLBInvalidate", vs, EvictOf)
  BY DEF BeginEvictions
<1>. HIDE DEF k, S, c
<1>4. e \in Nat /\ e = m.evicting + c
  BY <1>1, <1>2 DEF Managers
<1>5. /\ f \in [Regions -> Waiting \cup {None}]
      /\ g \in [Regions -> {"Idle", "FaultPending", "FaultHandling",
                             "MigratingToGPU", "Evicting"}]
      /\ h \in [Pages -> {"Invalid", "Remote", "Migrating", "Local"}]
  BY <1>1 DEF Managers
<1>6. /\ f = [r \in Regions |-> IF r \in S THEN then ELSE m.then[r]]
      /\ g = [r \in Regions |-> IF r \in S THEN "Evicting" ELSE m.phase[r]]
      /\ h = [p \in Pages |-> IF p \in Parked(m, S) THEN "Migrating" ELSE m.pte[p]]
  BY <1>1 DEF SameWork
<1>. HIDE DEF e, f, g, h
<1>7. n \in Managers
  BY <1>1, <1>4, <1>5 DEF Managers
<1>8. /\ n.phase = g /\ n.evicting = e /\ n.pte = h /\ n.then = f
      /\ n.faults = k.faults /\ n.cue = k.cue /\ n.active = k.active
      /\ n.deferred = k.deferred /\ n.events = k.events /\ n.lru = k.lru
      /\ n.migrations = k.migrations /\ n.controlOps = k.controlOps
      /\ n.state = k.state /\ n.frame = k.frame /\ n.remote = k.remote
  BY <1>1 DEF Managers
<1>9. \A r \in Regions : Operation("TLBInvalidate", r, EvictOf[r]) \in ControlOps
  BY DEF EvictOf, Evict, ControlOps, Operation
<1>10. \A r \in S : EvictOf[r] = Evict(r)
  <2>1. S \subseteq Regions
    BY DEF S, Elements
  <2>. QED BY <2>1 DEF EvictOf
<1>. HIDE DEF n
<1>11. /\ l \in Managers /\ SameQueue(n, l) /\ SameData(n, l) /\ l.phase = n.phase
       /\ l.migrations = n.migrations /\ l.then = n.then
       /\ \A id \in MigrationIds :
            <<"MigrationComplete", id>> \in l.events <=> <<"MigrationComplete", id>> \in n.events
       /\ \A op : op \in l.controlOps <=>
            \/ op \in n.controlOps
            \/ \E r \in S : op = Operation("TLBInvalidate", r, EvictOf[r])
  <2>1. Requested(n, l, "TLBInvalidate", vs, EvictOf)
    BY <1>3, <1>7, <1>9, RequestEffect
  <2>. HIDE DEF l
  <2>. QED BY <2>1 DEF S, Requested
<1>12. \A op : op \in l.controlOps <=>
         \/ op \in m.controlOps
         \/ \E r \in S : op = Operation("TLBInvalidate", r, Evict(r))
  <2>. HIDE DEF l
  <2>. QED BY <1>1, <1>8, <1>10, <1>11 DEF SameWork
<1>13. SameQueue(m, l)
  BY <1>1, <1>8, <1>11 DEF SameQueue
<1>14. \A id \in MigrationIds :
         <<"MigrationComplete", id>> \in l.events <=> <<"MigrationComplete", id>> \in m.events
  BY <1>1, <1>8, <1>11 DEF SameWork
<1>15. /\ l.migrations = m.migrations /\ l.state = m.state /\ l.frame = m.frame
       /\ l.remote = m.remote /\ l.evicting = e /\ l.pte = h /\ l.phase = g /\ l.then = f
       /\ Elements(l.lru) = Elements(m.lru) \cap (Regions \ S)
  BY <1>1, <1>8, <1>11 DEF SameData, SameWork
<1>16. l \in Managers
  BY <1>11
<1>. HIDE DEF l, n
<1>17. Begun(m, l, vs, then)
  BY <1>4, <1>6, <1>12, <1>13, <1>14, <1>15, <1>16 DEF Begun, S, c
<1>. QED BY <1>17 DEF l

(* The victims of one call: none waits, or one lets the service wait. *)
LEMMA BeginEvictionsServed ==
  ASSUME NEW m, Served(m), NEW vs \in Seq(Regions), NEW then \in Waiting \cup {None},
         \/ then = None
         \/ /\ m.faults[then.txn] = "Handling"
            /\ \A v \in Regions : m.then[v] = None
            /\ \E v \in Regions : vs = <<v>> /\ Apart(v, then)
  PROVE  Served(BeginEvictions(m, vs, then))
<1>. DEFINE n == BeginEvictions(m, vs, then)
<1>1. m \in Managers /\ Slot(m) /\ Queued(m)
  BY DEF Served
<1>2. Begun(m, n, vs, then)
  BY <1>1, BeginEvictionsEffect
<1>. HIDE DEF n
<1>3. Queued(n)
  BY <1>1, <1>2 DEF Queued, Begun, SameQueue
<1>4. /\ n \in Managers /\ SameQueue(m, n) /\ n.migrations = m.migrations
      /\ \A r \in Regions : n.then[r] = IF r \in Elements(vs) THEN then ELSE m.then[r]
  BY <1>2 DEF Begun
<1>5. CASE then = None
  BY <1>1, <1>4, <1>5, ServedKept DEF n
<1>6. CASE /\ m.faults[then.txn] = "Handling"
           /\ \A v \in Regions : m.then[v] = None
           /\ \E v \in Regions : vs = <<v>> /\ Apart(v, then)
  <2>1. PICK w \in Regions : vs = <<w>> /\ Apart(w, then)
    BY <1>6
  <2>2. Elements(vs) = {w}
    BY <2>1 DEF Elements
  <2>3. \A r \in Regions : n.then[r] = IF r = w THEN then ELSE None
    BY <1>4, <1>6, <2>2
  <2>4. Slot(n)
    BY <1>1, <1>4, <1>6, <2>1, <2>3 DEF Slot, SameQueue
  <2>. QED BY <1>3, <1>4, <2>4 DEF Served, n
<1>. QED BY <1>5, <1>6

(* Regions that can be evicted without touching the pages of exclude. *)
Chosen(m, vs, exclude) ==
  \A r \in Elements(vs) : Eligible(m, r, exclude) /\ RegionFrames(m, r) # {}

LEMMA PreEvictEffect ==
  ASSUME NEW m \in Managers, NEW exclude
  PROVE  LET n == PreEvict(m, exclude)
         IN  \/ n = m
             \/ \E vs \in Seq(Regions) : Begun(m, n, vs, None) /\ Chosen(m, vs, exclude)
<1>. DEFINE vs == SelectVictims(m, PagesPerRegion - m.evicting, exclude)
<1>1. vs \in Seq(Regions) /\ Chosen(m, vs, exclude)
  BY VictimsEvictable DEF Chosen
<1>2. PreEvict(m, exclude) = m \/ PreEvict(m, exclude) = BeginEvictions(m, vs, None)
  BY DEF PreEvict
<1>. HIDE DEF vs
<1>3. Begun(m, BeginEvictions(m, vs, None), vs, None)
  BY <1>1, BeginEvictionsEffect
<1>. QED BY <1>1, <1>2, <1>3

LEMMA PreEvictServed ==
  ASSUME NEW m, Served(m), NEW exclude
  PROVE  Served(PreEvict(m, exclude))
<1>. DEFINE vs == SelectVictims(m, PagesPerRegion - m.evicting, exclude)
<1>1. vs \in Seq(Regions)
  BY VictimsEvictable DEF Served
<1>2. PreEvict(m, exclude) = m \/ PreEvict(m, exclude) = BeginEvictions(m, vs, None)
  BY DEF PreEvict
<1>. HIDE DEF vs
<1>. QED BY <1>1, <1>2, BeginEvictionsServed

-----------------------------------------------------------------------------
(* Migrations.                                                             *)

(* Of the migrations only id changed, and not what it moves or answers. *)
SameMigration(m, n, id) ==
  /\ n \in Managers /\ SameQueue(m, n) /\ SameData(m, n)
  /\ n.phase = m.phase /\ n.then = m.then
  /\ \A i \in MigrationIds : i # id => n.migrations[i] = m.migrations[i]
  /\ n.migrations[id].pages = m.migrations[id].pages
  /\ n.migrations[id].faults = m.migrations[id].faults
  /\ m.migrations[id] = NoMigration => n.migrations[id] = NoMigration

(* The transfer of a migration began. *)
Transferred(m, n, id) ==
  /\ SameMigration(m, n, id) /\ n.controlOps = m.controlOps
  /\ n.migrations[id].dma = {p \in m.migrations[id].pages : m.frame[p]}
  /\ \A i \in MigrationIds :
       <<"MigrationComplete", i>> \in n.events <=>
         \/ <<"MigrationComplete", i>> \in m.events
         \/ i = id /\ n.migrations[id].dma = {}

(* A region of the migration is being drained or invalidated. *)
Asked(m, n, id, kind) ==
  /\ SameMigration(m, n, id) /\ n.migrations[id].dma = m.migrations[id].dma
  /\ \A i \in MigrationIds :
       <<"MigrationComplete", i>> \in n.events <=> <<"MigrationComplete", i>> \in m.events
  /\ \E r \in Regions : \A op : op \in n.controlOps <=>
       op \in m.controlOps \/ op = Operation(kind, r, id)

LEMMA SameMigrationServed ==
  ASSUME NEW m, Served(m), NEW n, NEW id \in MigrationIds, SameMigration(m, n, id)
  PROVE  Served(n)
<1>1. /\ n \in Managers /\ SameQueue(m, n) /\ n.then = m.then
      /\ \A i \in MigrationIds : n.migrations[i].faults = m.migrations[i].faults
      /\ \A i \in MigrationIds : n.migrations[i] # NoMigration => m.migrations[i] # NoMigration
  BY DEF SameMigration
<1>. QED BY <1>1, ServedKept, IdTypes

LEMMA StartTransferEffect ==
  ASSUME NEW m \in Managers, NEW id \in MigrationIds
  PROVE  Transferred(m, StartTransfer(m, id), id)
<1>. DEFINE moved == {p \in m.migrations[id].pages : m.frame[p]}
            x == [m.migrations[id] EXCEPT !.dma = moved]
            g == [m.migrations EXCEPT ![id].dma = moved]
            e == IF moved = {} THEN m.events \cup {<<"MigrationComplete", id>>} ELSE m.events
            n == [m EXCEPT !.migrations = g, !.events = e]
<1>1. StartTransfer(m, id) = n
  BY DEF StartTransfer
<1>2. n \in Managers
  BY <1>1, StartTransferKeeps DEF KeepsFrames
<1>3. m.migrations \in [MigrationIds -> Migration]
  BY DEF Managers
<1>4. /\ x.pages = m.migrations[id].pages /\ x.faults = m.migrations[id].faults
      /\ x.dma = moved /\ (m.migrations[id] = NoMigration => x = NoMigration)
  <2>1. m.migrations[id] \in Migration
    BY <1>3
  <2>2. m.migrations[id] = NoMigration => moved = {}
    BY DEF NoMigration
  <2>. HIDE DEF moved
  <2>3. x.pages = m.migrations[id].pages /\ x.faults = m.migrations[id].faults /\ x.dma = moved
    BY <2>1 DEF Migration
  <2>4. m.migrations[id].dma = moved => x = m.migrations[id]
    BY <2>1 DEF Migration
  <2>5. m.migrations[id] = NoMigration => m.migrations[id].dma = {}
    BY DEF NoMigration
  <2>. QED BY <2>2, <2>3, <2>4, <2>5
<1>5. g[id] = x /\ \A i \in MigrationIds : i # id => g[i] = m.migrations[i]
  BY <1>3
<1>6. /\ \A r \in Regions : <<"FaultReady", r>> \in e <=> <<"FaultReady", r>> \in m.events
      /\ \A i \in MigrationIds :
           <<"MigrationComplete", i>> \in e <=>
             <<"MigrationComplete", i>> \in m.events \/ (i = id /\ moved = {})
  OBVIOUS
<1>. HIDE DEF g, e, x, moved
<1>7. /\ n.migrations = g /\ n.events = e /\ n.faults = m.faults /\ n.cue = m.cue
      /\ n.active = m.active /\ n.deferred = m.deferred /\ SameData(m, n)
      /\ n.phase = m.phase /\ n.then = m.then /\ n.controlOps = m.controlOps
  BY DEF Managers, SameData
<1>. HIDE DEF n
<1>8. SameMigration(m, n, id)
  BY <1>2, <1>4, <1>5, <1>6, <1>7 DEF SameMigration, SameQueue
<1>9. n.migrations[id].dma = {p \in m.migrations[id].pages : m.frame[p]}
  BY <1>4, <1>5, <1>7 DEF moved
<1>10. Transferred(m, n, id)
  BY <1>6, <1>7, <1>8, <1>9 DEF Transferred, moved
<1>. QED BY <1>1, <1>10

WithTodo(m, id, todo) == [m EXCEPT !.migrations[id].todo = todo]

LEMMA TodoEffect ==
  ASSUME NEW m \in Managers, NEW id \in MigrationIds, NEW todo \in Seq(Regions),
         m.migrations[id] = NoMigration => todo = <<>>
  PROVE  LET l == WithTodo(m, id, todo)
         IN  /\ SameMigration(m, l, id) /\ l.controlOps = m.controlOps
             /\ l.migrations[id].dma = m.migrations[id].dma
             /\ l.events = m.events
<1>. DEFINE x == [m.migrations[id] EXCEPT !.todo = todo]
            g == [m.migrations EXCEPT ![id].todo = todo]
            n == [m EXCEPT !.migrations = g]
<1>1. [m EXCEPT !.migrations[id].todo = todo] = n /\ WithTodo(m, id, todo) = n
  BY DEF WithTodo
<1>2. n \in Managers
  BY <1>1, TodoKeeps DEF KeepsFrames
<1>3. m.migrations \in [MigrationIds -> Migration]
  BY DEF Managers
<1>4. /\ x.pages = m.migrations[id].pages /\ x.faults = m.migrations[id].faults
      /\ x.dma = m.migrations[id].dma /\ (m.migrations[id] = NoMigration => x = NoMigration)
  BY <1>3 DEF Migration, NoMigration
<1>5. g[id] = x /\ \A i \in MigrationIds : i # id => g[i] = m.migrations[i]
  BY <1>3
<1>. HIDE DEF g, x
<1>6. /\ n.migrations = g /\ n.events = m.events /\ n.faults = m.faults /\ n.cue = m.cue
      /\ n.active = m.active /\ n.deferred = m.deferred /\ SameData(m, n)
      /\ n.phase = m.phase /\ n.then = m.then /\ n.controlOps = m.controlOps
  BY DEF Managers, SameData
<1>. HIDE DEF n
<1>7. SameMigration(m, n, id)
  BY <1>2, <1>4, <1>5, <1>6 DEF SameMigration, SameQueue
<1>. QED BY <1>1, <1>4, <1>5, <1>6, <1>7

LEMMA AdmitOps ==
  ASSUME NEW id \in MigrationIds, id[1] = "admit", NEW kind \in {"TLBInvalidate", "RemoteDrain"}
  PROVE  \A r \in Regions : Operation(kind, r, id) \in ControlOps
<1>1. id \in {"admit"} \X Regions
  BY DEF MigrationIds
<1>. QED BY <1>1 DEF ControlOps, Operation

(* The next region of a migration is drained or invalidated. *)
LEMMA AskEffect ==
  ASSUME NEW m \in Managers, NEW id \in MigrationIds, id[1] = "admit",
         NEW kind \in {"TLBInvalidate", "RemoteDrain"},
         m.migrations[id].todo # <<>>
  PROVE  Asked(m, Request([m EXCEPT !.migrations[id].todo = Tail(@)], kind,
                          <<Head(m.migrations[id].todo)>>, [r \in Regions |-> id]), id, kind)
<1>. DEFINE todo == m.migrations[id].todo
            h    == Head(todo)
            left == [m EXCEPT !.migrations[id].todo = Tail(@)]
            for  == [r \in Regions |-> id]
            n    == Request(left, kind, <<h>>, for)
<1>1. m.migrations[id] \in Migration
  BY DEF Managers
<1>2. todo \in Seq(Regions) /\ todo # <<>>
  BY <1>1 DEF Migration
<1>3. h \in Regions /\ Tail(todo) \in Seq(Regions)
  BY <1>2
<1>4. m.migrations[id] # NoMigration
  BY <1>2 DEF NoMigration
<1>5. left = WithTodo(m, id, Tail(todo))
  BY DEF WithTodo
<1>. HIDE DEF todo, left
<1>6. /\ SameMigration(m, left, id) /\ left.controlOps = m.controlOps
      /\ left.migrations[id].dma = m.migrations[id].dma /\ left.events = m.events
  BY <1>3, <1>4, <1>5, TodoEffect
<1>. HIDE DEF h
<1>7. \A r \in Regions : Operation(kind, r, for[r]) \in ControlOps
  BY AdmitOps
<1>8. Elements(<<h>>) = {h} /\ for[h] = id /\ <<h>> \in Seq(Regions)
  BY <1>3 DEF Elements
<1>. HIDE DEF for
<1>9. left \in Managers
  BY <1>6 DEF SameMigration
<1>10. Requested(left, n, kind, <<h>>, for)
  BY <1>7, <1>8, <1>9, RequestEffect
<1>. HIDE DEF n
<1>11. \A op : op \in n.controlOps <=> op \in m.controlOps \/ op = Operation(kind, h, id)
  BY <1>6, <1>8, <1>10 DEF Requested
<1>12. SameMigration(m, n, id) /\ n.migrations[id].dma = m.migrations[id].dma
  BY <1>6, <1>10 DEF Requested, SameMigration, SameQueue, SameData
<1>13. \A i \in MigrationIds :
         <<"MigrationComplete", i>> \in n.events <=> <<"MigrationComplete", i>> \in m.events
  BY <1>6, <1>10 DEF Requested
<1>14. Asked(m, n, id, kind)
  BY <1>3, <1>11, <1>12, <1>13 DEF Asked
<1>. QED BY <1>14 DEF n, left, for, h, todo

LEMMA DrainNextEffect ==
  ASSUME NEW m \in Managers, NEW id \in MigrationIds, id[1] = "admit"
  PROVE  LET n == DrainNext(m, id)
         IN  Transferred(m, n, id) \/ Asked(m, n, id, "RemoteDrain")
<1>. DEFINE todo == m.migrations[id].todo
            done == [m EXCEPT !.migrations[id].todo = <<>>]
            n    == StartTransfer(done, id)
<1>1. CASE todo = <<>> \/ ~AccessCounterEnabled
  <2>1. DrainNext(m, id) = n
    BY <1>1 DEF DrainNext
  <2>2. done = WithTodo(m, id, <<>>) /\ <<>> \in Seq(Regions)
    BY DEF WithTodo
  <2>. HIDE DEF done
  <2>3. SameMigration(m, done, id) /\ done.controlOps = m.controlOps /\ done.events = m.events
    BY <2>2, TodoEffect
  <2>4. Transferred(done, n, id)
    BY <2>3, StartTransferEffect DEF SameMigration
  <2>. HIDE DEF n
  <2>5. SameMigration(m, n, id)
    BY <2>3, <2>4 DEF Transferred, SameMigration, SameQueue, SameData
  <2>6. /\ n.controlOps = m.controlOps
        /\ n.migrations[id].dma = {p \in m.migrations[id].pages : m.frame[p]}
    BY <2>3, <2>4 DEF Transferred, SameMigration, SameData
  <2>7. Transferred(m, n, id)
    BY <2>3, <2>4, <2>5, <2>6 DEF Transferred
  <2>. QED BY <2>1, <2>7
<1>2. CASE ~(todo = <<>> \/ ~AccessCounterEnabled)
  BY <1>2, AskEffect DEF DrainNext
<1>. QED BY <1>1, <1>2

LEMMA DrainNextServed ==
  ASSUME NEW m, Served(m), NEW id \in MigrationIds, id[1] = "admit"
  PROVE  Served(DrainNext(m, id))
BY DrainNextEffect, SameMigrationServed DEF Served, Transferred, Asked

(* From m to k, transaction r opened the migration of the pages adm. *)
Opened(m, k, r, adm) ==
  /\ k \in Managers
  /\ k.cue = m.cue /\ k.active = m.active /\ k.deferred = m.deferred /\ k.events = m.events
  /\ k.controlOps = m.controlOps /\ k.then = m.then /\ k.sendQueue = m.sendQueue
  /\ k.evicting = m.evicting /\ k.lru = m.lru /\ k.remote = m.remote
  /\ \A p \in Pages : /\ k.frame[p] = (m.frame[p] \/ p \in adm)
                      /\ k.state[p] = IF p \in adm THEN "MigratingToGPU" ELSE m.state[p]
                      /\ k.pte[p] = IF p \in adm THEN "Migrating" ELSE m.pte[p]
  /\ \A s \in Regions :
       /\ k.phase[s] = IF s \in RegionsOfPages(adm) THEN "MigratingToGPU" ELSE m.phase[s]
       /\ k.faults[s] = IF s = r THEN "Migrating" ELSE m.faults[s]
  /\ \A id \in MigrationIds : id # Admit(r) => k.migrations[id] = m.migrations[id]
  /\ k.migrations[Admit(r)].pages = adm
  /\ k.migrations[Admit(r)].faults = {r}
  /\ k.migrations[Admit(r)].dma = {}

LEMMA StartAdmissionEffect ==
  ASSUME NEW m, Safe(m), NEW r \in Regions, NEW sel \in SUBSET Pages
  PROVE  LET adm == Admitted(m, sel)
             n   == StartAdmission(m, r, sel)
         IN  /\ adm \subseteq {p \in sel : m.state[p] = "CPUResident"}
             /\ \/ adm = {} /\ n = DeferAdmission(m, r, sel)
                \/ /\ adm # {}
                   /\ \E k : Opened(m, k, r, adm) /\ n = PreEvict(DrainNext(k, Admit(r)), sel)
<1>. DEFINE adm == Admitted(m, sel)
            new == {p \in adm : ~m.frame[p]}
            rs  == RegionsOfPages(adm)
            id  == Admit(r)
            mig == [pages |-> adm, faults |-> {r}, dma |-> {}, todo |-> Ascending(rs),
                    invalidate |-> \E p \in adm : m.remote[p]]
            u == m.inUse + Cardinality(new)
            f == [p \in Pages |-> m.frame[p] \/ p \in adm]
            s == [p \in Pages |-> IF p \in adm THEN "MigratingToGPU" ELSE m.state[p]]
            t == [p \in Pages |-> IF p \in adm THEN "Migrating" ELSE m.pte[p]]
            o == [p \in Pages |-> IF p \in adm THEN id ELSE m.migrationOf[p]]
            h == [k \in Regions |-> IF k \in rs THEN "MigratingToGPU" ELSE m.phase[k]]
            g == [k \in Regions |-> IF k \in rs THEN id ELSE m.regionMig[k]]
            a == [m.faults EXCEPT ![r] = "Migrating"]
            i == [m.migrations EXCEPT ![id] = mig]
            n == [m EXCEPT !.inUse = u, !.frame = f, !.state = s, !.pte = t,
                           !.migrationOf = o, !.phase = h, !.regionMig = g,
                           !.faults = a, !.migrations = i]
<1>1. m \in Managers
  BY DEF Safe
<1>2. adm \in SUBSET Pages /\ Cardinality(new) \in Nat /\ m.inUse \in Nat
  BY <1>1, AdmittedFits, ZenonT(60) DEF Managers
<1>3. adm \subseteq {p \in sel : m.state[p] = "CPUResident"}
  BY DEF Admitted
<1>4. rs \in SUBSET Regions /\ Ascending(rs) \in Seq(Regions)
  BY <1>2, PageSets, RegionList
<1>5. id \in MigrationIds
  BY IdTypes
<1>6. mig \in Migration /\ mig.pages = adm /\ mig.faults = {r} /\ mig.dma = {}
  BY <1>2, <1>4 DEF Migration
<1>7. StartAdmission(m, r, sel) =
        IF adm = {} THEN DeferAdmission(m, r, sel) ELSE PreEvict(DrainNext(n, id), sel)
  BY DEF StartAdmission
<1>. HIDE DEF adm, new, rs, id, mig
<1>8. /\ f \in [Pages -> BOOLEAN]
      /\ s \in [Pages -> {"CPUResident", "GPUResident", "MigratingToGPU", "MigratingToCPU"}]
      /\ t \in [Pages -> {"Invalid", "Remote", "Migrating", "Local"}]
      /\ o \in [Pages -> MigrationIds \cup {None}]
      /\ h \in [Regions -> {"Idle", "FaultPending", "FaultHandling",
                            "MigratingToGPU", "Evicting"}]
      /\ g \in [Regions -> MigrationIds \cup {None}]
      /\ a \in [Regions -> {"None", "Pending", "Handling", "Migrating"}]
      /\ i \in [MigrationIds -> Migration]
      /\ u \in Nat
  BY <1>1, <1>2, <1>5, <1>6 DEF Managers
<1>9. /\ \A p \in Pages : /\ f[p] = (m.frame[p] \/ p \in adm)
                          /\ s[p] = IF p \in adm THEN "MigratingToGPU" ELSE m.state[p]
                          /\ t[p] = IF p \in adm THEN "Migrating" ELSE m.pte[p]
      /\ \A k \in Regions :
           /\ h[k] = IF k \in rs THEN "MigratingToGPU" ELSE m.phase[k]
           /\ a[k] = IF k = r THEN "Migrating" ELSE m.faults[k]
  BY <1>1 DEF Managers
<1>10. i[id] = mig /\ \A k \in MigrationIds : k # id => i[k] = m.migrations[k]
  BY <1>1, <1>5 DEF Managers
<1>. HIDE DEF u, f, s, t, o, h, g, a, i
<1>11. n \in Managers
  BY <1>1, <1>8 DEF Managers
<1>12. /\ n.frame = f /\ n.state = s /\ n.pte = t /\ n.phase = h /\ n.faults = a
       /\ n.migrations = i /\ n.cue = m.cue /\ n.active = m.active
       /\ n.deferred = m.deferred /\ n.events = m.events /\ n.controlOps = m.controlOps
       /\ n.then = m.then /\ n.evicting = m.evicting /\ n.lru = m.lru /\ n.remote = m.remote
       /\ n.sendQueue = m.sendQueue
  BY <1>1 DEF Managers
<1>. HIDE DEF n
<1>13. Opened(m, n, r, adm)
  BY <1>6, <1>9, <1>10, <1>11, <1>12 DEF Opened, rs, id
<1>. QED BY <1>3, <1>7, <1>13 DEF adm, id

(* A transaction that is being handled, with nothing started for it. *)
Serving(m, r) ==
  /\ Safe(m) /\ Served(m) /\ m.faults[r] = "Handling"
  /\ \A v \in Regions : m.then[v] = None

LEMMA ServingClosing ==
  ASSUME NEW m, NEW r \in Regions, Serving(m, r)
  PROVE  Closing(m, r)
BY DEF Serving, Closing, Served, Slot

LEMMA OpenedServed ==
  ASSUME NEW m, NEW r \in Regions, Serving(m, r), NEW k, NEW adm, Opened(m, k, r, adm)
  PROVE  Served(k)
<1>1. Slot(m) /\ Queued(m) /\ Closing(m, r)
  BY ServingClosing DEF Serving, Served
<1>2. Queued(k)
  <2>1. \A s \in Regions : (k.faults[s] # "None") = (m.faults[s] # "None")
    BY DEF Opened, Serving
  <2>. QED BY <1>1, <2>1 DEF Queued, Opened
<1>3. Slot(k)
  BY <1>1, IdTypes DEF Slot, Opened, Closing, Serving
<1>. QED BY <1>2, <1>3 DEF Served, Opened

(* Without an admission under way no region is covered by one. *)
LEMMA NoCovering ==
  ASSUME NEW m, \A s \in Regions : m.migrations[Admit(s)] = NoMigration, NEW r
  PROVE  CoveringMigration(m, r) = None
<1>1. {i \in MigrationIds : i[1] = "admit" /\ m.migrations[i] # NoMigration} = {}
  BY IdTypes
<1>. QED BY <1>1 DEF CoveringMigration

LEMMA DeferAdmissionEffect ==
  ASSUME NEW m, NEW r \in Regions, NEW sel \in SUBSET Pages, Closing(m, r)
  PROVE  \E k : Quiet(m, k) /\ DeferAdmission(m, r, sel) = RetireFaults(k, {r})
<1>. DEFINE rs == {x \in RegionsOfPages(sel) : CoveringMigration(m, x) = None}
            k  == ReplayAll(m, Ascending(rs), TRUE)
<1>1. rs \in SUBSET Regions
  BY PageSets
<1>2. Quiet(m, k)
  BY <1>1, RegionList, ReplayAllQuiet DEF Closing, Served
<1>3. CoveringMigration(m, r) = None
  BY NoCovering DEF Closing
<1>4. DeferAdmission(m, r, sel) = RetireFaults(k, {r})
  BY <1>3 DEF DeferAdmission
<1>. QED BY <1>2, <1>4

LEMMA QuietClosing ==
  ASSUME NEW m, NEW r \in Regions, Closing(m, r), NEW k, Quiet(m, k)
  PROVE  Closing(k, r)
BY QuietServed DEF Closing, Quiet, SameQueue, SameWork

LEMMA StartAdmissionServed ==
  ASSUME NEW m, NEW r \in Regions, NEW sel \in SUBSET Pages, Serving(m, r)
  PROVE  Served(StartAdmission(m, r, sel))
<1>. DEFINE adm == Admitted(m, sel)
            n   == StartAdmission(m, r, sel)
<1>1. Closing(m, r) /\ Safe(m)
  BY ServingClosing DEF Serving
<1>2. \/ adm = {} /\ n = DeferAdmission(m, r, sel)
      \/ /\ adm # {}
         /\ \E k : Opened(m, k, r, adm) /\ n = PreEvict(DrainNext(k, Admit(r)), sel)
  BY <1>1, StartAdmissionEffect
<1>. HIDE DEF n, adm
<1>3. CASE n = DeferAdmission(m, r, sel)
  <2>1. PICK k : Quiet(m, k) /\ n = RetireFaults(k, {r})
    BY <1>1, <1>3, DeferAdmissionEffect
  <2>. QED BY <1>1, <2>1, QuietClosing, RetireActive DEF n
<1>4. ASSUME NEW k, Opened(m, k, r, adm), n = PreEvict(DrainNext(k, Admit(r)), sel)
      PROVE  Served(n)
  <2>1. Served(k)
    BY <1>4, OpenedServed
  <2>2. Admit(r) \in MigrationIds /\ Admit(r)[1] = "admit"
    BY IdTypes DEF Admit
  <2>3. Served(DrainNext(k, Admit(r)))
    BY <2>1, <2>2, DrainNextServed
  <2>. QED BY <1>4, <2>3, PreEvictServed
<1>. QED BY <1>2, <1>3, <1>4 DEF n

(* From m to n, transaction r began to wait for the eviction of a victim. *)
Postponed(m, n, r, sel) ==
  \E v \in Regions, wait \in Waiting :
    /\ wait.txn = r /\ wait.pages = sel /\ Apart(v, wait)
    /\ Begun(m, n, <<v>>, wait) /\ Chosen(m, <<v>>, {})
    /\ n = BeginEvictions(m, <<v>>, wait)

LEMMA OneRegion == \A v \in Regions : <<v>> \in Seq(Regions) /\ Elements(<<v>>) = {v}
BY DEF Elements

LEMMA WithCapacityEffect ==
  ASSUME NEW m \in Managers, NEW r \in Regions, NEW sel \in SUBSET Pages
  PROVE  LET n == WithCapacity(m, r, sel)
         IN  n = StartAdmission(m, r, sel) \/ Postponed(m, n, r, sel)
<1>. DEFINE victims == SelectVictims(m, Cardinality(sel), sel)
            v    == Head(victims)
            wait == [txn |-> r, pages |-> sel, rest |-> Tail(victims)]
            n    == BeginEvictions(m, <<v>>, wait)
<1>1. /\ victims \in Seq(Regions)
      /\ \A k \in Elements(victims) : Eligible(m, k, sel) /\ RegionFrames(m, k) # {}
  BY VictimsEvictable
<1>2. WithCapacity(m, r, sel) =
        IF FreeFrames(m) >= Cardinality(sel) \/ EvictionDisabled \/ victims = <<>>
        THEN StartAdmission(m, r, sel)
        ELSE n
  BY DEF WithCapacity
<1>. HIDE DEF victims
<1>3. ASSUME victims # <<>>
      PROVE  Postponed(m, n, r, sel)
  <2>1. /\ Tail(victims) \in Seq(Regions) /\ v \in Regions
        /\ v \in Elements(victims) /\ Elements(Tail(victims)) \subseteq Elements(victims)
    BY <1>1, <1>3 DEF Elements
  <2>2. wait \in Waiting /\ wait.txn = r /\ wait.pages = sel /\ wait.rest = Tail(victims)
    BY <2>1 DEF Waiting
  <2>. HIDE DEF wait, v
  <2>3. \A k \in Elements(victims) : PagesOf(k) \cap sel = {}
    BY <1>1 DEF Eligible
  <2>4. Apart(v, wait)
    BY <2>1, <2>2, <2>3 DEF Apart
  <2>5. Chosen(m, <<v>>, {})
    BY <1>1, <2>1, OneRegion DEF Chosen, Eligible
  <2>6. Begun(m, n, <<v>>, wait)
    BY <2>1, <2>2, OneRegion, BeginEvictionsEffect
  <2>. HIDE DEF n
  <2>7. n = BeginEvictions(m, <<v>>, wait)
    BY DEF n
  <2>. QED BY <2>1, <2>2, <2>4, <2>5, <2>6, <2>7 DEF Postponed
<1>. QED BY <1>2, <1>3

LEMMA EvictNextEffect ==
  ASSUME NEW m \in Managers, NEW wait \in Waiting, NEW w, Apart(w, wait)
  PROVE  LET n == EvictNext(m, wait)
         IN  \/ n = StartAdmission(m, wait.txn, wait.pages)
             \/ Postponed(m, n, wait.txn, wait.pages)
<1>. DEFINE left == {i \in 1..Len(wait.rest) : Evictable(m, wait.rest[i])}
            i    == Min(left)
            v    == wait.rest[i]
            next == [wait EXCEPT !.rest = SubSeq(@, i + 1, Len(@))]
            n    == BeginEvictions(m, <<v>>, next)
<1>1. wait.txn \in Regions /\ wait.pages \in SUBSET Pages /\ wait.rest \in Seq(Regions)
  BY DEF Waiting
<1>2. EvictNext(m, wait) =
        IF left = {} THEN WithCapacity(m, wait.txn, wait.pages) ELSE n
  BY DEF EvictNext
<1>3. left \in SUBSET Int /\ IsFiniteSet(left) /\ left \subseteq 1..Len(wait.rest)
  <2>1. IsFiniteSet(1..Len(wait.rest)) /\ left \in SUBSET (1..Len(wait.rest))
    BY <1>1, FS_Interval
  <2>. QED BY <2>1, FS_Subset
<1>4. \A j \in left : Evictable(m, wait.rest[j])
  OBVIOUS
<1>. HIDE DEF left
<1>5. ASSUME left # {}
      PROVE  Postponed(m, n, wait.txn, wait.pages)
  <2>1. \E x \in left : \A y \in left : x <= y
    BY <1>3, <1>5, LeastElement
  <2>2. i \in left
    BY <2>1 DEF Min
  <2>. HIDE DEF i
  <2>. DEFINE rest == SubSeq(wait.rest, i + 1, Len(wait.rest))
  <2>3. i \in 1..Len(wait.rest) /\ v \in Regions /\ v \in Elements(wait.rest)
    <3>1. i \in 1..Len(wait.rest)
      BY <1>3, <2>2
    <3>2. \A q \in Seq(Regions) : \A j \in 1..Len(q) : q[j] \in Regions /\ q[j] \in Elements(q)
      BY DEF Elements
    <3>. QED BY <1>1, <3>1, <3>2
  <2>4. rest \in Seq(Regions) /\ Elements(rest) \subseteq Elements(wait.rest)
    <3>1. rest \in Seq(Regions) /\ Len(rest) = Len(wait.rest) - i
      BY <1>1, <2>3
    <3>2. \A j \in 1..Len(rest) : rest[j] = wait.rest[i + j] /\ i + j \in 1..Len(wait.rest)
      BY <1>1, <2>3, <3>1
    <3>. HIDE DEF rest
    <3>. QED BY <3>1, <3>2 DEF Elements
  <2>5. /\ next \in Waiting /\ next.txn = wait.txn /\ next.pages = wait.pages
        /\ next.rest = rest
    BY <2>4 DEF Waiting
  <2>. HIDE DEF rest, next
  <2>6. Apart(v, next)
    BY <2>3, <2>4, <2>5 DEF Apart
  <2>7. Chosen(m, <<v>>, {})
    BY <1>4, <2>2, <2>3, OneRegion DEF Chosen, Evictable
  <2>. HIDE DEF v
  <2>8. Begun(m, n, <<v>>, next)
    BY <2>3, <2>5, OneRegion, BeginEvictionsEffect
  <2>. HIDE DEF n
  <2>9. n = BeginEvictions(m, <<v>>, next)
    BY DEF n
  <2>. QED BY <2>3, <2>5, <2>6, <2>7, <2>8, <2>9 DEF Postponed
<1>. HIDE DEF n
<1>. QED BY <1>1, <1>2, <1>5, WithCapacityEffect

LEMMA PostponedServed ==
  ASSUME NEW m, NEW r \in Regions, NEW sel, Serving(m, r), NEW n, Postponed(m, n, r, sel)
  PROVE  Served(n)
<1>1. PICK v \in Regions, wait \in Waiting :
        wait.txn = r /\ Apart(v, wait) /\ n = BeginEvictions(m, <<v>>, wait)
  BY DEF Postponed
<1>2. m.faults[wait.txn] = "Handling" /\ \A w \in Regions : m.then[w] = None
  BY <1>1 DEF Serving
<1>. QED BY <1>1, <1>2, OneRegion, BeginEvictionsServed DEF Serving

LEMMA WithCapacityServed ==
  ASSUME NEW m, NEW r \in Regions, NEW sel \in SUBSET Pages, Serving(m, r)
  PROVE  Served(WithCapacity(m, r, sel))
BY WithCapacityEffect, StartAdmissionServed, PostponedServed DEF Serving, Served

LEMMA EvictNextServed ==
  ASSUME NEW m, NEW wait \in Waiting, NEW w, Apart(w, wait), Serving(m, wait.txn)
  PROVE  Served(EvictNext(m, wait))
<1>1. wait.txn \in Regions /\ wait.pages \in SUBSET Pages /\ m \in Managers
  BY DEF Waiting, Serving, Served
<1>. QED BY <1>1, EvictNextEffect, StartAdmissionServed, PostponedServed

(* From m to k, nothing waits for region r any more. *)
Woken(m, k, r) ==
  /\ Safe(k) /\ SameQueue(m, k) /\ SameData(m, k) /\ k.phase = m.phase
  /\ k.migrations = m.migrations /\ k.controlOps = m.controlOps /\ k.events = m.events
  /\ k.sendQueue = m.sendQueue
  /\ \A v \in Regions : k.then[v] = IF v = r THEN None ELSE m.then[v]

LEMMA ResumeWaitingEffect ==
  ASSUME NEW m, Safe(m), NEW r \in Regions
  PROVE  LET n == ResumeWaiting(m, r)
         IN  \E k : /\ Woken(m, k, r)
                    /\ \/ m.then[r] = None /\ n = k
                       \/ /\ m.then[r] \in Waiting /\ m.then[r] # None
                          /\ n = EvictNext(k, m.then[r])
<1>. DEFINE f == [m.then EXCEPT ![r] = None]
            k == [m EXCEPT !.then = f]
<1>1. m \in Managers /\ m.then[r] \in Waiting \cup {None}
  BY DEF Safe, Managers
<1>2. /\ f \in [Regions -> Waiting \cup {None}]
      /\ \A v \in Regions : f[v] = IF v = r THEN None ELSE m.then[v]
  BY <1>1 DEF Managers
<1>3. ResumeWaiting(m, r) = IF m.then[r] = None THEN k ELSE EvictNext(k, m.then[r])
  BY DEF ResumeWaiting
<1>. HIDE DEF f
<1>4. KeepsFrames(m, k)
  BY <1>1, <1>2 DEF KeepsFrames, Managers
<1>5. Safe(k)
  BY <1>4, KeepsFramesSafe
<1>6. /\ SameQueue(m, k) /\ SameData(m, k) /\ k.phase = m.phase
      /\ k.migrations = m.migrations /\ k.controlOps = m.controlOps /\ k.events = m.events
      /\ k.then = f /\ k.sendQueue = m.sendQueue
  BY <1>1 DEF Managers, SameQueue, SameData
<1>. HIDE DEF k
<1>7. Woken(m, k, r)
  BY <1>2, <1>5, <1>6 DEF Woken
<1>. QED BY <1>1, <1>3, <1>7

LEMMA WokenServed ==
  ASSUME NEW m, Served(m), NEW r \in Regions, NEW k, Woken(m, k, r)
  PROVE  /\ Served(k)
         /\ m.then[r] # None => Serving(k, m.then[r].txn) /\ Apart(r, m.then[r])
<1>1. k \in Managers /\ Slot(m)
  BY DEF Woken, Safe, Served
<1>2. Served(k)
  BY <1>1, ServedKept DEF Woken
<1>3. ASSUME m.then[r] # None
      PROVE  Serving(k, m.then[r].txn) /\ Apart(r, m.then[r])
  <2>1. m.faults[m.then[r].txn] = "Handling" /\ Apart(r, m.then[r])
    BY <1>1, <1>3 DEF Slot
  <2>2. \A v \in Regions : k.then[v] = None
    BY <1>1, <1>3 DEF Slot, Woken
  <2>. QED BY <1>2, <2>1, <2>2 DEF Serving, Woken, SameQueue
<1>. QED BY <1>2, <1>3

LEMMA ResumeWaitingServed ==
  ASSUME NEW m, Safe(m), Served(m), NEW r \in Regions
  PROVE  Served(ResumeWaiting(m, r))
<1>1. PICK k : /\ Woken(m, k, r)
               /\ \/ m.then[r] = None /\ ResumeWaiting(m, r) = k
                  \/ /\ m.then[r] \in Waiting /\ m.then[r] # None
                     /\ ResumeWaiting(m, r) = EvictNext(k, m.then[r])
  BY ResumeWaitingEffect
<1>2. CASE m.then[r] = None /\ ResumeWaiting(m, r) = k
  BY <1>1, <1>2, WokenServed
<1>3. CASE /\ m.then[r] \in Waiting /\ m.then[r] # None
           /\ ResumeWaiting(m, r) = EvictNext(k, m.then[r])
  BY <1>1, <1>3, WokenServed, EvictNextServed
<1>. QED BY <1>1, <1>2, <1>3

-----------------------------------------------------------------------------
(* The end of an eviction.                                                 *)

(* The pages an eviction of r gives up. *)
Out(m, r) ==
  {p \in PagesOf(r) : m.frame[p] /\ m.state[p] \in {"MigratingToCPU", "GPUResident"}}

Unmapped == IF AccessCounterEnabled /\ ~LazyRemotePTE THEN "Remote" ELSE "Invalid"

(* From m to j, the pages Out(m, r) are back on the host. *)
Released(m, j, r) ==
  /\ j \in Managers /\ SameQueue(m, j) /\ SameWork(m, j)
  /\ j.evicting = m.evicting /\ j.lru = m.lru
  /\ \A p \in Pages :
       /\ j.frame[p] = (m.frame[p] /\ p \notin Out(m, r))
       /\ j.state[p] = IF p \in Out(m, r) THEN "CPUResident" ELSE m.state[p]
       /\ j.remote[p] = IF p \in Out(m, r) THEN Unmapped = "Remote" ELSE m.remote[p]
       /\ j.pte[p] = IF p \in Out(m, r) THEN Unmapped ELSE m.pte[p]
  /\ \A s \in Regions : j.phase[s] = IF s = r THEN "Idle" ELSE m.phase[s]

(* From x to n, the region leaves the recency list and its c frames the count. *)
Dropped(x, n, r, c) ==
  /\ n \in Managers /\ SameQueue(x, n) /\ SameWork(x, n) /\ n.phase = x.phase
  /\ n.state = x.state /\ n.frame = x.frame /\ n.remote = x.remote /\ n.pte = x.pte
  /\ Elements(n.lru) = Elements(x.lru) \cap (Regions \ {r})
  /\ n.evicting = IF x.evicting >= c THEN x.evicting - c ELSE 0

LEMMA FinalizeEvictionEffect ==
  ASSUME NEW m \in Managers, NEW r \in Regions
  PROVE  LET n == FinalizeEviction(m, r)
         IN  \E j : /\ Released(m, j, r)
                    /\ \/ Out(m, r) = {} /\ n = ResumeDeferred(j, r)
                       \/ /\ Out(m, r) # {}
                          /\ Dropped(ResumeDeferred(j, r), n, r, Cardinality(Out(m, r)))
<1>. DEFINE out == Out(m, r)
            c   == Cardinality(out)
            f == [p \in Pages |-> m.frame[p] /\ p \notin out]
            s == [p \in Pages |-> IF p \in out THEN "CPUResident" ELSE m.state[p]]
            v == [p \in Pages |-> IF p \in out THEN Unmapped = "Remote" ELSE m.remote[p]]
            t == [p \in Pages |-> IF p \in out THEN Unmapped ELSE m.pte[p]]
            h == [m.phase EXCEPT ![r] = "Idle"]
            k == [m EXCEPT !.frame = f, !.state = s, !.remote = v, !.pte = t, !.phase[r] = "Idle"]
            q == QueueResets(k, <<r>>)
            g == [q.regionMig EXCEPT ![r] = None]
            j == [q EXCEPT !.regionMig[r] = None]
            x == ResumeDeferred(IF out = {} THEN q ELSE j, r)
            y == RemoveLRU(x, {r})
            u == IF y.inUse >= c THEN y.inUse - c ELSE 0
            e == IF y.evicting >= c THEN y.evicting - c ELSE 0
            z == [y EXCEPT !.inUse = u, !.evicting = e]
<1>1. FinalizeEviction(m, r) = IF out = {} THEN x ELSE z
  BY DEF FinalizeEviction, Out, Unmapped
<1>2. c \in Nat
  BY PageSets DEF Out, PagesOf
<1>3. Unmapped \in {"Remote", "Invalid"}
  BY DEF Unmapped
<1>. HIDE DEF out, c
<1>4. /\ f \in [Pages -> BOOLEAN]
      /\ s \in [Pages -> {"CPUResident", "GPUResident", "MigratingToGPU", "MigratingToCPU"}]
      /\ v \in [Pages -> BOOLEAN]
      /\ t \in [Pages -> {"Invalid", "Remote", "Migrating", "Local"}]
      /\ h \in [Regions -> {"Idle", "FaultPending", "FaultHandling",
                            "MigratingToGPU", "Evicting"}]
  BY <1>3 DEF Managers
<1>5. /\ \A p \in Pages :
           /\ f[p] = (m.frame[p] /\ p \notin out)
           /\ s[p] = IF p \in out THEN "CPUResident" ELSE m.state[p]
           /\ v[p] = IF p \in out THEN Unmapped = "Remote" ELSE m.remote[p]
           /\ t[p] = IF p \in out THEN Unmapped ELSE m.pte[p]
      /\ \A a \in Regions : h[a] = IF a = r THEN "Idle" ELSE m.phase[a]
  BY DEF Managers
<1>. HIDE DEF f, s, v, t
<1>6. /\ k \in Managers
      /\ SameQueue(m, k) /\ SameWork(m, k) /\ k.evicting = m.evicting /\ k.lru = m.lru
      /\ k.frame = f /\ k.state = s /\ k.remote = v /\ k.pte = t /\ k.phase = h
  <2>1. k = [m EXCEPT !.frame = f, !.state = s, !.remote = v, !.pte = t, !.phase = h]
    OBVIOUS
  <2>. HIDE DEF h
  <2>. QED BY <1>4, <2>1 DEF Managers, SameQueue, SameWork
<1>. HIDE DEF h
<1>. HIDE DEF k
<1>7. Quiet(k, q)
  BY <1>6, OneRegion, QueueResetsQuiet
<1>. HIDE DEF q
<1>8. Released(m, q, r)
  BY <1>5, <1>6, <1>7 DEF Quiet, SameQueue, SameWork, SameData, Released, out
<1>9. q \in Managers
  BY <1>8 DEF Released
<1>10. g \in [Regions -> MigrationIds \cup {None}]
  BY <1>9 DEF Managers
<1>11. /\ j \in Managers /\ SameQueue(q, j) /\ SameWork(q, j) /\ SameData(q, j)
       /\ j.phase = q.phase
  <2>1. j = [q EXCEPT !.regionMig = g]
    OBVIOUS
  <2>. HIDE DEF g
  <2>. QED BY <1>9, <1>10, <2>1 DEF Managers, SameQueue, SameWork, SameData
<1>. HIDE DEF j
<1>12. Released(m, j, r)
  BY <1>8, <1>11 DEF SameQueue, SameWork, SameData, Released
<1>13. CASE out = {}
  <2>1. FinalizeEviction(m, r) = ResumeDeferred(q, r)
    BY <1>1, <1>13
  <2>. QED BY <1>8, <1>13, <2>1 DEF out
<1>14. CASE out # {}
  <2>1. x = ResumeDeferred(j, r)
    BY <1>14
  <2>2. x \in Managers
    BY <1>11, <2>1, ResumeDeferredKeeps DEF KeepsFrames
  <2>. HIDE DEF x
  <2>3. /\ y \in Managers /\ SameQueue(x, y) /\ SameWork(x, y) /\ y.phase = x.phase
        /\ y.state = x.state /\ y.frame = x.frame /\ y.remote = x.remote
        /\ y.pte = x.pte /\ y.evicting = x.evicting
        /\ Elements(y.lru) = Elements(x.lru) \cap (Regions \ {r})
    BY <2>2, RemoveLRUEffect
  <2>. HIDE DEF y
  <2>4. u \in Nat /\ e \in Nat /\ e = IF x.evicting >= c THEN x.evicting - c ELSE 0
    BY <1>2, <2>3, SMTT(30) DEF Managers
  <2>. HIDE DEF u, e
  <2>5. z \in Managers
    BY <2>3, <2>4, ZenonT(60) DEF Managers
  <2>6. /\ SameQueue(y, z) /\ SameWork(y, z) /\ z.phase = y.phase /\ z.lru = y.lru
        /\ z.state = y.state /\ z.frame = y.frame /\ z.remote = y.remote /\ z.pte = y.pte
        /\ z.evicting = e
    BY <2>3 DEF Managers, SameQueue, SameWork
  <2>. HIDE DEF z
  <2>7. Dropped(x, z, r, c)
    BY <2>3, <2>4, <2>5, <2>6 DEF Dropped, SameQueue, SameWork
  <2>. QED BY <1>1, <1>12, <1>14, <2>1, <2>7 DEF out, c
<1>. QED BY <1>13, <1>14

LEMMA FinalizeEvictionServed ==
  ASSUME NEW m, Served(m), NEW r \in Regions
  PROVE  Served(FinalizeEviction(m, r))
<1>. DEFINE n == FinalizeEviction(m, r)
<1>1. PICK j : /\ Released(m, j, r)
               /\ \/ Out(m, r) = {} /\ n = ResumeDeferred(j, r)
                  \/ /\ Out(m, r) # {}
                     /\ Dropped(ResumeDeferred(j, r), n, r, Cardinality(Out(m, r)))
  BY FinalizeEvictionEffect DEF Served
<1>. HIDE DEF n
<1>2. Served(j)
  BY <1>1, ServedKept DEF Released, SameWork
<1>3. Served(ResumeDeferred(j, r))
  BY <1>2, ResumeDeferredServed
<1>4. \A x, c : Served(x) /\ Dropped(x, n, r, c) => Served(n)
  BY ServedKept DEF Dropped, SameWork
<1>. QED BY <1>1, <1>3, <1>4 DEF n

(* From m to k, the write-back of region r is opened. *)
WrittenBack(m, k, r) ==
  /\ k \in Managers /\ SameQueue(m, k)
  /\ k.controlOps = m.controlOps /\ k.then = m.then /\ k.events = m.events
  /\ k.sendQueue = m.sendQueue
  /\ k.frame = m.frame /\ k.remote = m.remote /\ k.pte = m.pte
  /\ k.evicting = m.evicting /\ k.lru = m.lru
  /\ \A p \in Pages :
       k.state[p] = IF p \in RegionFrames(m, r) THEN "MigratingToCPU" ELSE m.state[p]
  /\ \A s \in Regions : k.phase[s] = IF s = r THEN "Evicting" ELSE m.phase[s]
  /\ \A id \in MigrationIds : id # Evict(r) => k.migrations[id] = m.migrations[id]
  /\ k.migrations[Evict(r)].pages = RegionFrames(m, r)
  /\ k.migrations[Evict(r)].faults = {}
  /\ k.migrations[Evict(r)].dma = {}

LEMMA StartWriteBackEffect ==
  ASSUME NEW m \in Managers, NEW r \in Regions
  PROVE  LET n == StartWriteBack(m, r)
         IN  \/ RegionFrames(m, r) = {} /\ n = ResumeWaiting(FinalizeEviction(m, r), r)
             \/ /\ RegionFrames(m, r) # {}
                /\ \E k : /\ WrittenBack(m, k, r)
                          /\ n = StartTransfer(k, Evict(r)) /\ Transferred(k, n, Evict(r))
<1>. DEFINE out == RegionFrames(m, r)
            id  == Evict(r)
            mig == [pages |-> out, faults |-> {}, dma |-> {}, todo |-> <<>>,
                    invalidate |-> FALSE]
            s == [p \in Pages |-> IF p \in out THEN "MigratingToCPU" ELSE m.state[p]]
            o == [p \in Pages |-> IF p \in out THEN id ELSE m.migrationOf[p]]
            h == [m.phase EXCEPT ![r] = "Evicting"]
            g == [m.regionMig EXCEPT ![r] = id]
            i == [m.migrations EXCEPT ![id] = mig]
            k == [m EXCEPT !.state = s, !.migrationOf = o, !.phase = h,
                           !.regionMig = g, !.migrations = i]
<1>1. id \in MigrationIds
  BY IdTypes
<1>2. mig \in Migration /\ mig.pages = out /\ mig.faults = {} /\ mig.dma = {}
  <2>1. <<>> \in Seq(Regions) /\ out \subseteq Pages
    BY DEF RegionFrames, PagesOf
  <2>. QED BY <2>1 DEF Migration
<1>3. StartWriteBack(m, r) =
        IF out = {} THEN ResumeWaiting(FinalizeEviction(m, r), r) ELSE StartTransfer(k, id)
  BY DEF StartWriteBack
<1>. HIDE DEF out, id, mig
<1>4. /\ s \in [Pages -> {"CPUResident", "GPUResident", "MigratingToGPU", "MigratingToCPU"}]
      /\ o \in [Pages -> MigrationIds \cup {None}]
      /\ h \in [Regions -> {"Idle", "FaultPending", "FaultHandling",
                            "MigratingToGPU", "Evicting"}]
      /\ g \in [Regions -> MigrationIds \cup {None}]
      /\ i \in [MigrationIds -> Migration]
  BY <1>1, <1>2 DEF Managers
<1>5. /\ \A p \in Pages : s[p] = IF p \in out THEN "MigratingToCPU" ELSE m.state[p]
      /\ \A a \in Regions : h[a] = IF a = r THEN "Evicting" ELSE m.phase[a]
      /\ i[id] = mig /\ \A a \in MigrationIds : a # id => i[a] = m.migrations[a]
  BY <1>1 DEF Managers
<1>. HIDE DEF s, o, h, g, i
<1>6. k \in Managers
  BY <1>4 DEF Managers
<1>7. /\ SameQueue(m, k) /\ k.controlOps = m.controlOps /\ k.then = m.then
      /\ k.events = m.events /\ k.frame = m.frame /\ k.remote = m.remote /\ k.pte = m.pte
      /\ k.evicting = m.evicting /\ k.lru = m.lru /\ k.sendQueue = m.sendQueue
      /\ k.state = s /\ k.phase = h /\ k.migrations = i
  BY DEF Managers, SameQueue
<1>. HIDE DEF k
<1>8. WrittenBack(m, k, r)
  BY <1>2, <1>5, <1>6, <1>7 DEF WrittenBack, out, id
<1>9. Transferred(k, StartTransfer(k, id), id)
  BY <1>1, <1>6, StartTransferEffect
<1>. QED BY <1>3, <1>8, <1>9 DEF out, id

LEMMA StartWriteBackServed ==
  ASSUME NEW m, Safe(m), Served(m), NEW r \in Regions
  PROVE  Served(StartWriteBack(m, r))
<1>. DEFINE n == StartWriteBack(m, r)
<1>1. m \in Managers /\ Slot(m)
  BY DEF Served
<1>2. \/ n = ResumeWaiting(FinalizeEviction(m, r), r)
      \/ \E k : WrittenBack(m, k, r) /\ Transferred(k, n, Evict(r))
  BY <1>1, StartWriteBackEffect
<1>. HIDE DEF n
<1>3. CASE n = ResumeWaiting(FinalizeEviction(m, r), r)
  <2>1. Safe(FinalizeEviction(m, r)) /\ Served(FinalizeEviction(m, r))
    BY FinalizeEvictionSafe, FinalizeEvictionServed
  <2>. QED BY <1>3, <2>1, ResumeWaitingServed DEF n
<1>4. ASSUME NEW k, WrittenBack(m, k, r), Transferred(k, n, Evict(r))
      PROVE  Served(n)
  <2>1. /\ k \in Managers /\ SameQueue(m, k) /\ k.then = m.then
        /\ \A id \in MigrationIds : k.migrations[id].faults = m.migrations[id].faults
        /\ \A s \in Regions : k.migrations[Admit(s)] = m.migrations[Admit(s)]
    <3>1. m.migrations[Evict(r)].faults = {}
      BY <1>1 DEF Slot
    <3>2. \A id \in MigrationIds : k.migrations[id].faults = m.migrations[id].faults
      BY <1>4, <3>1 DEF WrittenBack
    <3>3. \A s \in Regions : k.migrations[Admit(s)] = m.migrations[Admit(s)]
      BY <1>4, IdTypes DEF WrittenBack
    <3>. QED BY <1>4, <3>2, <3>3 DEF WrittenBack
  <2>2. Served(k)
    BY <2>1, ServedKept
  <2>. QED BY <1>4, <2>2, SameMigrationServed, IdTypes DEF Transferred
<1>. QED BY <1>2, <1>3, <1>4 DEF n

(* From m to n, migration id is over. *)
Forgotten(m, n, id) ==
  /\ n \in Managers /\ SameQueue(m, n) /\ SameData(m, n) /\ n.phase = m.phase
  /\ n.then = m.then /\ n.controlOps = m.controlOps /\ n.events = m.events
  /\ n.migrations[id] = NoMigration
  /\ \A i \in MigrationIds : i # id => n.migrations[i] = m.migrations[i]

LEMMA ForgetMigrationEffect ==
  ASSUME NEW m \in Managers, NEW id \in MigrationIds
  PROVE  Forgotten(m, ForgetMigration(m, id), id)
<1>. DEFINE i == [m.migrations EXCEPT ![id] = NoMigration]
            o == [p \in Pages |-> IF m.migrationOf[p] = id THEN None ELSE m.migrationOf[p]]
            n == [m EXCEPT !.migrations[id] = NoMigration, !.migrationOf = o]
<1>1. ForgetMigration(m, id) = n
  BY DEF ForgetMigration
<1>2. n \in Managers
  BY <1>1, ForgetMigrationKeeps DEF KeepsFrames
<1>. HIDE DEF o
<1>3. n = [m EXCEPT !.migrations = i, !.migrationOf = o]
  OBVIOUS
<1>4. i[id] = NoMigration /\ \A a \in MigrationIds : a # id => i[a] = m.migrations[a]
  BY DEF Managers
<1>. HIDE DEF i
<1>5. /\ SameQueue(m, n) /\ SameData(m, n) /\ n.phase = m.phase
      /\ n.then = m.then /\ n.controlOps = m.controlOps /\ n.events = m.events
      /\ n.migrations = i
  BY <1>3 DEF Managers, SameQueue, SameData
<1>. HIDE DEF n
<1>6. Forgotten(m, n, id)
  BY <1>2, <1>4, <1>5 DEF Forgotten
<1>. QED BY <1>1, <1>6

(* The end of a write-back; nobody is answered by it. *)
LEMMA FinishNoneEffect ==
  ASSUME NEW m \in Managers
  PROVE  LET n == FinishFaults(m, {})
         IN  /\ n \in Managers /\ SameQueue(m, n) /\ SameWork(m, n) /\ SameData(m, n)
             /\ \A s \in Regions : n.phase[s] = m.phase[s]
<1>. DEFINE k == ReplayAll(m, Ascending({}), FALSE)
            n == RetireFaults(k, {})
<1>1. Quiet(m, k)
  BY RegionList, ReplayAllQuiet
<1>2. FinishFaults(m, {}) = n
  BY DEF FinishFaults
<1>. HIDE DEF k
<1>3. /\ n \in Managers /\ SameQueue(k, n) /\ SameWork(k, n) /\ SameData(k, n)
      /\ \A s \in Regions : n.phase[s] = k.phase[s]
  BY <1>1, RetireNone DEF Quiet
<1>. HIDE DEF n
<1>4. /\ n \in Managers /\ SameQueue(m, n) /\ SameWork(m, n) /\ SameData(m, n)
      /\ \A s \in Regions : n.phase[s] = m.phase[s]
  BY <1>1, <1>3 DEF Quiet, SameQueue, SameWork, SameData
<1>. QED BY <1>2, <1>4

(* A write-back ends: its region is released, its migration forgotten,     *)
(* nobody is answered, and what waited for it goes on.                     *)
LEMMA CompleteWriteBackEffect ==
  ASSUME NEW m, Safe(m), Served(m), NEW r \in Regions
  PROVE  \E k, n : /\ Forgotten(FinalizeEviction(m, r), k, Evict(r))
                   /\ SameQueue(k, n) /\ SameWork(k, n) /\ SameData(k, n)
                   /\ \A s \in Regions : n.phase[s] = k.phase[s]
                   /\ Safe(n) /\ Served(n)
                   /\ CompleteWriteBack(m, r) = ResumeWaiting(n, r)
<1>. DEFINE j == FinalizeEviction(m, r)
            k == ForgetMigration(j, Evict(r))
            n == FinishFaults(k, {})
<1>1. m.migrations[Evict(r)].faults = {}
  BY DEF Served, Slot
<1>2. CompleteWriteBack(m, r) = ResumeWaiting(n, r)
  BY <1>1 DEF CompleteWriteBack
<1>3. Safe(j) /\ Served(j)
  BY FinalizeEvictionSafe, FinalizeEvictionServed
<1>. HIDE DEF j
<1>4. j \in Managers /\ Slot(j) /\ Evict(r) \in MigrationIds
  BY <1>3, IdTypes DEF Served
<1>5. Safe(k) /\ Forgotten(j, k, Evict(r))
  BY <1>3, <1>4, ForgetMigrationKeeps, KeepsFramesSafe, ForgetMigrationEffect
<1>. HIDE DEF k
<1>6. /\ k \in Managers /\ SameQueue(j, k) /\ k.then = j.then
      /\ \A id \in MigrationIds : k.migrations[id].faults = j.migrations[id].faults
      /\ \A s \in Regions : k.migrations[Admit(s)] = j.migrations[Admit(s)]
  <2>1. j.migrations[Evict(r)].faults = {} /\ NoMigration.faults = {}
    BY <1>4 DEF Slot, NoMigration
  <2>2. \A id \in MigrationIds : k.migrations[id].faults = j.migrations[id].faults
    BY <1>5, <2>1 DEF Forgotten
  <2>3. \A s \in Regions : k.migrations[Admit(s)] = j.migrations[Admit(s)]
    BY <1>5, IdTypes DEF Forgotten
  <2>. QED BY <1>5, <2>2, <2>3 DEF Forgotten
<1>7. Served(k)
  BY <1>3, <1>6, ServedKept
<1>8. /\ Safe(n) /\ n \in Managers /\ SameQueue(k, n) /\ SameWork(k, n) /\ SameData(k, n)
      /\ \A s \in Regions : n.phase[s] = k.phase[s]
  BY <1>5, <1>6, FinishFaultsKeeps, KeepsFramesSafe, FinishNoneEffect
<1>. HIDE DEF n
<1>9. Served(n)
  BY <1>7, <1>8, ServedKept DEF SameWork
<1>. QED BY <1>2, <1>5, <1>8, <1>9 DEF j

LEMMA CompleteWriteBackServed ==
  ASSUME NEW m, Safe(m), Served(m), NEW r \in Regions
  PROVE  Served(CompleteWriteBack(m, r))
BY CompleteWriteBackEffect, ResumeWaitingServed

-----------------------------------------------------------------------------
(* The end of an admission.                                                *)

(* From m to y, the migration id is over and its regions are given back. *)
Closed(m, y, id) ==
  /\ y \in Managers /\ SameQueue(m, y) /\ SameData(m, y)
  /\ y.then = m.then /\ y.controlOps = m.controlOps
  /\ \A i \in MigrationIds :
       <<"MigrationComplete", i>> \in y.events <=> <<"MigrationComplete", i>> \in m.events
  /\ y.migrations[id] = NoMigration
  /\ \A i \in MigrationIds : i # id => y.migrations[i] = m.migrations[i]
  /\ \A s \in Regions :
       y.phase[s] = IF /\ s \in RegionsOfPages(m.migrations[id].pages)
                       /\ m.phase[s] = "MigratingToGPU"
                    THEN "Idle" ELSE m.phase[s]

LEMMA FinishAdmissionEffect ==
  ASSUME NEW m \in Managers, NEW id \in MigrationIds
  PROVE  \E y : /\ Closed(m, y, id)
                /\ FinishAdmission(m, id) = FinishFaults(y, m.migrations[id].faults)
<1>. DEFINE mig == m.migrations[id]
            rs  == RegionsOfPages(mig.pages)
            l == Ascending(rs)
            g == [r \in Regions |-> IF r \in rs THEN None ELSE m.regionMig[r]]
            h == [r \in Regions |->
                    IF r \in rs /\ m.phase[r] = "MigratingToGPU" THEN "Idle" ELSE m.phase[r]]
            k == [m EXCEPT !.regionMig = g, !.phase = h]
            q == QueueResets(k, l)
            x == ForgetMigration(q, id)
            y == ReplayAll(x, l, FALSE)
<1>1. mig.pages \in SUBSET Pages
  BY DEF Managers, Migration
<1>2. l \in Seq(Regions)
  BY <1>1, PageSets, RegionList
<1>3. FinishAdmission(m, id) = FinishFaults(y, m.migrations[id].faults)
  BY DEF FinishAdmission
<1>. HIDE DEF l, rs
<1>4. /\ g \in [Regions -> MigrationIds \cup {None}]
      /\ h \in [Regions -> {"Idle", "FaultPending", "FaultHandling",
                            "MigratingToGPU", "Evicting"}]
  BY DEF Managers
<1>5. \A s \in Regions :
        h[s] = IF s \in rs /\ m.phase[s] = "MigratingToGPU" THEN "Idle" ELSE m.phase[s]
  OBVIOUS
<1>. HIDE DEF g, h
<1>6. k \in Managers /\ SameQueue(m, k) /\ SameWork(m, k) /\ SameData(m, k) /\ k.phase = h
  BY <1>4 DEF Managers, SameQueue, SameWork, SameData
<1>. HIDE DEF k
<1>7. Quiet(k, q)
  BY <1>2, <1>6, QueueResetsQuiet
<1>. HIDE DEF q
<1>8. Forgotten(q, x, id)
  BY <1>7, ForgetMigrationEffect DEF Quiet
<1>. HIDE DEF x
<1>9. Quiet(x, y)
  BY <1>2, <1>8, ReplayAllQuiet DEF Forgotten
<1>. HIDE DEF y
<1>10. /\ y \in Managers /\ SameQueue(m, y) /\ SameData(m, y)
       /\ y.then = m.then /\ y.controlOps = m.controlOps /\ y.phase = h
       /\ \A i \in MigrationIds :
            <<"MigrationComplete", i>> \in y.events <=> <<"MigrationComplete", i>> \in m.events
  BY <1>6, <1>7, <1>8, <1>9 DEF Quiet, Forgotten, SameQueue, SameWork, SameData
<1>11. /\ y.migrations[id] = NoMigration
       /\ \A i \in MigrationIds : i # id => y.migrations[i] = m.migrations[i]
  BY <1>6, <1>7, <1>8, <1>9 DEF Quiet, Forgotten, SameWork
<1>12. Closed(m, y, id)
  BY <1>5, <1>10, <1>11 DEF Closed, rs
<1>. QED BY <1>3, <1>12

(* With its admission the active transaction has nothing left. *)
LEMMA ClosedClosing ==
  ASSUME NEW m, Served(m), NEW s \in Regions, m.migrations[Admit(s)] # NoMigration,
         NEW y, Closed(m, y, Admit(s))
  PROVE  Closing(y, s) /\ m.migrations[Admit(s)].faults = {s}
<1>1. m \in Managers /\ Slot(m)
  BY DEF Served
<1>2. m.faults[s] = "Migrating" /\ m.migrations[Admit(s)].faults = {s}
  BY <1>1 DEF Slot
<1>3. \A r \in Regions : y.migrations[Admit(r)] = NoMigration
  BY <1>1, <1>2, IdTypes DEF Slot, Closed
<1>4. \A r \in Regions : y.migrations[Evict(r)] = m.migrations[Evict(r)]
  BY IdTypes DEF Closed
<1>5. \A v \in Regions : y.then[v] = None
  <2>1. \A v \in Regions : m.then[v] # None => m.then[v].txn \in Regions
    BY <1>1 DEF Managers, Waiting
  <2>. QED BY <1>1, <1>2, <2>1 DEF Slot, Closed
<1>6. Slot(y)
  BY <1>1, <1>3, <1>4, <1>5 DEF Slot, Closed, SameQueue
<1>7. Queued(y)
  BY DEF Served, Queued, Closed, SameQueue
<1>. QED BY <1>2, <1>3, <1>5, <1>6, <1>7 DEF Closing, Served, Closed, SameQueue

LEMMA FinishAdmissionServed ==
  ASSUME NEW m, Served(m), NEW id \in MigrationIds, id[1] = "admit"
  PROVE  Served(FinishAdmission(m, id))
<1>1. m \in Managers
  BY DEF Served
<1>2. PICK y : /\ Closed(m, y, id)
               /\ FinishAdmission(m, id) = FinishFaults(y, m.migrations[id].faults)
  BY <1>1, FinishAdmissionEffect
<1>3. PICK s \in Regions : id = Admit(s)
  BY IdTypes
<1>4. CASE m.migrations[id] = NoMigration
  <2>1. m.migrations[id].faults = {}
    BY <1>4 DEF NoMigration
  <2>2. \A i \in MigrationIds : y.migrations[i] = m.migrations[i]
    BY <1>2, <1>4 DEF Closed
  <2>3. Served(y)
    BY <1>2, <2>2, ServedKept, IdTypes DEF Closed
  <2>4. LET n == FinishFaults(y, {})
        IN  n \in Managers /\ SameQueue(y, n) /\ SameWork(y, n)
    BY <1>2, FinishNoneEffect DEF Closed
  <2>. QED BY <1>2, <2>1, <2>3, <2>4, ServedKept DEF SameWork
<1>5. CASE m.migrations[id] # NoMigration
  BY <1>2, <1>3, <1>5, ClosedClosing, FinishFaultsServed
<1>. QED BY <1>4, <1>5

LEMMA InvalidateNextEffect ==
  ASSUME NEW m \in Managers, NEW id \in MigrationIds, id[1] = "admit"
  PROVE  LET n == InvalidateNext(m, id)
         IN  n = FinishAdmission(m, id) \/ Asked(m, n, id, "TLBInvalidate")
BY AskEffect DEF InvalidateNext

LEMMA InvalidateNextServed ==
  ASSUME NEW m, Served(m), NEW id \in MigrationIds, id[1] = "admit"
  PROVE  Served(InvalidateNext(m, id))
BY InvalidateNextEffect, FinishAdmissionServed, SameMigrationServed DEF Served, Asked

(* From m to l, the pages of migration id are in the memory of the GPU. *)
Arrived(m, l, id) ==
  /\ l \in Managers /\ SameQueue(m, l)
  /\ l.then = m.then /\ l.controlOps = m.controlOps /\ l.phase = m.phase
  /\ l.frame = m.frame /\ l.evicting = m.evicting
  /\ \A i \in MigrationIds :
       <<"MigrationComplete", i>> \in l.events <=> <<"MigrationComplete", i>> \in m.events
  /\ \A p \in Pages :
       LET arrived == p \in m.migrations[id].pages
       IN  /\ l.state[p] = IF arrived THEN "GPUResident" ELSE m.state[p]
           /\ l.remote[p] = (m.remote[p] /\ ~arrived)
           /\ l.pte[p] = IF arrived THEN "Local" ELSE m.pte[p]
  /\ Elements(l.lru) = Elements(m.lru) \cup RegionsOfPages(m.migrations[id].pages)
  /\ \A i \in MigrationIds : i # id => l.migrations[i] = m.migrations[i]
  /\ l.migrations[id].pages = m.migrations[id].pages
  /\ l.migrations[id].faults = m.migrations[id].faults
  /\ l.migrations[id].dma = m.migrations[id].dma

LEMMA CompleteAdmissionEffect ==
  ASSUME NEW m \in Managers, NEW id \in MigrationIds, m.migrations[id] # NoMigration
  PROVE  \E l : Arrived(m, l, id) /\ CompleteAdmission(m, id) = InvalidateNext(l, id)
<1>. DEFINE mig == m.migrations[id]
            rs  == RegionsOfPages(mig.pages)
            ls  == Ascending(rs)
            s == [p \in Pages |-> IF p \in mig.pages THEN "GPUResident" ELSE m.state[p]]
            v == [p \in Pages |-> m.remote[p] /\ p \notin mig.pages]
            t == [p \in Pages |-> IF p \in mig.pages THEN "Local" ELSE m.pte[p]]
            k == [m EXCEPT !.state = s, !.remote = v, !.pte = t]
            l == AddLRU(k, ls)
            n == WithTodo(l, id, ls)
<1>1. rs \in SUBSET Regions /\ ls \in Seq(Regions) /\ Elements(ls) = rs
  <2>1. mig.pages \in SUBSET Pages
    BY DEF Managers, Migration
  <2>. QED BY <2>1, PageSets, RegionList
<1>2. CompleteAdmission(m, id) = InvalidateNext(IF mig.invalidate THEN n ELSE l, id)
  BY DEF CompleteAdmission, WithTodo
<1>3. /\ s \in [Pages -> {"CPUResident", "GPUResident", "MigratingToGPU", "MigratingToCPU"}]
      /\ v \in [Pages -> BOOLEAN]
      /\ t \in [Pages -> {"Invalid", "Remote", "Migrating", "Local"}]
  BY DEF Managers
<1>4. \A p \in Pages :
        /\ s[p] = IF p \in m.migrations[id].pages THEN "GPUResident" ELSE m.state[p]
        /\ v[p] = (m.remote[p] /\ ~(p \in m.migrations[id].pages))
        /\ t[p] = IF p \in m.migrations[id].pages THEN "Local" ELSE m.pte[p]
  OBVIOUS
<1>. HIDE DEF ls, s, v, t
<1>5. /\ k \in Managers /\ SameQueue(m, k) /\ SameWork(m, k) /\ k.phase = m.phase
      /\ k.frame = m.frame /\ k.evicting = m.evicting /\ k.lru = m.lru
      /\ k.state = s /\ k.remote = v /\ k.pte = t
  BY <1>3 DEF Managers, SameQueue, SameWork
<1>. HIDE DEF k
<1>6. /\ l \in Managers /\ SameQueue(k, l) /\ SameWork(k, l) /\ l.phase = k.phase
      /\ l.state = k.state /\ l.frame = k.frame /\ l.remote = k.remote
      /\ l.pte = k.pte /\ l.evicting = k.evicting
      /\ Elements(l.lru) = Elements(k.lru) \cup rs
  BY <1>1, <1>5, AddLRUEffect
<1>. HIDE DEF l
<1>7. /\ SameQueue(m, l) /\ SameWork(m, l)
  BY <1>5, <1>6 DEF SameQueue, SameWork
<1>8. Arrived(m, l, id)
  BY <1>4, <1>5, <1>6, <1>7 DEF Arrived, SameWork
<1>9. l.migrations[id] # NoMigration
  BY <1>7 DEF SameWork
<1>10. /\ SameMigration(l, n, id) /\ n.controlOps = l.controlOps
       /\ n.migrations[id].dma = l.migrations[id].dma /\ n.events = l.events
  BY <1>1, <1>6, <1>9, TodoEffect
<1>. HIDE DEF n, rs
<1>11. Arrived(m, n, id)
  BY <1>8, <1>10 DEF Arrived, SameMigration, SameQueue, SameData
<1>. QED BY <1>2, <1>8, <1>11

LEMMA CompleteAdmissionServed ==
  ASSUME NEW m, Served(m), NEW id \in MigrationIds, id[1] = "admit",
         m.migrations[id] # NoMigration
  PROVE  Served(CompleteAdmission(m, id))
<1>1. m \in Managers
  BY DEF Served
<1>2. PICK l : Arrived(m, l, id) /\ CompleteAdmission(m, id) = InvalidateNext(l, id)
  BY <1>1, CompleteAdmissionEffect
<1>3. /\ l \in Managers /\ SameQueue(m, l) /\ l.then = m.then
      /\ \A i \in MigrationIds : l.migrations[i].faults = m.migrations[i].faults
      /\ \A i \in MigrationIds : l.migrations[i] # NoMigration => m.migrations[i] # NoMigration
  BY <1>2 DEF Arrived
<1>4. Served(l)
  BY <1>3, ServedKept, IdTypes
<1>. QED BY <1>2, <1>4, InvalidateNextServed

-----------------------------------------------------------------------------
(* The service of a fault.                                                 *)

LEMMA SelectionAlone ==
  ASSUME NEW m, NEW r \in Regions
  PROVE  LET sel == Selection(Resident(m), InFlight(m), r)
         IN  /\ sel \in SUBSET Pages
             /\ PrefetchDisabled => sel \subseteq PagesOf(r)
<1>. DEFINE sel == Selection(Resident(m), InFlight(m), r)
<1>1. sel \in SUBSET Pages
  BY DEF Selection, NodePages
<1>2. ASSUME PrefetchDisabled
      PROVE  sel \subseteq PagesOf(r)
  <2>1. sel \subseteq NodePages(r, 0)
    BY <1>2 DEF Selection, FetchLevel
  <2>2. Width[0] = 1 /\ \A x \in Nat : x \div 1 = x
    <3>1. PICK f : Doubles(f, MaxFetchLevel)
      BY DoublingExists, TBNAssumption
    <3>2. Doubles(Width, MaxFetchLevel)
      BY <3>1 DEF Doubles, Width
    <3>. QED BY <3>2, DoublingGrows, TBNAssumption
  <2>3. \A p \in Pages : RegionOf(p) \in Nat /\ r \in Nat
    BY RegionType
  <2>4. NodePages(r, 0) = PagesOf(r)
    BY <2>2, <2>3 DEF NodePages, PagesOf
  <2>. QED BY <2>1, <2>4
<1>. QED BY <1>1, <1>2

LEMMA ServiceFaultEffect ==
  ASSUME NEW m, NEW r \in Regions, Serving(m, r)
  PROVE  LET n == ServiceFault(m, r)
         IN  \/ n = FinishFaults(m, {r})
             \/ \E sel \in SUBSET Pages :
                  (PrefetchDisabled => sel \subseteq PagesOf(r)) /\ n = WithCapacity(m, r, sel)
<1>1. CoveringMigration(m, r) = None
  BY ServingClosing, NoCovering DEF Closing
<1>. QED BY <1>1, SelectionAlone DEF ServiceFault

LEMMA ServiceFaultServed ==
  ASSUME NEW m, NEW r \in Regions, Serving(m, r)
  PROVE  Served(ServiceFault(m, r))
BY ServiceFaultEffect, ServingClosing, FinishFaultsServed, WithCapacityServed

(* From m to n, nothing but the events and the messages may have changed. *)
SameButEvents(m, n) ==
  /\ KeepsFrames(m, n) /\ SameData(m, n) /\ n.phase = m.phase
  /\ n.faults = m.faults /\ n.cue = m.cue /\ n.active = m.active /\ n.deferred = m.deferred
  /\ n.migrations = m.migrations /\ n.then = m.then /\ n.controlOps = m.controlOps

(* From m to k, the transaction r is being handled. *)
Handled(m, k, r) ==
  /\ KeepsFrames(m, k) /\ SameWork(m, k) /\ SameData(m, k) /\ k.events = m.events
  /\ k.cue = m.cue /\ k.active = m.active /\ k.deferred = m.deferred
  /\ \A s \in Regions : /\ k.faults[s] = IF s = r THEN "Handling" ELSE m.faults[s]
                        /\ k.phase[s] = IF s = r THEN "FaultHandling" ELSE m.phase[s]

LEMMA FaultReadyEffect ==
  ASSUME uvm \in Managers, NEW r \in Regions, FaultReady(r)
  PROVE  \E n : /\ SameButEvents(uvm, n)
                /\ n.events = uvm.events \ {<<"FaultReady", r>>}
                /\ \/ uvm' = n
                   \/ /\ uvm.faults[r] = "Pending" /\ uvm.phase[r] = "Evicting"
                      /\ uvm' = ParkFault(n, r)
                   \/ /\ uvm.faults[r] = "Pending" /\ uvm.phase[r] # "Evicting"
                      /\ \E k : Handled(n, k, r) /\ uvm' = ServiceFault(k, r)
<1>. DEFINE m == uvm
            e == uvm.events \ {<<"FaultReady", r>>}
            n == [m EXCEPT !.events = e]
            f == [n.faults EXCEPT ![r] = "Handling"]
            h == [n.phase EXCEPT ![r] = "FaultHandling"]
            k == [n EXCEPT !.faults[r] = "Handling", !.phase[r] = "FaultHandling"]
<1>1. uvm' = IF n.faults[r] # "Pending" THEN n
             ELSE IF n.phase[r] = "Evicting" THEN ParkFault(n, r)
             ELSE ServiceFault(k, r)
  BY DEF FaultReady
<1>2. e \subseteq Events
  BY DEF Managers
<1>. HIDE DEF e
<1>3. SameButEvents(uvm, n) /\ n.events = e
  BY <1>2 DEF Managers, SameButEvents, SameData, KeepsFrames
<1>. HIDE DEF n
<1>4. n \in Managers /\ n.faults = uvm.faults /\ n.phase = uvm.phase
  BY <1>3 DEF SameButEvents, KeepsFrames
<1>5. /\ f \in [Regions -> {"None", "Pending", "Handling", "Migrating"}]
      /\ h \in [Regions -> {"Idle", "FaultPending", "FaultHandling",
                            "MigratingToGPU", "Evicting"}]
      /\ \A s \in Regions : /\ f[s] = IF s = r THEN "Handling" ELSE n.faults[s]
                            /\ h[s] = IF s = r THEN "FaultHandling" ELSE n.phase[s]
  BY <1>4 DEF Managers
<1>6. k = [n EXCEPT !.faults = f, !.phase = h]
  OBVIOUS
<1>. HIDE DEF f, h
<1>7. /\ KeepsFrames(n, k) /\ SameWork(n, k) /\ SameData(n, k) /\ k.events = n.events
      /\ k.cue = n.cue /\ k.active = n.active /\ k.deferred = n.deferred
      /\ k.faults = f /\ k.phase = h
  BY <1>4, <1>5, <1>6 DEF Managers, SameWork, SameData, KeepsFrames
<1>. HIDE DEF k
<1>8. Handled(n, k, r)
  BY <1>5, <1>7 DEF Handled
<1>. QED BY <1>1, <1>3, <1>4, <1>8 DEF e

(* With its event taken, the transaction r can be handled. *)
LEMMA HandledServing ==
  ASSUME NEW m, Served(m), NEW r \in Regions, m.active = r, m.faults[r] = "Pending",
         <<"FaultReady", r>> \notin m.events,
         NEW k, Safe(k), Handled(m, k, r)
  PROVE  Serving(k, r)
<1>1. m \in Managers /\ Slot(m) /\ Queued(m)
  BY DEF Served
<1>2. Queued(k)
  <2>1. \A s \in Regions : (k.faults[s] # "None") = (m.faults[s] # "None")
    BY DEF Handled
  <2>. QED BY <1>1, <2>1 DEF Queued, Handled
<1>3. \A v \in Regions : k.then[v] = None
  <2>1. \A v \in Regions : m.then[v] # None => m.then[v].txn \in Regions
    BY <1>1 DEF Managers, Waiting
  <2>. QED BY <1>1, <2>1 DEF Slot, Handled, SameWork
<1>4. Slot(k)
  BY <1>1, <1>3 DEF Slot, Handled, SameWork
<1>. QED BY <1>2, <1>3, <1>4 DEF Serving, Served, Handled, KeepsFrames

LEMMA FaultReadyServed ==
  ASSUME Safe(uvm), Served(uvm), NEW r \in Regions, FaultReady(r)
  PROVE  Served(uvm')
<1>1. uvm \in Managers /\ Slot(uvm) /\ Queued(uvm)
  BY DEF Served
<1>2. PICK n : /\ SameButEvents(uvm, n)
               /\ n.events = uvm.events \ {<<"FaultReady", r>>}
               /\ \/ uvm' = n
                  \/ /\ uvm.faults[r] = "Pending" /\ uvm.phase[r] = "Evicting"
                     /\ uvm' = ParkFault(n, r)
                  \/ /\ uvm.faults[r] = "Pending" /\ uvm.phase[r] # "Evicting"
                     /\ \E k : Handled(n, k, r) /\ uvm' = ServiceFault(k, r)
  BY <1>1, FaultReadyEffect
<1>3. uvm.active = r /\ uvm.faults[r] = "Pending"
  BY <1>1 DEF FaultReady, Slot
<1>4. Slot(n) /\ Queued(n)
  BY <1>1, <1>2 DEF Slot, Queued, SameButEvents
<1>5. /\ Served(n) /\ n.active = r /\ n.faults[r] = "Pending"
      /\ <<"FaultReady", r>> \notin n.events
  BY <1>2, <1>3, <1>4 DEF Served, SameButEvents, KeepsFrames
<1>6. ASSUME NEW k, Handled(n, k, r), uvm' = ServiceFault(k, r)
      PROVE  Served(uvm')
  <2>1. Safe(k)
    BY <1>2, <1>6, KeepsFramesSafe DEF Handled, SameButEvents
  <2>. QED BY <1>5, <1>6, <2>1, HandledServing, ServiceFaultServed
<1>7. CASE uvm' = n
  BY <1>5, <1>7
<1>8. CASE uvm' = ParkFault(n, r)
  BY <1>5, <1>8, ParkFaultServed
<1>9. CASE \E k : Handled(n, k, r) /\ uvm' = ServiceFault(k, r)
  BY <1>6, <1>9
<1>. QED BY <1>2, <1>7, <1>8, <1>9

-----------------------------------------------------------------------------
(* The other entry points.                                                 *)

(* A step that the fault queue, the migrations and the evictions do not see. *)
Unseen(m, n) ==
  /\ KeepsFrames(m, n) /\ SameQueue(m, n) /\ SameWork(m, n) /\ n.phase = m.phase
  /\ n.state = m.state /\ n.evicting = m.evicting /\ n.lru = m.lru

LEMMA PageFaultEffect ==
  ASSUME uvm \in Managers, NEW p \in Pages, NEW isWrite \in BOOLEAN, PageFault(p, isWrite)
  PROVE  \/ Quiet(uvm, uvm') /\ KeepsFrames(uvm, uvm')
         \/ uvm.faults[RegionOf(p)] = "None" /\ uvm' = OpenFault(uvm, RegionOf(p))
<1>. DEFINE m == uvm
            r == RegionOf(p)
            e == m.events \cup {<<"RemoteMap", r>>}
            n == [m EXCEPT !.remoteMaps = @ \cup {r}, !.events = e]
<1>1. r \in Regions
  BY RegionType
<1>2. \/ uvm' = uvm
      \/ uvm' = n
      \/ uvm.faults[r] = "None" /\ uvm' = OpenFault(uvm, r)
  BY DEF PageFault
<1>3. Quiet(m, m) /\ KeepsFrames(m, m)
  BY DEF Quiet, SameQueue, SameWork, SameData, KeepsFrames
<1>4. /\ e \subseteq Events
      /\ \A s \in Regions : <<"FaultReady", s>> \in e <=> <<"FaultReady", s>> \in m.events
      /\ \A id \in MigrationIds :
           <<"MigrationComplete", id>> \in e <=> <<"MigrationComplete", id>> \in m.events
  BY <1>1 DEF Events, Managers
<1>. HIDE DEF e, r
<1>5. n \in Managers
  BY <1>1, <1>4, ZenonT(60) DEF Managers
<1>6. Quiet(m, n) /\ KeepsFrames(m, n)
  BY <1>4, <1>5 DEF Quiet, SameQueue, SameWork, SameData, KeepsFrames, Managers
<1>. HIDE DEF n
<1>. QED BY <1>2, <1>3, <1>6 DEF r

LEMMA RemoteMapEffect ==
  ASSUME uvm \in Managers, NEW r \in Regions, RemoteMapComplete(r)
  PROVE  /\ Unseen(uvm, uvm')
         /\ \A p \in Pages :
              \/ uvm'.pte[p] = uvm.pte[p] /\ (uvm.remote[p] => uvm'.remote[p])
              \/ uvm.state[p] = "CPUResident" /\ uvm'.pte[p] = "Remote" /\ uvm'.remote[p]
<1>. DEFINE m == uvm
            cold == ColdPages(uvm, r)
            v == [p \in Pages |-> uvm.remote[p] \/ p \in cold]
            t == [p \in Pages |-> IF p \in cold THEN "Remote" ELSE uvm.pte[p]]
            e == uvm.events \ {<<"RemoteMap", r>>}
            n == [m EXCEPT !.events = e, !.remoteMaps = @ \ {r}, !.remote = v, !.pte = t]
            l == ReplayAll(n, <<r>>, FALSE)
<1>1. uvm' = l
  BY DEF RemoteMapComplete
<1>2. /\ v \in [Pages -> BOOLEAN]
      /\ t \in [Pages -> {"Invalid", "Remote", "Migrating", "Local"}]
      /\ e \subseteq Events
      /\ \A s \in Regions : <<"FaultReady", s>> \in e <=> <<"FaultReady", s>> \in m.events
      /\ \A id \in MigrationIds :
           <<"MigrationComplete", id>> \in e <=> <<"MigrationComplete", id>> \in m.events
  BY DEF Managers
<1>3. \A p \in Pages :
        \/ t[p] = m.pte[p] /\ (m.remote[p] => v[p])
        \/ m.state[p] = "CPUResident" /\ t[p] = "Remote" /\ v[p]
  BY DEF ColdPages
<1>. HIDE DEF v, t, e
<1>4. n \in Managers
  BY <1>2 DEF Managers
<1>5. Unseen(m, n) /\ n.remote = v /\ n.pte = t
  BY <1>2, <1>4 DEF Managers, Unseen, KeepsFrames, SameQueue, SameWork
<1>. HIDE DEF n
<1>6. Quiet(n, l) /\ KeepsFrames(n, l)
  BY <1>4, OneRegion, ReplayAllQuiet, ReplayAllKeeps
<1>. HIDE DEF l
<1>7. Unseen(m, l) /\ l.remote = v /\ l.pte = t
  BY <1>5, <1>6 DEF Unseen, Quiet, KeepsFrames, SameQueue, SameWork, SameData
<1>. QED BY <1>1, <1>3, <1>7

(* From m to n, the transfer of one page of migration id ended. *)
Moved(m, n, id) ==
  /\ SameMigration(m, n, id) /\ n.controlOps = m.controlOps
  /\ m.migrations[id].dma # {} /\ n.migrations[id].dma \subseteq m.migrations[id].dma
  /\ \A i \in MigrationIds :
       <<"MigrationComplete", i>> \in n.events <=>
         \/ <<"MigrationComplete", i>> \in m.events
         \/ i = id /\ n.migrations[id].dma = {}

LEMMA DMADoneEffect ==
  ASSUME uvm \in Managers, NEW id \in MigrationIds, NEW p \in Pages, DMADone(id, p)
  PROVE  Moved(uvm, uvm', id)
<1>. DEFINE m == uvm
            x == [m.migrations[id] EXCEPT !.dma = @ \ {p}]
            g == [m.migrations EXCEPT ![id].dma = @ \ {p}]
            e == IF m.migrations[id].dma = {p}
                 THEN m.events \cup {<<"MigrationComplete", id>>} ELSE m.events
            n == [m EXCEPT !.migrations = g, !.events = e]
<1>1. uvm' = n /\ p \in m.migrations[id].dma
  BY DEF DMADone
<1>2. /\ m.migrations \in [MigrationIds -> Migration] /\ m.migrations[id] \in Migration
      /\ m.events \subseteq Events
  BY DEF Managers
<1>3. /\ x \in Migration
      /\ x.pages = m.migrations[id].pages /\ x.faults = m.migrations[id].faults
      /\ x.dma = m.migrations[id].dma \ {p}
  BY <1>2 DEF Migration
<1>4. g[id] = x /\ \A i \in MigrationIds : i # id => g[i] = m.migrations[i]
  BY <1>2
<1>5. g \in [MigrationIds -> Migration] /\ e \subseteq Events
  <2>1. g \in [MigrationIds -> Migration]
    BY <1>2, <1>3
  <2>2. <<"MigrationComplete", id>> \in Events
    BY DEF Events
  <2>. QED BY <1>2, <2>1, <2>2
<1>6. /\ \A s \in Regions : <<"FaultReady", s>> \in e <=> <<"FaultReady", s>> \in m.events
      /\ \A i \in MigrationIds :
           <<"MigrationComplete", i>> \in e <=>
             <<"MigrationComplete", i>> \in m.events \/ (i = id /\ m.migrations[id].dma = {p})
  OBVIOUS
<1>7. m.migrations[id] # NoMigration
  BY <1>1 DEF NoMigration
<1>. HIDE DEF g, e, x
<1>8. n \in Managers
  BY <1>5 DEF Managers
<1>9. /\ n.migrations = g /\ n.events = e /\ n.faults = m.faults /\ n.cue = m.cue
      /\ n.active = m.active /\ n.deferred = m.deferred /\ SameData(m, n)
      /\ n.phase = m.phase /\ n.then = m.then /\ n.controlOps = m.controlOps
  BY DEF Managers, SameData
<1>. HIDE DEF n
<1>10. SameMigration(m, n, id)
  BY <1>3, <1>4, <1>6, <1>7, <1>8, <1>9 DEF SameMigration, SameQueue
<1>11. n.migrations[id].dma = m.migrations[id].dma \ {p}
  BY <1>3, <1>4, <1>9
<1>12. m.migrations[id].dma = {p} <=> n.migrations[id].dma = {}
  BY <1>1, <1>11
<1>13. Moved(m, n, id)
  BY <1>1, <1>6, <1>9, <1>10, <1>11, <1>12 DEF Moved
<1>. QED BY <1>1, <1>13

LEMMA MigrationCompleteEffect ==
  ASSUME uvm \in Managers, NEW id \in MigrationIds, MigrationComplete(id)
  PROVE  \E n : /\ SameButEvents(uvm, n)
                /\ n.events = uvm.events \ {<<"MigrationComplete", id>>}
                /\ <<"MigrationComplete", id>> \in uvm.events
                /\ \/ uvm.migrations[id] = NoMigration /\ uvm' = n
                   \/ /\ uvm.migrations[id] # NoMigration /\ id[1] = "admit"
                      /\ uvm' = CompleteAdmission(n, id)
                   \/ /\ uvm.migrations[id] # NoMigration /\ id[1] # "admit"
                      /\ uvm' = CompleteWriteBack(n, id[2])
<1>. DEFINE m == uvm
            e == uvm.events \ {<<"MigrationComplete", id>>}
            n == [m EXCEPT !.events = e]
<1>1. /\ <<"MigrationComplete", id>> \in uvm.events
      /\ uvm' = IF n.migrations[id] = NoMigration THEN n
                ELSE IF id[1] = "admit" THEN CompleteAdmission(n, id)
                ELSE CompleteWriteBack(n, id[2])
  BY DEF MigrationComplete
<1>2. e \subseteq Events
  BY DEF Managers
<1>. HIDE DEF e
<1>3. SameButEvents(uvm, n) /\ n.events = e
  BY <1>2 DEF Managers, SameButEvents, SameData, KeepsFrames
<1>. HIDE DEF n
<1>4. n.migrations = uvm.migrations
  BY <1>3 DEF SameButEvents
<1>. QED BY <1>1, <1>3, <1>4 DEF e

(* From m to n, the control operation op was answered. *)
Answered(m, n, op) ==
  /\ KeepsFrames(m, n) /\ SameQueue(m, n) /\ SameData(m, n) /\ n.phase = m.phase
  /\ n.migrations = m.migrations /\ n.then = m.then /\ n.events = m.events
  /\ n.controlOps = m.controlOps \ {op}

LEMMA ControlRspEffect ==
  ASSUME uvm \in Managers, NEW op \in ControlOps, ControlRsp(op)
  PROVE  /\ op \in uvm.controlOps
         /\ \E n : /\ Answered(uvm, n, op)
                   /\ \/ /\ op.for[1] = "evict" /\ op.kind = "TLBInvalidate"
                         /\ Requested(n, uvm', "CacheRangeFlush", <<op.region>>, EvictOf)
                      \/ /\ op.for[1] = "evict" /\ op.kind = "CacheRangeFlush"
                         /\ uvm' = StartWriteBack(n, op.region)
                      \/ /\ op.for[1] = "admit" /\ op.kind = "RemoteDrain"
                         /\ uvm' = DrainNext(n, op.for)
                      \/ /\ op.for[1] = "admit" /\ op.kind = "TLBInvalidate"
                         /\ uvm' = InvalidateNext(n, op.for)
<1>. DEFINE m == uvm
            e == uvm.controlOps \ {op}
            n == [m EXCEPT !.controlOps = e]
            flush == Request(n, "CacheRangeFlush", <<op.region>>, EvictOf)
            a == op.for[1] = "evict" /\ op.kind = "TLBInvalidate"
            b == op.for[1] = "evict" /\ op.kind = "CacheRangeFlush"
            c == op.for[1] = "admit" /\ op.kind = "RemoteDrain"
            d == op.for[1] = "admit" /\ op.kind = "TLBInvalidate"
<1>1. a \/ b \/ c \/ d
  BY DEF ControlOps
<1>2. uvm' = CASE a -> flush
               [] b -> StartWriteBack(n, op.region)
               [] c -> DrainNext(n, op.for)
               [] d -> InvalidateNext(n, op.for)
  BY DEF ControlRsp
<1>3. e \subseteq ControlOps
  BY DEF Managers
<1>. HIDE DEF e
<1>4. Answered(uvm, n, op)
  <2>1. KeepsFrames(m, n) /\ n.controlOps = e
    BY <1>3 DEF KeepsFrames, Managers
  <2>2. /\ SameQueue(m, n) /\ SameData(m, n) /\ n.phase = m.phase
        /\ n.migrations = m.migrations /\ n.then = m.then /\ n.events = m.events
    BY DEF Managers, SameQueue, SameData
  <2>. HIDE DEF n
  <2>. QED BY <2>1, <2>2 DEF Answered, e
<1>5. n \in Managers
  BY <1>4 DEF Answered, KeepsFrames
<1>. HIDE DEF n
<1>6. Requested(n, flush, "CacheRangeFlush", <<op.region>>, EvictOf)
  <2>1. op.region \in Regions
    BY DEF ControlOps
  <2>2. \A r \in Regions : Operation("CacheRangeFlush", r, EvictOf[r]) \in ControlOps
    BY DEF EvictOf, Evict, ControlOps, Operation
  <2>. QED BY <1>5, <2>1, <2>2, OneRegion, RequestEffect
<1>. HIDE DEF flush
<1>7. \/ a /\ uvm' = flush
      \/ b /\ uvm' = StartWriteBack(n, op.region)
      \/ c /\ uvm' = DrainNext(n, op.for)
      \/ d /\ uvm' = InvalidateNext(n, op.for)
  <2>. HIDE DEF a, b, c, d
  <2>. QED BY <1>1, <1>2
<1>8. op \in uvm.controlOps
  BY DEF ControlRsp
<1>. QED BY <1>4, <1>6, <1>7, <1>8

LEMMA NotifyEffect ==
  ASSUME uvm \in Managers, NEW r \in Regions, AccessCounterNotify(r)
  PROVE  uvm' = uvm \/ (uvm.faults[r] = "None" /\ uvm' = OpenFault(uvm, r))
BY DEF AccessCounterNotify

LEMMA SendEffect ==
  ASSUME uvm \in Managers, SendControl \/ SendReset
  PROVE  Quiet(uvm, uvm')
<1>. DEFINE m == uvm
<1>1. CASE SendControl
  <2>. DEFINE q == Tail(uvm.sendQueue)
  <2>1. q \in Seq(Messages)
    BY <1>1 DEF SendControl, Managers
  <2>2. uvm' = [m EXCEPT !.sendQueue = q]
    BY <1>1 DEF SendControl
  <2>. HIDE DEF q
  <2>3. uvm' \in Managers
    BY <2>1, <2>2 DEF Managers
  <2>4. \A n : n = [m EXCEPT !.sendQueue = q] =>
          SameQueue(m, n) /\ SameWork(m, n) /\ SameData(m, n) /\ n.phase = m.phase
    BY DEF SameQueue, SameWork, SameData, Managers
  <2>. QED BY <2>2, <2>3, <2>4 DEF Quiet
<1>2. CASE SendReset
  <2>. DEFINE q == Tail(uvm.resets)
  <2>1. q \in Seq(Regions)
    BY <1>2 DEF SendReset, Managers
  <2>2. uvm' = [m EXCEPT !.resets = q]
    BY <1>2 DEF SendReset
  <2>. HIDE DEF q
  <2>3. uvm' \in Managers
    BY <2>1, <2>2 DEF Managers
  <2>4. \A n : n = [m EXCEPT !.resets = q] =>
          SameQueue(m, n) /\ SameWork(m, n) /\ SameData(m, n) /\ n.phase = m.phase
    BY DEF SameQueue, SameWork, SameData, Managers
  <2>. QED BY <2>2, <2>3, <2>4 DEF Quiet
<1>. QED BY <1>1, <1>2

-----------------------------------------------------------------------------
(* The invariant of the fault service.                                     *)

LEMMA FaultStepsServed ==
  ASSUME Safe(uvm), Served(uvm)
  PROVE  /\ \A p \in Pages, isWrite \in BOOLEAN : PageFault(p, isWrite) => Served(uvm')
         /\ \A r \in Regions : AccessCounterNotify(r) => Served(uvm')
         /\ \A r \in Regions : FaultReady(r) => Served(uvm')
         /\ \A r \in Regions : RemoteMapComplete(r) => Served(uvm')
         /\ SendControl \/ SendReset => Served(uvm')
<1>1. uvm \in Managers
  BY DEF Served
<1>2. ASSUME NEW p \in Pages, NEW isWrite \in BOOLEAN, PageFault(p, isWrite)
      PROVE  Served(uvm')
  BY <1>1, <1>2, RegionType, PageFaultEffect, QuietServed, OpenFaultServed
<1>3. ASSUME NEW r \in Regions, AccessCounterNotify(r)
      PROVE  Served(uvm')
  BY <1>1, <1>3, NotifyEffect, OpenFaultServed
<1>4. ASSUME NEW r \in Regions, RemoteMapComplete(r)
      PROVE  Served(uvm')
  <2>1. Unseen(uvm, uvm')
    BY <1>1, <1>4, RemoteMapEffect
  <2>. QED BY <2>1, ServedKept DEF Unseen, KeepsFrames, SameWork
<1>5. SendControl \/ SendReset => Served(uvm')
  BY <1>1, SendEffect, QuietServed
<1>. QED BY <1>2, <1>3, <1>4, <1>5, FaultReadyServed

LEMMA MigrationStepsServed ==
  ASSUME Safe(uvm), Served(uvm)
  PROVE  /\ \A id \in MigrationIds, p \in Pages : DMADone(id, p) => Served(uvm')
         /\ \A id \in MigrationIds : MigrationComplete(id) => Served(uvm')
<1>1. uvm \in Managers /\ Slot(uvm) /\ Queued(uvm)
  BY DEF Served
<1>2. ASSUME NEW id \in MigrationIds, NEW p \in Pages, DMADone(id, p)
      PROVE  Served(uvm')
  BY <1>1, <1>2, DMADoneEffect, SameMigrationServed DEF Moved
<1>3. ASSUME NEW id \in MigrationIds, MigrationComplete(id)
      PROVE  Served(uvm')
  <2>1. PICK n : /\ SameButEvents(uvm, n)
                 /\ n.events = uvm.events \ {<<"MigrationComplete", id>>}
                 /\ \/ uvm.migrations[id] = NoMigration /\ uvm' = n
                    \/ /\ uvm.migrations[id] # NoMigration /\ id[1] = "admit"
                       /\ uvm' = CompleteAdmission(n, id)
                    \/ /\ uvm.migrations[id] # NoMigration /\ id[1] # "admit"
                       /\ uvm' = CompleteWriteBack(n, id[2])
    BY <1>1, <1>3, MigrationCompleteEffect
  <2>2. Slot(n) /\ Queued(n)
    BY <1>1, <2>1 DEF Slot, Queued, SameButEvents
  <2>3. Served(n) /\ Safe(n) /\ n.migrations = uvm.migrations
    BY <2>1, <2>2, KeepsFramesSafe DEF Served, SameButEvents, KeepsFrames
  <2>4. id[2] \in Regions
    BY IdTypes
  <2>. QED BY <2>1, <2>3, <2>4, CompleteAdmissionServed, CompleteWriteBackServed
<1>. QED BY <1>2, <1>3

LEMMA ControlStepsServed ==
  ASSUME Safe(uvm), Served(uvm)
  PROVE  \A op \in ControlOps : ControlRsp(op) => Served(uvm')
<1>. SUFFICES ASSUME NEW op \in ControlOps, ControlRsp(op)
              PROVE  Served(uvm')
  OBVIOUS
<1>1. uvm \in Managers
  BY DEF Served
<1>2. PICK n : /\ Answered(uvm, n, op)
               /\ \/ Requested(n, uvm', "CacheRangeFlush", <<op.region>>, EvictOf)
                  \/ uvm' = StartWriteBack(n, op.region)
                  \/ op.for[1] = "admit" /\ uvm' = DrainNext(n, op.for)
                  \/ op.for[1] = "admit" /\ uvm' = InvalidateNext(n, op.for)
  BY <1>1, ControlRspEffect
<1>3. Served(n) /\ Safe(n)
  BY <1>2, ServedKept, KeepsFramesSafe DEF Answered, KeepsFrames
<1>4. op.region \in Regions /\ op.for \in MigrationIds
  BY DEF ControlOps, MigrationIds
<1>5. Requested(n, uvm', "CacheRangeFlush", <<op.region>>, EvictOf) => Served(uvm')
  BY <1>3, ServedKept DEF Requested
<1>. QED BY <1>2, <1>3, <1>4, <1>5, StartWriteBackServed, DrainNextServed, InvalidateNextServed

LEMMA InitServed == Init => Served(uvm)
<1>. SUFFICES ASSUME Init
              PROVE  Served(uvm)
  OBVIOUS
<1>1. uvm \in Managers
  BY InitSafe DEF Safe
<1>2. /\ \A r \in Regions : uvm.faults[r] = "None" /\ uvm.then[r] = None
      /\ uvm.cue = <<>> /\ uvm.active = None /\ uvm.deferred = {} /\ uvm.events = {}
      /\ \A id \in MigrationIds : uvm.migrations[id] = NoMigration
  BY DEF Init
<1>3. NoMigration.faults = {}
  BY DEF NoMigration
<1>4. Slot(uvm)
  BY <1>2, <1>3, IdTypes DEF Slot
<1>5. Queued(uvm)
  BY <1>2, TimesNone, IdTypes DEF Queued, One
<1>. QED BY <1>1, <1>4, <1>5 DEF Served

LEMMA ServedAlways == Spec => [](Safe(uvm) /\ Served(uvm))
<1>1. Init => Safe(uvm) /\ Served(uvm)
  BY InitSafe, InitServed
<1>2. Safe(uvm) /\ Served(uvm) /\ [Next]_uvm => Safe(uvm)' /\ Served(uvm)'
  <2>. SUFFICES ASSUME Safe(uvm), Served(uvm), [Next]_uvm
                PROVE  Safe(uvm') /\ Served(uvm')
    OBVIOUS
  <2>1. CASE UNCHANGED uvm
    BY <2>1
  <2>2. CASE Next
    <3>1. Safe(uvm')
      BY <2>2, FaultStepsSafe, MigrationStepsSafe, ControlStepsSafe DEF Next
    <3>2. Served(uvm')
      BY <2>2, FaultStepsServed, MigrationStepsServed, ControlStepsServed DEF Next
    <3>. QED BY <3>1, <3>2
  <2>. QED BY <2>1, <2>2
<1>. QED BY <1>1, <1>2, PTL DEF Spec

(* One service at a time: whatever faults, notifications, evictions and    *)
(* transfers are under way, the transaction being handled or migrated is   *)
(* the active one, and at most one admission of pages is open              *)
(* (startNextFaultServiceLocked, finishFaultLocked).                       *)
THEOREM OneService == Spec => []SingleService
<1>1. Served(uvm) => SingleService
  <2>. SUFFICES ASSUME Served(uvm)
                PROVE  SingleService
    OBVIOUS
  <2>. QED BY DEF Served, Slot, SingleService
<1>. QED BY <1>1, ServedAlways, PTL

(* No transaction is lost and none is held twice: a live transaction is    *)
(* the active one, or parked behind an eviction, or in the queue, in one   *)
(* place only (onPageFault, parkFaultLocked, resumeDeferredLocked).        *)
THEOREM NoFaultLost == Spec => []FaultsQueuedOnce
<1>1. Served(uvm) => FaultsQueuedOnce
  <2>. SUFFICES ASSUME Served(uvm), NEW r \in Regions
                PROVE  (IF uvm.active = r THEN 1 ELSE 0)
                         + (IF r \in uvm.deferred THEN 1 ELSE 0)
                         + Cardinality({i \in DOMAIN uvm.cue : uvm.cue[i] = r})
                       = IF uvm.faults[r] = "None" THEN 0 ELSE 1
    BY DEF FaultsQueuedOnce
  <2>1. uvm.cue \in Seq(Regions)
    BY DEF Served, Managers
  <2>2. DOMAIN uvm.cue = 1..Len(uvm.cue)
    BY <2>1
  <2>3. Times(uvm.cue, r) = Cardinality({i \in DOMAIN uvm.cue : uvm.cue[i] = r})
    BY <2>2 DEF Times
  <2>. QED BY <2>3 DEF Served, Queued, One
<1>. QED BY <1>1, ServedAlways, PTL

-----------------------------------------------------------------------------
(* What the GPU is told.  Says(m, n): whatever closed a transaction        *)
(* between m and n also queued its replay.  One lemma for each method.     *)

(* Region k is named by a replay in list t. *)
Told(t, k) == \E i \in 1..Len(t) : t[i].kind = "FaultReplay" /\ t[i].region = k

(* From m to n, messages are queued, one of them for each transaction that *)
(* was closed.                                                             *)
Answers(m, n) ==
  \E t \in Seq(Messages) :
    /\ n.sendQueue = m.sendQueue \o t
    /\ \A k \in Regions : m.faults[k] # "None" /\ n.faults[k] = "None" => Told(t, k)

(* An admission that waits is for a page of the region that faulted. *)
Concerned(m) ==
  \A v \in Regions : m.then[v] # None => m.then[v].txn \in RegionsOfPages(m.then[v].pages)

Says(m, n) == n \in Managers /\ (Concerned(m) => Concerned(n)) /\ Answers(m, n)

(* What most methods do. *)
Silent(m, n) ==
  /\ n \in Managers /\ n.sendQueue = m.sendQueue /\ n.then = m.then
  /\ \A k \in Regions : n.faults[k] = "None" => m.faults[k] = "None"

LEMMA SilentSays ==
  ASSUME NEW m \in Managers, NEW n, Silent(m, n)
  PROVE  Says(m, n)
<1>1. m.sendQueue \in Seq(Messages)
  BY DEF Managers
<1>2. n.sendQueue = m.sendQueue \o <<>> /\ <<>> \in Seq(Messages)
  BY <1>1 DEF Silent
<1>3. \A k \in Regions : m.faults[k] # "None" /\ n.faults[k] = "None" => Told(<<>>, k)
  BY DEF Silent
<1>4. Answers(m, n)
  BY <1>2, <1>3 DEF Answers
<1>5. Concerned(m) => Concerned(n)
  BY DEF Concerned, Silent
<1>. QED BY <1>4, <1>5 DEF Says, Silent

LEMMA ToldConcat ==
  ASSUME NEW s \in Seq(Messages), NEW t \in Seq(Messages), NEW k, Told(s, k) \/ Told(t, k)
  PROVE  Told(s \o t, k)
<1>1. CASE Told(s, k)
  <2>1. PICK i \in 1..Len(s) : s[i].kind = "FaultReplay" /\ s[i].region = k
    BY <1>1 DEF Told
  <2>2. i \in 1..Len(s \o t) /\ (s \o t)[i] = s[i]
    BY <2>1
  <2>. QED BY <2>1, <2>2 DEF Told
<1>2. CASE Told(t, k)
  <2>1. PICK i \in 1..Len(t) : t[i].kind = "FaultReplay" /\ t[i].region = k
    BY <1>2 DEF Told
  <2>2. Len(s) + i \in 1..Len(s \o t) /\ (s \o t)[Len(s) + i] = t[i]
    BY <2>1
  <2>. QED BY <2>1, <2>2 DEF Told
<1>. QED BY <1>1, <1>2

LEMMA SaysTwice ==
  ASSUME NEW m \in Managers, NEW k, NEW n, Says(m, k), Says(k, n)
  PROVE  Says(m, n)
<1>. DEFINE q == m.sendQueue
<1>1. PICK s \in Seq(Messages) :
        /\ k.sendQueue = q \o s
        /\ \A r \in Regions : m.faults[r] # "None" /\ k.faults[r] = "None" => Told(s, r)
  BY DEF Says, Answers
<1>2. PICK t \in Seq(Messages) :
        /\ n.sendQueue = k.sendQueue \o t
        /\ \A r \in Regions : k.faults[r] # "None" /\ n.faults[r] = "None" => Told(t, r)
  BY DEF Says, Answers
<1>3. q \in Seq(Messages)
  BY DEF Managers
<1>. HIDE DEF q
<1>4. n.sendQueue = q \o (s \o t) /\ s \o t \in Seq(Messages)
  <2>1. (q \o s) \o t = q \o (s \o t)
    BY <1>3, ConcatAssociative
  <2>. QED BY <1>1, <1>2, <2>1
<1>5. \A r \in Regions : m.faults[r] # "None" /\ n.faults[r] = "None" => Told(s \o t, r)
  BY <1>1, <1>2, ToldConcat
<1>6. Answers(m, n)
  BY <1>4, <1>5 DEF Answers, q
<1>. QED BY <1>6 DEF Says

-----------------------------------------------------------------------------
LEMMA SendSays ==
  ASSUME NEW m \in Managers, NEW msgs \in Seq(Messages)
  PROVE  LET n == Send(m, msgs)
         IN  /\ Says(m, n) /\ n.sendQueue = m.sendQueue \o msgs
             /\ n.faults = m.faults /\ n.then = m.then
<1>. DEFINE n == Send(m, msgs)
<1>1. n \in Managers
  BY SendKeeps DEF KeepsFrames
<1>2. n.sendQueue = m.sendQueue \o msgs /\ n.faults = m.faults /\ n.then = m.then
  BY DEF Send, Managers
<1>. HIDE DEF n
<1>3. Answers(m, n)
  BY <1>2 DEF Answers
<1>. QED BY <1>1, <1>2, <1>3 DEF Says, Concerned, n

LEMMA ReplayAllSays ==
  ASSUME NEW m \in Managers, NEW rs \in Seq(Regions), NEW refused \in BOOLEAN
  PROVE  LET n == ReplayAll(m, rs, refused)
         IN  /\ Says(m, n) /\ n.faults = m.faults /\ n.then = m.then
             /\ \E t \in Seq(Messages) : /\ n.sendQueue = m.sendQueue \o t
                                         /\ \A k \in Elements(rs) : Told(t, k)
<1>. DEFINE t == [i \in 1..Len(rs) |->
                    [kind |-> "FaultReplay", region |-> rs[i], refused |-> refused]]
<1>1. t \in Seq(Messages)
  BY DEF Messages, Replays
<1>2. \A k \in Elements(rs) : Told(t, k)
  BY DEF Told, Elements
<1>3. ReplayAll(m, rs, refused) = Send(m, t)
  BY DEF ReplayAll
<1>. HIDE DEF t
<1>. QED BY <1>1, <1>2, <1>3, SendSays

LEMMA RequestSays ==
  ASSUME NEW m \in Managers, NEW kind, NEW rs \in Seq(Regions), NEW for,
         \A r \in Regions : [kind |-> kind, region |-> r, for |-> for[r]] \in ControlOps
  PROVE  LET n == Request(m, kind, rs, for)
         IN  Says(m, n) /\ n.then = m.then
<1>. DEFINE op(r) == [kind |-> kind, region |-> r, for |-> for[r]]
            ops   == m.controlOps \cup {op(r) : r \in Elements(rs)}
            k     == [m EXCEPT !.controlOps = ops]
            msgs  == [i \in 1..Len(rs) |-> op(rs[i])]
<1>1. Request(m, kind, rs, for) = Send(k, msgs)
  BY DEF Request
<1>2. ops \subseteq ControlOps
  BY DEF Elements, Managers
<1>3. msgs \in Seq(Messages)
  BY DEF Messages
<1>. HIDE DEF ops, op, msgs
<1>4. k \in Managers /\ k.sendQueue = m.sendQueue /\ k.faults = m.faults /\ k.then = m.then
  BY <1>2 DEF Managers
<1>. HIDE DEF k
<1>5. Says(m, k)
  BY <1>4, SilentSays DEF Silent
<1>. QED BY <1>1, <1>3, <1>4, <1>5, SendSays, SaysTwice

LEMMA QueueResetsSilent ==
  ASSUME NEW m \in Managers, NEW rs \in Seq(Regions)
  PROVE  Silent(m, QueueResets(m, rs))
<1>1. QueueResets(m, rs) \in Managers
  BY QueueResetsKeeps DEF KeepsFrames
<1>. QED BY <1>1 DEF Silent, QueueResets, Managers

(* Methods that leave messages, transactions and continuations alone. *)
LEMMA SlotSilent ==
  ASSUME NEW m \in Managers
  PROVE  LET same(n) == n.sendQueue = m.sendQueue /\ n.then = m.then /\ n.faults = m.faults
         IN  /\ same(StartNext(m))
             /\ \A S : same(Unclaim(m, S)) /\ same(FreeSlot(m, S)) /\ same(RemoveLRU(m, S))
             /\ \A rs : same(AddLRU(m, rs))
<1>1. \A a : LET n == [m EXCEPT !.active = a]
             IN  /\ n.sendQueue = m.sendQueue /\ n.then = m.then /\ n.faults = m.faults
                 /\ StartNext(n).sendQueue = m.sendQueue /\ StartNext(n).then = m.then
                 /\ StartNext(n).faults = m.faults
  BY DEF StartNext, Managers
<1>2. StartNext(m).sendQueue = m.sendQueue /\ StartNext(m).then = m.then /\ StartNext(m).faults = m.faults
  BY DEF StartNext, Managers
<1>3. \A S : LET n == FreeSlot(m, S)
             IN  n.sendQueue = m.sendQueue /\ n.then = m.then /\ n.faults = m.faults
  BY <1>1 DEF FreeSlot
<1>4. \A S : LET n == Unclaim(m, S)
             IN  n.sendQueue = m.sendQueue /\ n.then = m.then /\ n.faults = m.faults
  BY DEF Unclaim, Managers
<1>5. \A S : LET n == RemoveLRU(m, S)
             IN  n.sendQueue = m.sendQueue /\ n.then = m.then /\ n.faults = m.faults
  BY DEF RemoveLRU, Managers
<1>6. \A rs : LET n == AddLRU(m, rs)
              IN  n.sendQueue = m.sendQueue /\ n.then = m.then /\ n.faults = m.faults
  BY DEF AddLRU, Managers
<1>. QED BY <1>2, <1>3, <1>4, <1>5, <1>6

LEMMA RetireFaultsEffect ==
  ASSUME NEW m \in Managers, NEW S
  PROVE  LET n == RetireFaults(m, S)
         IN  /\ n \in Managers /\ n.sendQueue = m.sendQueue /\ n.then = m.then
             /\ \A k \in Regions : n.faults[k] = IF k \in S THEN "None" ELSE m.faults[k]
<1>. DEFINE u == Unclaim(m, S)
            f == [r \in Regions |-> IF r \in S THEN "None" ELSE u.faults[r]]
            k == [u EXCEPT !.faults = f]
<1>1. u \in Managers
  BY UnclaimKeeps DEF KeepsFrames
<1>2. u.sendQueue = m.sendQueue /\ u.then = m.then /\ u.faults = m.faults
  BY SlotSilent
<1>3. RetireFaults(m, S) = FreeSlot(k, S)
  BY DEF RetireFaults
<1>4. RetireFaults(m, S) \in Managers
  BY RetireFaultsKeeps DEF KeepsFrames
<1>. HIDE DEF u
<1>5. f \in [Regions -> {"None", "Pending", "Handling", "Migrating"}]
  BY <1>1 DEF Managers
<1>6. \A r \in Regions : f[r] = IF r \in S THEN "None" ELSE m.faults[r]
  BY <1>2
<1>. HIDE DEF f
<1>7. k \in Managers /\ k.sendQueue = m.sendQueue /\ k.then = m.then /\ k.faults = f
  BY <1>1, <1>2, <1>5 DEF Managers
<1>. HIDE DEF k
<1>8. /\ FreeSlot(k, S).sendQueue = k.sendQueue /\ FreeSlot(k, S).then = k.then
      /\ FreeSlot(k, S).faults = k.faults
  BY <1>7, SlotSilent
<1>. QED BY <1>3, <1>4, <1>6, <1>7, <1>8

(* Transactions are closed together with replays of their regions. *)
LEMMA RetireTold ==
  ASSUME NEW m \in Managers, NEW rs \in Seq(Regions), NEW refused \in BOOLEAN,
         NEW S \in SUBSET Elements(rs)
  PROVE  Says(m, RetireFaults(ReplayAll(m, rs, refused), S))
<1>. DEFINE k == ReplayAll(m, rs, refused)
            n == RetireFaults(k, S)
<1>1. /\ Says(m, k) /\ k.faults = m.faults /\ k.then = m.then
  BY ReplayAllSays
<1>2. PICK t \in Seq(Messages) : k.sendQueue = m.sendQueue \o t /\ \A r \in Elements(rs) : Told(t, r)
  BY ReplayAllSays
<1>. HIDE DEF k
<1>3. k \in Managers
  BY <1>1 DEF Says
<1>4. /\ n \in Managers /\ n.sendQueue = k.sendQueue /\ n.then = k.then
      /\ \A r \in Regions : n.faults[r] = IF r \in S THEN "None" ELSE k.faults[r]
  BY <1>3, RetireFaultsEffect
<1>. HIDE DEF n
<1>5. \A r \in Regions : m.faults[r] # "None" /\ n.faults[r] = "None" => Told(t, r)
  BY <1>1, <1>2, <1>4
<1>6. Answers(m, n)
  BY <1>2, <1>4, <1>5 DEF Answers
<1>. QED BY <1>1, <1>4, <1>6 DEF Says, Concerned, n, k

LEMMA FinishFaultsSays ==
  ASSUME NEW m \in Managers, NEW S \in SUBSET Regions
  PROVE  Says(m, FinishFaults(m, S))
<1>1. Ascending(S) \in Seq(Regions) /\ Elements(Ascending(S)) = S
  BY RegionList
<1>. QED BY <1>1, RetireTold DEF FinishFaults

LEMMA ParkFaultSilent ==
  ASSUME NEW m \in Managers, NEW r \in Regions
  PROVE  Silent(m, ParkFault(m, r))
<1>. DEFINE f == [m.faults EXCEPT ![r] = "Pending"]
            d == m.deferred \cup {r}
            k == [m EXCEPT !.faults = f, !.deferred = d]
            u == Unclaim(k, {r})
<1>1. f \in [Regions -> {"None", "Pending", "Handling", "Migrating"}] /\ d \subseteq Regions
  BY DEF Managers
<1>2. \A x \in Regions : f[x] = "None" => m.faults[x] = "None"
  BY DEF Managers
<1>3. ParkFault(m, r) = FreeSlot(u, {r})
  BY DEF ParkFault
<1>4. ParkFault(m, r) \in Managers
  BY ParkFaultKeeps DEF KeepsFrames
<1>. HIDE DEF f, d
<1>5. k \in Managers /\ k.sendQueue = m.sendQueue /\ k.then = m.then /\ k.faults = f
  BY <1>1 DEF Managers
<1>. HIDE DEF k
<1>6. u \in Managers /\ u.sendQueue = m.sendQueue /\ u.then = m.then /\ u.faults = f
  BY <1>5, UnclaimKeeps, SlotSilent DEF KeepsFrames
<1>. HIDE DEF u
<1>7. /\ FreeSlot(u, {r}).sendQueue = u.sendQueue /\ FreeSlot(u, {r}).then = u.then
      /\ FreeSlot(u, {r}).faults = u.faults
  BY <1>6, SlotSilent
<1>. QED BY <1>2, <1>3, <1>4, <1>6, <1>7 DEF Silent

LEMMA ResumeDeferredSilent ==
  ASSUME NEW m \in Managers, NEW r \in Regions
  PROVE  Silent(m, ResumeDeferred(m, r))
<1>. DEFINE d == m.deferred \ {r}
            c == Append(m.cue, r)
            k == [m EXCEPT !.deferred = d, !.cue = c]
<1>1. d \subseteq Regions /\ c \in Seq(Regions)
  BY DEF Managers
<1>2. ResumeDeferred(m, r) = m \/ ResumeDeferred(m, r) = StartNext(k)
  BY DEF ResumeDeferred
<1>3. ResumeDeferred(m, r) \in Managers
  BY ResumeDeferredKeeps DEF KeepsFrames
<1>. HIDE DEF d, c
<1>4. k \in Managers /\ k.sendQueue = m.sendQueue /\ k.then = m.then /\ k.faults = m.faults
  BY <1>1 DEF Managers
<1>. HIDE DEF k
<1>5. /\ StartNext(k).sendQueue = k.sendQueue /\ StartNext(k).then = k.then
      /\ StartNext(k).faults = k.faults
  BY <1>4, SlotSilent
<1>. QED BY <1>2, <1>3, <1>4, <1>5 DEF Silent

LEMMA OpenFaultSilent ==
  ASSUME NEW m \in Managers, NEW r \in Regions
  PROVE  Silent(m, OpenFault(m, r))
<1>. DEFINE f == [m.faults EXCEPT ![r] = "Pending"]
            c == Append(m.cue, r)
            k == [m EXCEPT !.faults = f, !.cue = c]
<1>1. f \in [Regions -> {"None", "Pending", "Handling", "Migrating"}] /\ c \in Seq(Regions)
  BY DEF Managers
<1>2. \A x \in Regions : f[x] = "None" => m.faults[x] = "None"
  BY DEF Managers
<1>3. OpenFault(m, r) = StartNext(k)
  BY DEF OpenFault
<1>4. OpenFault(m, r) \in Managers
  BY OpenFaultKeeps DEF KeepsFrames
<1>. HIDE DEF f, c
<1>5. k \in Managers /\ k.sendQueue = m.sendQueue /\ k.then = m.then /\ k.faults = f
  BY <1>1 DEF Managers
<1>. HIDE DEF k
<1>6. /\ StartNext(k).sendQueue = k.sendQueue /\ StartNext(k).then = k.then
      /\ StartNext(k).faults = k.faults
  BY <1>5, SlotSilent
<1>. QED BY <1>2, <1>3, <1>4, <1>5, <1>6 DEF Silent

LEMMA RecencySilent ==
  ASSUME NEW m \in Managers
  PROVE  /\ \A S : Silent(m, RemoveLRU(m, S))
         /\ \A rs \in Seq(Regions) : Silent(m, AddLRU(m, rs))
BY LRUKeeps, SlotSilent DEF KeepsFrames, Silent

-----------------------------------------------------------------------------
(* What an eviction waits for is that of a page of the faulting region. *)
LEMMA BeginEvictionsSays ==
  ASSUME NEW m \in Managers, NEW vs \in Seq(Regions), NEW then \in Waiting \cup {None},
         then # None => then.txn \in RegionsOfPages(then.pages)
  PROVE  Says(m, BeginEvictions(m, vs, then))
<1>. DEFINE S == Elements(vs)
            l == RemoveLRU(m, S)
            ph == [r \in Regions |-> IF r \in S THEN "Evicting" ELSE l.phase[r]]
            ev == l.evicting + Cardinality(UNION {RegionFrames(m, r) : r \in S})
            pt == [p \in Pages |-> IF p \in Parked(m, S) THEN "Migrating" ELSE l.pte[p]]
            th == [r \in Regions |-> IF r \in S THEN then ELSE l.then[r]]
            k == [l EXCEPT !.phase = ph, !.evicting = ev, !.pte = pt, !.then = th]
<1>1. BeginEvictions(m, vs, then) = Request(k, "TLBInvalidate", vs, EvictOf)
  BY DEF BeginEvictions
<1>2. l \in Managers /\ l.sendQueue = m.sendQueue /\ l.then = m.then /\ l.faults = m.faults
  BY LRUKeeps, SlotSilent DEF KeepsFrames
<1>3. Cardinality(UNION {RegionFrames(m, r) : r \in S}) \in Nat
  <2>1. UNION {RegionFrames(m, r) : r \in S} \in SUBSET Pages
    BY DEF RegionFrames, PagesOf
  <2>. QED BY <2>1, PageSets
<1>. HIDE DEF S, l
<1>4. /\ ph \in [Regions -> {"Idle", "FaultPending", "FaultHandling", "MigratingToGPU", "Evicting"}]
      /\ pt \in [Pages -> {"Invalid", "Remote", "Migrating", "Local"}]
      /\ th \in [Regions -> Waiting \cup {None}]
  BY <1>2 DEF Managers
<1>5. ev \in Nat
  BY <1>2, <1>3 DEF Managers
<1>6. Concerned(m) => \A v \in Regions : th[v] # None => th[v].txn \in RegionsOfPages(th[v].pages)
  BY <1>2 DEF Concerned
<1>. HIDE DEF ph, ev, pt, th
<1>7. k \in Managers /\ k.sendQueue = m.sendQueue /\ k.faults = m.faults /\ k.then = th
  BY <1>2, <1>4, <1>5 DEF Managers
<1>. HIDE DEF k
<1>8. Says(m, k)
  <2>1. m.sendQueue \in Seq(Messages)
    BY DEF Managers
  <2>2. k.sendQueue = m.sendQueue \o <<>> /\ <<>> \in Seq(Messages)
    BY <1>7, <2>1
  <2>3. Answers(m, k)
    BY <1>7, <2>2 DEF Answers
  <2>. QED BY <1>6, <1>7, <2>3 DEF Says, Concerned
<1>9. \A r \in Regions : [kind |-> "TLBInvalidate", region |-> r, for |-> EvictOf[r]] \in ControlOps
  BY DEF EvictOf, Evict, ControlOps
<1>10. Says(k, Request(k, "TLBInvalidate", vs, EvictOf))
  BY <1>7, <1>9, RequestSays
<1>. QED BY <1>1, <1>8, <1>10, SaysTwice

LEMMA SaysSame ==
  ASSUME NEW m \in Managers
  PROVE  Silent(m, m) /\ Says(m, m)
BY SilentSays DEF Silent

LEMMA PreEvictSays ==
  ASSUME NEW m \in Managers, NEW exclude
  PROVE  Says(m, PreEvict(m, exclude))
<1>1. SelectVictims(m, PagesPerRegion - m.evicting, exclude) \in Seq(Regions)
  BY SelectVictimsType
<1>2. Says(m, BeginEvictions(m, SelectVictims(m, PagesPerRegion - m.evicting, exclude), None))
  BY <1>1, BeginEvictionsSays
<1>. QED BY <1>2, SaysSame DEF PreEvict

LEMMA StartTransferSilent ==
  ASSUME NEW m \in Managers, NEW id \in MigrationIds
  PROVE  Silent(m, StartTransfer(m, id))
<1>1. StartTransfer(m, id) \in Managers
  BY StartTransferKeeps DEF KeepsFrames
<1>2. LET n == StartTransfer(m, id)
      IN  n.sendQueue = m.sendQueue /\ n.then = m.then /\ n.faults = m.faults
  BY DEF StartTransfer, Managers
<1>. QED BY <1>1, <1>2 DEF Silent

LEMMA TodoSilent ==
  ASSUME NEW m \in Managers, NEW id \in MigrationIds, NEW todo \in Seq(Regions)
  PROVE  Silent(m, [m EXCEPT !.migrations[id].todo = todo])
<1>. DEFINE n == [m EXCEPT !.migrations[id].todo = todo]
<1>1. n \in Managers
  BY TodoKeeps DEF KeepsFrames
<1>2. n.sendQueue = m.sendQueue /\ n.then = m.then /\ n.faults = m.faults
  BY DEF Managers
<1>. QED BY <1>1, <1>2 DEF Silent

(* The next region of a migration is asked for. *)
LEMMA AskSays ==
  ASSUME NEW m \in Managers, NEW id \in {"admit"} \X Regions,
         NEW kind \in {"TLBInvalidate", "RemoteDrain"}, m.migrations[id].todo # <<>>
  PROVE  Says(m, Request([m EXCEPT !.migrations[id].todo = Tail(@)], kind,
                         <<Head(m.migrations[id].todo)>>, [r \in Regions |-> id]))
<1>. DEFINE todo == m.migrations[id].todo
            rest == Tail(todo)
            k == [m EXCEPT !.migrations[id].todo = rest]
<1>1. id \in MigrationIds
  BY DEF MigrationIds
<1>2. todo \in Seq(Regions)
  BY <1>1 DEF Managers, Migration
<1>3. rest \in Seq(Regions) /\ <<Head(todo)>> \in Seq(Regions)
  BY <1>2
<1>4. [m EXCEPT !.migrations[id].todo = Tail(@)] = k
  BY <1>1 DEF Managers
<1>. HIDE DEF rest, todo
<1>5. Silent(m, k)
  BY <1>1, <1>3, TodoSilent
<1>. HIDE DEF k
<1>6. k \in Managers /\ Says(m, k)
  BY <1>5, SilentSays DEF Silent
<1>7. \A r \in Regions : [kind |-> kind, region |-> r, for |-> [x \in Regions |-> id][r]] \in ControlOps
  BY DEF ControlOps
<1>8. Says(k, Request(k, kind, <<Head(todo)>>, [r \in Regions |-> id]))
  BY <1>3, <1>6, <1>7, RequestSays
<1>. QED BY <1>4, <1>6, <1>8, SaysTwice DEF todo

LEMMA DrainNextSays ==
  ASSUME NEW m \in Managers, NEW id \in {"admit"} \X Regions
  PROVE  Says(m, DrainNext(m, id))
<1>. DEFINE todo == m.migrations[id].todo
            k == [m EXCEPT !.migrations[id].todo = <<>>]
            n == Request([m EXCEPT !.migrations[id].todo = Tail(@)], "RemoteDrain",
                         <<Head(todo)>>, [r \in Regions |-> id])
<1>1. id \in MigrationIds
  BY DEF MigrationIds
<1>2. Silent(m, k)
  <2>1. <<>> \in Seq(Regions)
    OBVIOUS
  <2>. QED BY <1>1, <2>1, TodoSilent
<1>3. DrainNext(m, id) = StartTransfer(k, id) \/ (todo # <<>> /\ DrainNext(m, id) = n)
  BY DEF DrainNext
<1>4. todo # <<>> => Says(m, n)
  BY AskSays
<1>. HIDE DEF k, n
<1>5. k \in Managers /\ Says(m, k)
  BY <1>2, SilentSays DEF Silent
<1>6. Says(k, StartTransfer(k, id))
  BY <1>1, <1>5, StartTransferSilent, SilentSays
<1>. QED BY <1>3, <1>4, <1>5, <1>6, SaysTwice

-----------------------------------------------------------------------------
(* Admissions of pages of which one is of the region that faulted. *)

LEMMA JoinSilent ==
  ASSUME NEW m \in Managers, NEW id \in MigrationIds, NEW r \in Regions
  PROVE  Silent(m, [m EXCEPT !.faults[r] = "Migrating", !.migrations[id].faults = @ \cup {r}])
<1>. DEFINE n == [m EXCEPT !.faults[r] = "Migrating", !.migrations[id].faults = @ \cup {r}]
<1>1. n \in Managers
  BY JoinKeeps DEF KeepsFrames
<1>2. /\ n.sendQueue = m.sendQueue /\ n.then = m.then
      /\ n.faults = [m.faults EXCEPT ![r] = "Migrating"]
  BY DEF Managers
<1>3. \A k \in Regions : [m.faults EXCEPT ![r] = "Migrating"][k] = "None" => m.faults[k] = "None"
  BY DEF Managers
<1>. QED BY <1>1, <1>2, <1>3 DEF Silent

LEMMA DeferAdmissionSays ==
  ASSUME NEW m \in Managers, NEW r \in Regions, NEW sel \in SUBSET Pages, r \in RegionsOfPages(sel)
  PROVE  Says(m, DeferAdmission(m, r, sel))
<1>. DEFINE rs == RegionsOfPages(sel)
            S  == {k \in rs : CoveringMigration(m, k) = None}
            m1 == ReplayAll(m, Ascending(S), TRUE)
            id == CoveringMigration(m, r)
            j  == [m1 EXCEPT !.faults[r] = "Migrating", !.migrations[id].faults = @ \cup {r}]
<1>1. rs \subseteq Regions /\ S \in SUBSET Regions
  BY PageSets
<1>2. Ascending(S) \in Seq(Regions) /\ Elements(Ascending(S)) = S
  BY <1>1, RegionList
<1>3. DeferAdmission(m, r, sel) = IF r \in rs /\ id # None THEN j ELSE RetireFaults(m1, {r})
  BY DEF DeferAdmission
<1>4. id \in MigrationIds \cup {None}
  BY CoveringType
<1>5. Says(m, m1) /\ m1 \in Managers
  BY <1>2, ReplayAllSays DEF Says
<1>6. CASE id # None
  <2>1. DeferAdmission(m, r, sel) = j
    BY <1>3, <1>6
  <2>. HIDE DEF m1, id
  <2>2. Silent(m1, j)
    BY <1>4, <1>5, <1>6, JoinSilent
  <2>. QED BY <1>5, <2>1, <2>2, SilentSays, SaysTwice
<1>7. CASE id = None
  <2>1. r \in S
    BY <1>7
  <2>2. Says(m, RetireFaults(m1, {r}))
    BY <1>2, <2>1, RetireTold
  <2>. QED BY <1>3, <1>7, <2>2
<1>. QED BY <1>6, <1>7

LEMMA StartAdmissionSays ==
  ASSUME NEW m, Safe(m), NEW r \in Regions, NEW sel \in SUBSET Pages, r \in RegionsOfPages(sel)
  PROVE  Says(m, StartAdmission(m, r, sel))
<1>. DEFINE adm == Admitted(m, sel)
<1>1. m \in Managers
  BY DEF Safe
<1>2. CASE adm = {} /\ StartAdmission(m, r, sel) = DeferAdmission(m, r, sel)
  BY <1>1, <1>2, DeferAdmissionSays
<1>3. ASSUME NEW k, Opened(m, k, r, adm), StartAdmission(m, r, sel) = PreEvict(DrainNext(k, Admit(r)), sel)
      PROVE  Says(m, StartAdmission(m, r, sel))
  <2>1. Silent(m, k)
    BY <1>3 DEF Opened, Silent
  <2>2. Says(m, k) /\ k \in Managers
    BY <1>1, <2>1, SilentSays DEF Says
  <2>3. Admit(r) \in {"admit"} \X Regions
    BY DEF Admit
  <2>4. Says(k, DrainNext(k, Admit(r)))
    BY <2>2, <2>3, DrainNextSays
  <2>5. DrainNext(k, Admit(r)) \in Managers
    BY <2>4 DEF Says
  <2>6. Says(DrainNext(k, Admit(r)), PreEvict(DrainNext(k, Admit(r)), sel))
    BY <2>5, PreEvictSays
  <2>. QED BY <1>1, <1>3, <2>2, <2>4, <2>5, <2>6, SaysTwice
<1>. QED BY <1>2, <1>3, StartAdmissionEffect

LEMMA WithCapacitySays ==
  ASSUME NEW m, Safe(m), NEW r \in Regions, NEW sel \in SUBSET Pages, r \in RegionsOfPages(sel)
  PROVE  Says(m, WithCapacity(m, r, sel))
<1>. DEFINE victims == SelectVictims(m, Cardinality(sel), sel)
            wait == [txn |-> r, pages |-> sel, rest |-> Tail(victims)]
<1>1. m \in Managers
  BY DEF Safe
<1>2. victims \in Seq(Regions)
  BY <1>1, SelectVictimsType
<1>3. \/ WithCapacity(m, r, sel) = StartAdmission(m, r, sel)
      \/ victims # <<>> /\ WithCapacity(m, r, sel) = BeginEvictions(m, <<Head(victims)>>, wait)
  BY DEF WithCapacity
<1>. HIDE DEF victims
<1>4. ASSUME victims # <<>>
      PROVE  Says(m, BeginEvictions(m, <<Head(victims)>>, wait))
  <2>1. <<Head(victims)>> \in Seq(Regions) /\ Tail(victims) \in Seq(Regions)
    BY <1>2, <1>4
  <2>2. wait \in Waiting /\ wait.txn \in RegionsOfPages(wait.pages)
    BY <2>1 DEF Waiting
  <2>. HIDE DEF wait
  <2>. QED BY <1>1, <2>1, <2>2, BeginEvictionsSays
<1>. QED BY <1>3, <1>4, StartAdmissionSays

LEMMA EvictNextSays ==
  ASSUME NEW m, Safe(m), NEW wait \in Waiting, wait.txn \in RegionsOfPages(wait.pages)
  PROVE  Says(m, EvictNext(m, wait))
<1>. DEFINE left == {i \in 1..Len(wait.rest) : Evictable(m, wait.rest[i])}
            i    == Min(left)
            rest == SubSeq(wait.rest, i + 1, Len(wait.rest))
            w    == [wait EXCEPT !.rest = rest]
<1>1. m \in Managers /\ wait.txn \in Regions /\ wait.pages \in SUBSET Pages /\ wait.rest \in Seq(Regions)
  BY DEF Safe, Waiting
<1>2. EvictNext(m, wait) = IF left = {} THEN WithCapacity(m, wait.txn, wait.pages)
                           ELSE BeginEvictions(m, <<wait.rest[i]>>, w)
  BY DEF EvictNext, Waiting
<1>3. ASSUME left # {} PROVE Says(m, BeginEvictions(m, <<wait.rest[i]>>, w))
  <2>1. left \in SUBSET Int /\ IsFiniteSet(left) /\ left \subseteq 1..Len(wait.rest)
    <3>1. IsFiniteSet(1..Len(wait.rest)) /\ left \in SUBSET (1..Len(wait.rest))
      BY <1>1, FS_Interval
    <3>. QED BY <3>1, FS_Subset
  <2>. HIDE DEF left
  <2>2. \E x \in left : \A y \in left : x <= y
    BY <1>3, <2>1, LeastElement
  <2>3. i \in left
    BY <2>2 DEF Min
  <2>. HIDE DEF i
  <2>7. i \in 1..Len(wait.rest) /\ wait.rest[i] \in Regions
    BY <1>1, <2>1, <2>3
  <2>4. rest \in Seq(Regions)
    BY <1>1, <2>7
  <2>. HIDE DEF rest
  <2>5. w \in Waiting /\ w.txn = wait.txn /\ w.pages = wait.pages
    BY <2>4 DEF Waiting
  <2>6. <<wait.rest[i]>> \in Seq(Regions)
    BY <2>7
  <2>. HIDE DEF w
  <2>. QED BY <1>1, <2>5, <2>6, BeginEvictionsSays
<1>. QED BY <1>1, <1>2, <1>3, WithCapacitySays

LEMMA ResumeWaitingSays ==
  ASSUME NEW m, Safe(m), NEW r \in Regions, Concerned(m)
  PROVE  Says(m, ResumeWaiting(m, r))
<1>1. m \in Managers
  BY DEF Safe
<1>2. PICK k : /\ Woken(m, k, r)
               /\ \/ m.then[r] = None /\ ResumeWaiting(m, r) = k
                  \/ /\ m.then[r] \in Waiting /\ m.then[r] # None
                     /\ ResumeWaiting(m, r) = EvictNext(k, m.then[r])
  BY ResumeWaitingEffect
<1>3. Says(m, k) /\ k \in Managers /\ Safe(k)
  <2>1. Safe(k) /\ k \in Managers /\ k.sendQueue = m.sendQueue /\ k.faults = m.faults
    BY <1>2 DEF Woken, SameQueue, Safe
  <2>2. m.sendQueue = m.sendQueue \o <<>> /\ <<>> \in Seq(Messages)
    BY <1>1 DEF Managers
  <2>3. Answers(m, k)
    BY <2>1, <2>2 DEF Answers
  <2>4. \A v \in Regions : k.then[v] # None => k.then[v] = m.then[v]
    BY <1>2 DEF Woken
  <2>5. Concerned(m) => Concerned(k)
    BY <2>4 DEF Concerned
  <2>. QED BY <2>1, <2>3, <2>5 DEF Says
<1>4. m.then[r] # None => m.then[r].txn \in RegionsOfPages(m.then[r].pages)
  BY DEF Concerned
<1>5. m.then[r] \in Waiting /\ m.then[r] # None => Says(k, EvictNext(k, m.then[r]))
  BY <1>3, <1>4, EvictNextSays
<1>. QED BY <1>1, <1>2, <1>3, <1>5, SaysTwice

-----------------------------------------------------------------------------
(* The ends of migrations. *)

LEMMA SilentTwice ==
  ASSUME NEW m, NEW k, NEW n, Silent(m, k), Silent(k, n)
  PROVE  Silent(m, n)
BY DEF Silent

LEMMA FinalizeEvictionSilent ==
  ASSUME NEW m, Safe(m), NEW r \in Regions
  PROVE  Silent(m, FinalizeEviction(m, r))
<1>. DEFINE out == {p \in PagesOf(r) : m.frame[p] /\ m.state[p] \in {"MigratingToCPU", "GPUResident"}}
            c   == Cardinality(out)
            mapped == IF AccessCounterEnabled /\ ~LazyRemotePTE THEN "Remote" ELSE "Invalid"
            f == [p \in Pages |-> m.frame[p] /\ p \notin out]
            s == [p \in Pages |-> IF p \in out THEN "CPUResident" ELSE m.state[p]]
            v == [p \in Pages |-> IF p \in out THEN mapped = "Remote" ELSE m.remote[p]]
            t == [p \in Pages |-> IF p \in out THEN mapped ELSE m.pte[p]]
            h == [m.phase EXCEPT ![r] = "Idle"]
            k == [m EXCEPT !.frame = f, !.state = s, !.remote = v, !.pte = t, !.phase[r] = "Idle"]
            q == QueueResets(k, <<r>>)
            g == [q.regionMig EXCEPT ![r] = None]
            j == [q EXCEPT !.regionMig[r] = None]
            x == ResumeDeferred(IF out = {} THEN q ELSE j, r)
            y == RemoveLRU(x, {r})
            u == IF y.inUse >= c THEN y.inUse - c ELSE 0
            e == IF y.evicting >= c THEN y.evicting - c ELSE 0
            z == [y EXCEPT !.inUse = u, !.evicting = e]
<1>1. m \in Managers
  BY DEF Safe
<1>2. FinalizeEviction(m, r) = IF out = {} THEN x ELSE z
  BY DEF FinalizeEviction
<1>3. FinalizeEviction(m, r) \in Managers
  BY FinalizeEvictionSafe DEF Safe
<1>4. /\ f \in [Pages -> BOOLEAN]
      /\ s \in [Pages -> {"CPUResident", "GPUResident", "MigratingToGPU", "MigratingToCPU"}]
      /\ v \in [Pages -> BOOLEAN]
      /\ t \in [Pages -> {"Invalid", "Remote", "Migrating", "Local"}]
      /\ h \in [Regions -> {"Idle", "FaultPending", "FaultHandling",
                            "MigratingToGPU", "Evicting"}]
  BY <1>1 DEF Managers
<1>. HIDE DEF out, c, f, s, v, t
<1>5. Silent(m, k) /\ k \in Managers
  <2>1. k = [m EXCEPT !.frame = f, !.state = s, !.remote = v, !.pte = t, !.phase = h]
    OBVIOUS
  <2>. HIDE DEF h
  <2>. QED BY <1>1, <1>4, <2>1 DEF Managers, Silent
<1>. HIDE DEF k
<1>6. Silent(k, q) /\ q \in Managers
  <2>1. <<r>> \in Seq(Regions)
    OBVIOUS
  <2>. QED BY <1>5, <2>1, QueueResetsSilent DEF Silent
<1>. HIDE DEF q
<1>7. g \in [Regions -> MigrationIds \cup {None}]
  BY <1>6 DEF Managers
<1>8. Silent(q, j) /\ j \in Managers
  <2>1. j = [q EXCEPT !.regionMig = g]
    OBVIOUS
  <2>. HIDE DEF g
  <2>. QED BY <1>6, <1>7, <2>1 DEF Managers, Silent
<1>. HIDE DEF j
<1>9. Silent(q, x) /\ x \in Managers
  <2>1. Silent(q, ResumeDeferred(q, r)) /\ Silent(j, ResumeDeferred(j, r))
    BY <1>6, <1>8, ResumeDeferredSilent
  <2>2. x = ResumeDeferred(q, r) \/ x = ResumeDeferred(j, r)
    OBVIOUS
  <2>. HIDE DEF x
  <2>. QED BY <1>8, <2>1, <2>2, SilentTwice DEF Silent
<1>. HIDE DEF x
<1>10. Silent(x, y) /\ y \in Managers
  BY <1>9, RecencySilent DEF Silent
<1>. HIDE DEF y, u, e
<1>11. z.sendQueue = y.sendQueue /\ z.then = y.then /\ z.faults = y.faults
  BY <1>10 DEF Managers
<1>. HIDE DEF z
<1>12. Silent(m, y) /\ Silent(m, x)
  BY <1>5, <1>6, <1>9, <1>10, SilentTwice
<1>. QED BY <1>2, <1>3, <1>11, <1>12 DEF Silent

LEMMA StartWriteBackSays ==
  ASSUME NEW m, Safe(m), NEW r \in Regions, Concerned(m)
  PROVE  Says(m, StartWriteBack(m, r))
<1>. DEFINE out == RegionFrames(m, r)
            k   == FinalizeEviction(m, r)
<1>1. m \in Managers /\ Evict(r) \in MigrationIds
  BY IdTypes DEF Safe
<1>2. Says(m, ResumeWaiting(k, r))
  <2>1. Safe(k) /\ Silent(m, k)
    BY FinalizeEvictionSafe, FinalizeEvictionSilent
  <2>. HIDE DEF k
  <2>2. Says(m, k) /\ k \in Managers /\ Concerned(k)
    BY <1>1, <2>1, SilentSays DEF Says
  <2>3. Says(k, ResumeWaiting(k, r))
    BY <2>1, <2>2, ResumeWaitingSays
  <2>. QED BY <1>1, <2>2, <2>3, SaysTwice
<1>3. ASSUME out # {} PROVE Says(m, StartWriteBack(m, r))
  <2>1. PICK l : WrittenBack(m, l, r) /\ StartWriteBack(m, r) = StartTransfer(l, Evict(r))
    BY <1>1, <1>3, StartWriteBackEffect
  <2>2. Silent(m, l) /\ l \in Managers
    BY <2>1 DEF WrittenBack, SameQueue, Silent
  <2>3. Silent(l, StartTransfer(l, Evict(r)))
    BY <1>1, <2>2, StartTransferSilent
  <2>4. Silent(m, StartWriteBack(m, r))
    BY <2>1, <2>2, <2>3, SilentTwice
  <2>. QED BY <1>1, <2>4, SilentSays
<1>. QED BY <1>2, <1>3 DEF StartWriteBack

LEMMA ForgetMigrationSilent ==
  ASSUME NEW m \in Managers, NEW id \in MigrationIds
  PROVE  Silent(m, ForgetMigration(m, id))
<1>1. ForgetMigration(m, id) \in Managers
  BY ForgetMigrationKeeps DEF KeepsFrames
<1>2. LET n == ForgetMigration(m, id)
      IN  n.sendQueue = m.sendQueue /\ n.then = m.then /\ n.faults = m.faults
  BY DEF ForgetMigration, Managers
<1>. QED BY <1>1, <1>2 DEF Silent

LEMMA FinishAdmissionSays ==
  ASSUME NEW m \in Managers, NEW id \in MigrationIds
  PROVE  Says(m, FinishAdmission(m, id))
<1>. DEFINE mig == m.migrations[id]
            rs  == RegionsOfPages(mig.pages)
            l == Ascending(rs)
            g == [r \in Regions |-> IF r \in rs THEN None ELSE m.regionMig[r]]
            h == [r \in Regions |->
                    IF r \in rs /\ m.phase[r] = "MigratingToGPU" THEN "Idle" ELSE m.phase[r]]
            k == [m EXCEPT !.regionMig = g, !.phase = h]
            q == QueueResets(k, l)
            x == ForgetMigration(q, id)
            y == ReplayAll(x, l, FALSE)
<1>1. mig.pages \in SUBSET Pages /\ mig.faults \in SUBSET Regions
  BY DEF Managers, Migration
<1>2. l \in Seq(Regions)
  BY <1>1, PageSets, RegionList
<1>3. FinishAdmission(m, id) = FinishFaults(y, mig.faults)
  BY DEF FinishAdmission
<1>. HIDE DEF l, rs, mig
<1>4. /\ g \in [Regions -> MigrationIds \cup {None}]
      /\ h \in [Regions -> {"Idle", "FaultPending", "FaultHandling",
                            "MigratingToGPU", "Evicting"}]
  BY DEF Managers
<1>. HIDE DEF g, h
<1>5. Silent(m, k) /\ k \in Managers
  BY <1>4 DEF Silent, Managers
<1>. HIDE DEF k
<1>6. Silent(k, q) /\ q \in Managers
  BY <1>2, <1>5, QueueResetsSilent DEF Silent
<1>. HIDE DEF q
<1>7. Silent(q, x) /\ x \in Managers
  BY <1>6, ForgetMigrationSilent DEF Silent
<1>. HIDE DEF x
<1>8. Says(m, x)
  BY <1>5, <1>6, <1>7, SilentTwice, SilentSays
<1>9. Says(x, y) /\ y \in Managers
  <2>1. FALSE \in BOOLEAN
    OBVIOUS
  <2>. QED BY <1>2, <1>7, <2>1, ReplayAllSays DEF Says
<1>. HIDE DEF y
<1>10. Says(y, FinishAdmission(m, id))
  BY <1>1, <1>3, <1>9, FinishFaultsSays
<1>. QED BY <1>7, <1>8, <1>9, <1>10, SaysTwice

LEMMA InvalidateNextSays ==
  ASSUME NEW m \in Managers, NEW id \in {"admit"} \X Regions
  PROVE  Says(m, InvalidateNext(m, id))
<1>1. id \in MigrationIds
  BY DEF MigrationIds
<1>2. m.migrations[id].todo # <<>> =>
        Says(m, Request([m EXCEPT !.migrations[id].todo = Tail(@)], "TLBInvalidate",
                        <<Head(m.migrations[id].todo)>>, [r \in Regions |-> id]))
  BY AskSays
<1>. QED BY <1>1, <1>2, FinishAdmissionSays DEF InvalidateNext

LEMMA CompleteAdmissionSays ==
  ASSUME NEW m \in Managers, NEW id \in {"admit"} \X Regions
  PROVE  Says(m, CompleteAdmission(m, id))
<1>. DEFINE mig == m.migrations[id]
            rs  == Ascending(RegionsOfPages(mig.pages))
            s == [p \in Pages |-> IF p \in mig.pages THEN "GPUResident" ELSE m.state[p]]
            v == [p \in Pages |-> m.remote[p] /\ p \notin mig.pages]
            t == [p \in Pages |-> IF p \in mig.pages THEN "Local" ELSE m.pte[p]]
            k == [m EXCEPT !.state = s, !.remote = v, !.pte = t]
            l == AddLRU(k, rs)
            n == [l EXCEPT !.migrations[id].todo = rs]
<1>1. id \in MigrationIds
  BY DEF MigrationIds
<1>2. rs \in Seq(Regions)
  <2>1. mig.pages \in SUBSET Pages
    BY <1>1 DEF Managers, Migration
  <2>. QED BY <2>1, PageSets, RegionList
<1>3. CompleteAdmission(m, id) = InvalidateNext(IF mig.invalidate THEN n ELSE l, id)
  BY DEF CompleteAdmission
<1>4. /\ s \in [Pages -> {"CPUResident", "GPUResident", "MigratingToGPU", "MigratingToCPU"}]
      /\ v \in [Pages -> BOOLEAN]
      /\ t \in [Pages -> {"Invalid", "Remote", "Migrating", "Local"}]
  BY DEF Managers
<1>. HIDE DEF mig, rs, s, v, t
<1>5. Silent(m, k) /\ k \in Managers
  BY <1>4 DEF Silent, Managers
<1>. HIDE DEF k
<1>6. Silent(k, l) /\ l \in Managers
  BY <1>2, <1>5, RecencySilent DEF Silent
<1>. HIDE DEF l
<1>7. Silent(l, n) /\ n \in Managers
  BY <1>1, <1>2, <1>6, TodoSilent DEF Silent
<1>. HIDE DEF n
<1>8. Says(m, l) /\ Says(m, n)
  BY <1>5, <1>6, <1>7, SilentTwice, SilentSays
<1>9. Says(l, InvalidateNext(l, id)) /\ Says(n, InvalidateNext(n, id))
  BY <1>6, <1>7, InvalidateNextSays
<1>10. Says(m, InvalidateNext(l, id)) /\ Says(m, InvalidateNext(n, id))
  BY <1>6, <1>7, <1>8, <1>9, SaysTwice
<1>. QED BY <1>3, <1>10

LEMMA CompleteWriteBackSays ==
  ASSUME NEW m, Safe(m), NEW r \in Regions, Concerned(m)
  PROVE  Says(m, CompleteWriteBack(m, r))
<1>. DEFINE id == Evict(r)
            waiting == m.migrations[id].faults
            k == FinalizeEviction(m, r)
            x == ForgetMigration(k, id)
            y == FinishFaults(x, waiting)
<1>1. m \in Managers /\ id \in MigrationIds
  BY IdTypes DEF Safe
<1>2. waiting \in SUBSET Regions
  BY <1>1 DEF Managers, Migration
<1>3. CompleteWriteBack(m, r) = ResumeWaiting(y, r)
  BY DEF CompleteWriteBack
<1>. HIDE DEF id, waiting
<1>4. Silent(m, k) /\ Safe(k) /\ k \in Managers
  BY FinalizeEvictionSilent, FinalizeEvictionSafe DEF Silent
<1>. HIDE DEF k
<1>5. Silent(k, x) /\ KeepsFrames(k, x) /\ x \in Managers
  BY <1>1, <1>4, ForgetMigrationSilent, ForgetMigrationKeeps DEF KeepsFrames
<1>. HIDE DEF x
<1>6. Safe(x) /\ Says(m, x)
  BY <1>1, <1>4, <1>5, KeepsFramesSafe, SilentTwice, SilentSays
<1>7. Says(x, y) /\ KeepsFrames(x, y) /\ y \in Managers
  BY <1>2, <1>5, FinishFaultsSays, FinishFaultsKeeps DEF KeepsFrames
<1>. HIDE DEF y
<1>8. Safe(y) /\ Says(m, y)
  BY <1>1, <1>5, <1>6, <1>7, KeepsFramesSafe, SaysTwice
<1>9. Concerned(y)
  BY <1>8 DEF Says
<1>10. Says(y, ResumeWaiting(y, r))
  BY <1>8, <1>9, ResumeWaitingSays
<1>. QED BY <1>1, <1>3, <1>7, <1>8, <1>10, SaysTwice

-----------------------------------------------------------------------------
(* Without prefetching a fetch is of pages of the region that faulted. *)
LEMMA OwnFetch ==
  ASSUME PrefetchDisabled, NEW m \in Managers, NEW r \in Regions,
         NEW sel, sel = Selection(Resident(m), InFlight(m), r)
  PROVE  /\ sel \in SUBSET Pages
         /\ sel # {} => r \in RegionsOfPages(sel)
<1>1. sel \in SUBSET Pages /\ sel \subseteq PagesOf(r)
  BY SelectionAlone
<1>2. \A p \in PagesOf(r) : RegionOf(p) = r
  BY DEF PagesOf
<1>. HIDE DEF Selection
<1>. QED BY <1>1, <1>2 DEF RegionsOfPages

LEMMA ServiceFaultSays ==
  ASSUME PrefetchDisabled, NEW m, Safe(m), NEW r \in Regions
  PROVE  Says(m, ServiceFault(m, r))
<1>. DEFINE id  == CoveringMigration(m, r)
            sel == Selection(Resident(m), InFlight(m), r)
            j   == [m EXCEPT !.faults[r] = "Migrating", !.migrations[id].faults = @ \cup {r}]
<1>1. m \in Managers
  BY DEF Safe
<1>2. id \in MigrationIds \cup {None}
  BY CoveringType
<1>3. ServiceFault(m, r) = IF id # None THEN j
                           ELSE IF sel = {} THEN FinishFaults(m, {r}) ELSE WithCapacity(m, r, sel)
  BY DEF ServiceFault
<1>4. sel \in SUBSET Pages /\ (sel # {} => r \in RegionsOfPages(sel))
  BY <1>1, OwnFetch
<1>. HIDE DEF id, sel
<1>5. id # None => Says(m, j)
  BY <1>1, <1>2, JoinSilent, SilentSays
<1>6. Says(m, FinishFaults(m, {r}))
  BY <1>1, FinishFaultsSays
<1>7. sel # {} => Says(m, WithCapacity(m, r, sel))
  BY <1>4, WithCapacitySays
<1>. HIDE DEF j
<1>. QED BY <1>3, <1>5, <1>6, <1>7
-----------------------------------------------------------------------------
(* The entry points. *)

LEMMA FaultStepsSay ==
  ASSUME Safe(uvm)
  PROVE  /\ \A p \in Pages, isWrite \in BOOLEAN : PageFault(p, isWrite) => Says(uvm, uvm')
         /\ \A r \in Regions : AccessCounterNotify(r) => Says(uvm, uvm')
         /\ \A r \in Regions : PrefetchDisabled /\ FaultReady(r) => Says(uvm, uvm')
         /\ \A r \in Regions : RemoteMapComplete(r) => Says(uvm, uvm')
<1>. DEFINE m == uvm
<1>1. m \in Managers
  BY DEF Safe
<1>2. ASSUME NEW p \in Pages, NEW isWrite \in BOOLEAN, PageFault(p, isWrite)
      PROVE  Says(uvm, uvm')
  <2>. DEFINE r == RegionOf(p)
              n == [m EXCEPT !.remoteMaps = @ \cup {r}, !.events = @ \cup {<<"RemoteMap", r>>}]
  <2>1. r \in Regions
    BY RegionType
  <2>2. uvm' = m \/ uvm' = n \/ uvm' = OpenFault(m, r)
    BY <1>2 DEF PageFault
  <2>3. Silent(m, n)
    <3>1. <<"RemoteMap", r>> \in Events
      BY <2>1 DEF Events
    <3>. HIDE DEF r
    <3>2. n \in Managers
      BY <1>1, <2>1, <3>1, ZenonT(60) DEF Managers
    <3>3. n.sendQueue = m.sendQueue /\ n.then = m.then /\ n.faults = m.faults
      BY <1>1 DEF Managers
    <3>. QED BY <3>2, <3>3 DEF Silent
  <2>. HIDE DEF n, r
  <2>. QED BY <1>1, <2>1, <2>2, <2>3, OpenFaultSilent, SilentSays, SaysSame
<1>3. ASSUME NEW r \in Regions, AccessCounterNotify(r)
      PROVE  Says(uvm, uvm')
  <2>1. uvm' = m \/ uvm' = OpenFault(m, r)
    BY <1>3 DEF AccessCounterNotify
  <2>. QED BY <1>1, <2>1, OpenFaultSilent, SilentSays, SaysSame
<1>4. ASSUME PrefetchDisabled, NEW r \in Regions, FaultReady(r)
      PROVE  Says(uvm, uvm')
  <2>. DEFINE e == m.events \ {<<"FaultReady", r>>}
              k == [m EXCEPT !.events = e]
              f == [k.faults EXCEPT ![r] = "Handling"]
              h == [k.phase EXCEPT ![r] = "FaultHandling"]
              n == [k EXCEPT !.faults = f, !.phase = h]
  <2>1. uvm' = k \/ uvm' = ParkFault(k, r) \/ uvm' = ServiceFault(n, r)
    BY <1>4 DEF FaultReady
  <2>2. e \subseteq Events
    BY <1>1 DEF Managers
  <2>. HIDE DEF e
  <2>3. k \in Managers /\ k.sendQueue = m.sendQueue /\ k.then = m.then /\ k.faults = m.faults
        /\ k.frame = m.frame /\ k.inUse = m.inUse
    BY <1>1, <2>2 DEF Managers
  <2>. HIDE DEF k
  <2>4. Silent(m, k) /\ Safe(k)
    BY <2>3, KeepsFramesSafe DEF Silent, KeepsFrames
  <2>5. /\ f \in [Regions -> {"None", "Pending", "Handling", "Migrating"}]
        /\ h \in [Regions -> {"Idle", "FaultPending", "FaultHandling", "MigratingToGPU", "Evicting"}]
        /\ \A x \in Regions : f[x] = "None" => k.faults[x] = "None"
    BY <2>3 DEF Managers
  <2>. HIDE DEF f, h
  <2>6. n \in Managers /\ n.sendQueue = k.sendQueue /\ n.then = k.then /\ n.faults = f
        /\ n.frame = k.frame /\ n.inUse = k.inUse
    BY <2>3, <2>5 DEF Managers
  <2>. HIDE DEF n
  <2>7. Silent(k, n) /\ Safe(n)
    BY <2>4, <2>5, <2>6, KeepsFramesSafe DEF Silent, KeepsFrames
  <2>8. Says(m, k) /\ Says(m, n)
    BY <1>1, <2>4, <2>7, SilentTwice, SilentSays
  <2>9. Says(n, ServiceFault(n, r))
    BY <1>4, <2>7, ServiceFaultSays
  <2>10. Silent(k, ParkFault(k, r))
    BY <2>3, ParkFaultSilent
  <2>11. Says(m, ServiceFault(n, r)) /\ Says(m, ParkFault(k, r))
    BY <1>1, <2>4, <2>8, <2>9, <2>10, SaysTwice, SilentTwice, SilentSays
  <2>. QED BY <2>1, <2>8, <2>11
<1>5. ASSUME NEW r \in Regions, RemoteMapComplete(r)
      PROVE  Says(uvm, uvm')
  <2>. DEFINE cold == ColdPages(m, r)
              e == m.events \ {<<"RemoteMap", r>>}
              q == m.remoteMaps \ {r}
              v == [p \in Pages |-> m.remote[p] \/ p \in cold]
              t == [p \in Pages |-> IF p \in cold THEN "Remote" ELSE m.pte[p]]
              n == [m EXCEPT !.events = e, !.remoteMaps = q, !.remote = v, !.pte = t]
  <2>1. uvm' = ReplayAll(n, <<r>>, FALSE)
    BY <1>5 DEF RemoteMapComplete
  <2>2. /\ e \subseteq Events /\ q \subseteq Regions /\ v \in [Pages -> BOOLEAN]
        /\ t \in [Pages -> {"Invalid", "Remote", "Migrating", "Local"}]
    BY <1>1 DEF Managers
  <2>. HIDE DEF e, q, v, t
  <2>3. n \in Managers /\ n.sendQueue = m.sendQueue /\ n.then = m.then /\ n.faults = m.faults
    BY <1>1, <2>2 DEF Managers
  <2>. HIDE DEF n
  <2>4. Says(m, n)
    BY <1>1, <2>3, SilentSays DEF Silent
  <2>5. <<r>> \in Seq(Regions) /\ FALSE \in BOOLEAN
    OBVIOUS
  <2>. QED BY <1>1, <2>1, <2>3, <2>4, <2>5, ReplayAllSays, SaysTwice
<1>. QED BY <1>2, <1>3, <1>4, <1>5

LEMMA MigrationStepsSay ==
  ASSUME Safe(uvm), Concerned(uvm)
  PROVE  /\ \A id \in MigrationIds, p \in Pages : DMADone(id, p) => Says(uvm, uvm')
         /\ \A id \in MigrationIds : MigrationComplete(id) => Says(uvm, uvm')
<1>. DEFINE m == uvm
<1>1. m \in Managers
  BY DEF Safe
<1>2. ASSUME NEW id \in MigrationIds, NEW p \in Pages, DMADone(id, p)
      PROVE  Says(uvm, uvm')
  <2>1. uvm' \in Managers
    BY <1>2, MigrationStepsSafe DEF Safe
  <2>2. uvm'.sendQueue = m.sendQueue /\ uvm'.then = m.then /\ uvm'.faults = m.faults
    BY <1>1, <1>2 DEF DMADone, Managers
  <2>. QED BY <1>1, <2>1, <2>2, SilentSays DEF Silent
<1>3. ASSUME NEW id \in MigrationIds, MigrationComplete(id)
      PROVE  Says(uvm, uvm')
  <2>. DEFINE e == uvm.events \ {<<"MigrationComplete", id>>}
              n == [m EXCEPT !.events = e]
  <2>1. uvm' = n \/ (id[1] = "admit" /\ uvm' = CompleteAdmission(n, id))
                 \/ (id[1] # "admit" /\ uvm' = CompleteWriteBack(n, id[2]))
    BY <1>3 DEF MigrationComplete
  <2>2. e \subseteq Events
    BY <1>1 DEF Managers
  <2>. HIDE DEF e
  <2>3. n \in Managers /\ n.sendQueue = m.sendQueue /\ n.then = m.then /\ n.faults = m.faults
        /\ n.frame = m.frame /\ n.inUse = m.inUse
    BY <1>1, <2>2 DEF Managers
  <2>. HIDE DEF n
  <2>4. Says(m, n) /\ Safe(n)
    BY <1>1, <2>3, SilentSays, KeepsFramesSafe DEF Silent, KeepsFrames
  <2>5. Concerned(n)
    BY <2>4 DEF Says
  <2>6. id[2] \in Regions /\ (id[1] = "admit" => id \in {"admit"} \X Regions)
    BY DEF MigrationIds
  <2>7. id[1] = "admit" => Says(n, CompleteAdmission(n, id))
    BY <2>3, <2>6, CompleteAdmissionSays
  <2>8. Says(n, CompleteWriteBack(n, id[2]))
    BY <2>4, <2>5, <2>6, CompleteWriteBackSays
  <2>. QED BY <1>1, <2>1, <2>4, <2>7, <2>8, SaysTwice
<1>. QED BY <1>2, <1>3

LEMMA ControlStepsSay ==
  ASSUME Safe(uvm), Concerned(uvm), NEW op \in ControlOps, ControlRsp(op)
  PROVE  Says(uvm, uvm')
<1>. DEFINE m == uvm
            e == uvm.controlOps \ {op}
            n == [m EXCEPT !.controlOps = e]
            flush == Request(n, "CacheRangeFlush", <<op.region>>, EvictOf)
<1>1. m \in Managers
  BY DEF Safe
<1>2. op.region \in Regions
  BY DEF ControlOps
<1>3. \/ /\ op.for \in {"evict"} \X Regions
         /\ op.kind \in {"TLBInvalidate", "CacheRangeFlush"}
      \/ /\ op.for \in {"admit"} \X Regions
         /\ op.kind \in {"TLBInvalidate", "RemoteDrain"}
  BY DEF ControlOps
<1>4. \/ uvm' = flush
      \/ uvm' = StartWriteBack(n, op.region)
      \/ op.for \in {"admit"} \X Regions /\ uvm' = DrainNext(n, op.for)
      \/ op.for \in {"admit"} \X Regions /\ uvm' = InvalidateNext(n, op.for)
  <2>. DEFINE a == op.for[1] = "evict" /\ op.kind = "TLBInvalidate"
              b == op.for[1] = "evict" /\ op.kind = "CacheRangeFlush"
              c == op.for[1] = "admit" /\ op.kind = "RemoteDrain"
              d == op.for[1] = "admit" /\ op.kind = "TLBInvalidate"
  <2>1. a \/ b \/ c \/ d
    BY <1>3
  <2>2. (c \/ d) => op.for \in {"admit"} \X Regions
    BY <1>3
  <2>3. uvm' = CASE a -> flush
                 [] b -> StartWriteBack(n, op.region)
                 [] c -> DrainNext(n, op.for)
                 [] d -> InvalidateNext(n, op.for)
    BY DEF ControlRsp
  <2>. HIDE DEF a, b, c, d, flush, n
  <2>. QED BY <2>1, <2>2, <2>3
<1>5. e \subseteq ControlOps
  BY <1>1 DEF Managers
<1>. HIDE DEF e
<1>6. n \in Managers /\ n.sendQueue = m.sendQueue /\ n.then = m.then /\ n.faults = m.faults
      /\ n.frame = m.frame /\ n.inUse = m.inUse
  BY <1>1, <1>5 DEF Managers
<1>. HIDE DEF n
<1>7. Says(m, n) /\ Safe(n)
  BY <1>1, <1>6, SilentSays, KeepsFramesSafe DEF Silent, KeepsFrames
<1>8. Concerned(n)
  BY <1>7 DEF Says
<1>9. Says(n, flush)
  <2>1. \A r \in Regions :
          [kind |-> "CacheRangeFlush", region |-> r, for |-> EvictOf[r]] \in ControlOps
    BY DEF EvictOf, Evict, ControlOps
  <2>2. <<op.region>> \in Seq(Regions)
    BY <1>2
  <2>. QED BY <1>6, <2>1, <2>2, RequestSays
<1>10. Says(n, StartWriteBack(n, op.region))
  BY <1>2, <1>7, <1>8, StartWriteBackSays
<1>11. op.for \in {"admit"} \X Regions =>
         Says(n, DrainNext(n, op.for)) /\ Says(n, InvalidateNext(n, op.for))
  BY <1>6, DrainNextSays, InvalidateNextSays
<1>. HIDE DEF flush
<1>. QED BY <1>1, <1>4, <1>7, <1>9, <1>10, <1>11, SaysTwice

(* Sending closes no transaction. *)
LEMMA SendStepsSilent ==
  ASSUME Safe(uvm), SendControl \/ SendReset
  PROVE  uvm'.faults = uvm.faults /\ uvm'.then = uvm.then
BY DEF SendControl, SendReset, Safe, Managers

LEMMA StepsAnswered ==
  ASSUME PrefetchDisabled, Safe(uvm), Concerned(uvm), [Next]_uvm
  PROVE  /\ Concerned(uvm')
         /\ [\A r \in Regions :
               uvm.faults[r] # "None" /\ uvm'.faults[r] = "None" => ReplayQueued(r)]_uvm
<1>1. CASE Says(uvm, uvm')
  <2>1. PICK t \in Seq(Messages) :
          /\ uvm'.sendQueue = uvm.sendQueue \o t
          /\ \A k \in Regions : uvm.faults[k] # "None" /\ uvm'.faults[k] = "None" => Told(t, k)
    BY <1>1 DEF Says, Answers
  <2>. DEFINE q == uvm.sendQueue
              z == uvm'.sendQueue
  <2>2. q \in Seq(Messages)
    BY DEF Safe, Managers
  <2>. HIDE DEF q, z
  <2>3. z = q \o t
    BY <2>1 DEF q, z
  <2>4. \A i \in 1..Len(t) : Len(q) + i \in Len(q) + 1 .. Len(z) /\ z[Len(q) + i] = t[i]
    BY <2>2, <2>3
  <2>5. ASSUME NEW k \in Regions, uvm.faults[k] # "None", uvm'.faults[k] = "None"
        PROVE  \E i \in Len(q) + 1 .. Len(z) : z[i].kind = "FaultReplay" /\ z[i].region = k
    <3>1. PICK i \in 1..Len(t) : t[i].kind = "FaultReplay" /\ t[i].region = k
      BY <2>1, <2>5 DEF Told
    <3>. QED BY <2>4, <3>1
  <2>. QED BY <1>1, <2>5 DEF Says, ReplayQueued, q, z
<1>2. CASE SendControl \/ SendReset
  BY <1>2, SendStepsSilent DEF Concerned
<1>3. CASE UNCHANGED uvm
  BY <1>3
<1>4. CASE Next
  BY <1>1, <1>2, <1>4, FaultStepsSay, MigrationStepsSay, ControlStepsSay DEF Next
<1>. QED BY <1>3, <1>4

(* Without prefetching, whoever closes a transaction tells the GPU about   *)
(* its region: through joined services, admissions without a frame,        *)
(* evictions that resume admissions, and migrations that answer several    *)
(* transactions (retireFaultsLocked, deferAdmissionLocked, uvm_fault.go).  *)
THEOREM EveryFaultAnswered == ASSUME PrefetchDisabled PROVE Spec => RetiredIsAnswered
<1>1. Init => Concerned(uvm)
  BY DEF Init, Concerned
<1>2. Safe(uvm) /\ Concerned(uvm) /\ [Next]_uvm => Concerned(uvm)'
  BY StepsAnswered
<1>3. Safe(uvm) /\ Concerned(uvm) /\ [Next]_uvm =>
        [\A r \in Regions :
           uvm.faults[r] # "None" /\ uvm'.faults[r] = "None" => ReplayQueued(r)]_uvm
  BY StepsAnswered
<1>. QED BY <1>1, <1>2, <1>3, SafeAlways, PTL DEF Spec, RetiredIsAnswered
=============================================================================
