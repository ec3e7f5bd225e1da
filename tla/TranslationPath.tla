--------------------------- MODULE TranslationPath ---------------------------
(***************************************************************************)
(* The way of an access to its page, and what migrations do to it: address *)
(* translators, a TLB per core, the shared second TLB, the GMMU, the UVM   *)
(* path of the command processor, and the driver, which changes the page   *)
(* table under all of them.                                                *)
(*                                                                         *)
(* Each handler of a component is an action, so that the ticks of the      *)
(* components interleave in every way.  The answers of one component and   *)
(* the port of the next are one queue.  The driver serves whole regions    *)
(* here; module UVMManager has the rest of it.                             *)
(***************************************************************************)
EXTENDS GMMU

CONSTANTS
  Cores,                 \* one address translator and first TLB each
  Programs,              \* sets of accesses, one of which happens
  InTLBMSHRMax,          \* ways the second TLB may lend to its MSHR
  L2,                    \* the name of the second TLB
  AccessCounterEnabled,  \* the host's pages may be reached over PCIe
  LazyRemotePTE,         \* the first fault, not the allocation, maps them so
  MaxEvictions           \* bound: evictions of the run

ASSUME PathAssumption ==
  /\ UNION Programs \subseteq [id : Nat, core : Cores, page : Pages]
  /\ L2 \notin Cores /\ TLBNames = Cores \cup {L2}
  /\ InTLBMSHRMax \in Nat /\ MaxEvictions \in Nat
  /\ AccessCounterEnabled \in BOOLEAN /\ LazyRemotePTE \in BOOLEAN

VARIABLES
  access,     \* the translators: how far each access of the program is
  tlb,        \* the first TLB of each core, and the second, L2
  answers,    \* translations on their way to the translators
  gmmu,
  commands,   \* what the driver has sent and the command processor not passed on
  flush,      \* currCacheRangeFlush of the command processor
  draining,   \* the translators that have still to drain for it
  table,      \* the page table
  service,    \* what the driver does with a region
  faulted,    \* regions with an open fault transaction
  evictions   \* evictions that may still happen

vars == <<access, answers, tlb, gmmu, commands, flush, draining, table, service, faulted, evictions>>

gpu    == <<access, answers, tlb, gmmu, flush, draining>>
driver == <<table, service, faulted, evictions>>

(* What the first TLBs are asked, and what they ask the second. *)
Accesses == UNION Programs
Misses2  == [core : Cores, page : Pages]

(* The TLBs are well formed, and what they hold are mappings a cache can   *)
(* use: an answer says local, remote or host, never that a page is invalid *)
(* or migrating (gmmuMiddleware.go:531).                                   *)
TypeOK ==
  /\ DOMAIN access \in Programs
  /\ access \in [DOMAIN access -> {"Idle", "Translating", "Resolved", "Local", "Remote", "Done"}]
  /\ answers \in [Cores -> Seq([req : Accesses, mapping : Mappings])]
  /\ DOMAIN tlb = TLBNames /\ tlb[L2] \in TLBs(Misses2)
  /\ \A c \in Cores : tlb[c] \in TLBs(Accesses)
  /\ gmmu \in GMMUs
  /\ commands \in Seq(UVMCommands)
  /\ flush \in [region : Regions, issued : BOOLEAN] \cup {None}
  /\ draining \subseteq Cores
  /\ table \in [Regions -> PTEs]
  /\ service \in [Regions -> {"Idle", "Admitting", "Replacing", "Publishing",
                              "Invalidating", "Flushing", "WritingBack"}]
  /\ faulted \subseteq Regions
  /\ evictions \in 0..MaxEvictions

(* How the pages of a region on the host are mapped. *)
HostPTE == IF AccessCounterEnabled /\ ~LazyRemotePTE THEN "Remote" ELSE "Invalid"

Init ==
  /\ \E program \in Programs : access = [a \in program |-> "Idle"]
  /\ answers = [c \in Cores |-> <<>>]
  /\ tlb = [n \in TLBNames |-> IF n = L2 THEN NewTLB(Mappings, InTLBMSHRMax)
                               ELSE NewTLB({"Local", "Host"}, 0)]
  /\ gmmu = InitialGMMU
  /\ commands = <<>>
  /\ flush = None
  /\ draining = {}
  /\ table = [r \in Regions |-> HostPTE]
  /\ service = [r \in Regions |-> "Idle"]
  /\ faulted = {}
  /\ evictions = MaxEvictions

-----------------------------------------------------------------------------
(* The address translators.                                                *)

(* translate. *)
Translate(a) ==
  /\ a \in DOMAIN access /\ access[a] = "Idle" /\ ~Full(tlb[a.core].topIn)
  /\ access' = [access EXCEPT ![a] = "Translating"]
  /\ tlb' = [tlb EXCEPT ![a.core].topIn = Append(@, a)]
  /\ UNCHANGED <<answers, gmmu, commands, flush, draining, driver>>

(* parseTranslation: the request takes the route its page names.  If that  *)
(* port has no room it tries again, with the answer it has.                *)
ParseTranslation(c) ==
  /\ answers[c] # <<>>
  /\ LET answer == Head(answers[c])
     IN  access' = [access EXCEPT ![answer.req] =
                      IF answer.mapping = "Remote" THEN "Remote" ELSE "Local"]
  /\ answers' = [answers EXCEPT ![c] = Tail(@)]
  /\ UNCHANGED <<tlb, gmmu, commands, flush, draining, driver>>

RouteBusy(c) ==
  /\ answers[c] # <<>>
  /\ access[Head(answers[c]).req] = "Translating"
  /\ access' = [access EXCEPT ![Head(answers[c]).req] = "Resolved"]
  /\ UNCHANGED <<answers, tlb, gmmu, commands, flush, draining, driver>>

(* respond. *)
Complete(a) ==
  /\ a \in DOMAIN access /\ access[a] \in {"Local", "Remote"}
  /\ access' = [access EXCEPT ![a] = "Done"]
  /\ UNCHANGED <<answers, tlb, gmmu, commands, flush, draining, driver>>

(* hasOutstandingInRange: requests with a local mapping, not those that    *)
(* wait for a translation or are on their way to the host.                 *)
Outstanding(c, r) ==
  \E a \in DOMAIN access :
    /\ a.core = c /\ RegionOf[a.page] = r
    /\ \/ access[a] = "Local"
       \/ access[a] = "Resolved" /\ Head(answers[c]).mapping # "Remote"

(* handleDrainRange, collectDrainAcks. *)
Drained(c) ==
  /\ c \in draining /\ ~Outstanding(c, flush.region)
  /\ draining' = draining \ {c}
  /\ UNCHANGED <<access, answers, tlb, gmmu, commands, flush, driver>>

-----------------------------------------------------------------------------
(* The TLBs.  A first TLB answers its translator and asks the second TLB,  *)
(* which answers it and asks the GMMU.                                     *)

(* TLB n answers request q, and is t then. *)
Answer(n, q, mapping, t) ==
  IF n = L2
  THEN /\ ~Full(tlb[q.core].bottomIn)
       /\ tlb' = [tlb EXCEPT ![n] = t, ![q.core].bottomIn =
                     Append(@, [page |-> q.page, mapping |-> mapping])]
       /\ UNCHANGED answers
  ELSE /\ ~Full(answers[n])
       /\ tlb' = [tlb EXCEPT ![n] = t]
       /\ answers' = [answers EXCEPT ![n] = Append(@, [req |-> q, mapping |-> mapping])]

(* TLB n asks for page p, and is t then. *)
Ask(n, p, t) ==
  IF n = L2
  THEN /\ ~Full(gmmu.topIn)
       /\ tlb' = [tlb EXCEPT ![n] = t]
       /\ gmmu' = [gmmu EXCEPT !.topIn = Append(@, p)]
  ELSE /\ ~Full(tlb[L2].topIn)
       /\ tlb' = [tlb EXCEPT ![n] = t, ![L2].topIn = Append(@, [core |-> n, page |-> p])]
       /\ UNCHANGED gmmu

Lookup(n) ==
  /\ \/ /\ JoinsEntry(tlb[n])
        /\ tlb' = [tlb EXCEPT ![n] = JoinEntry(@)]
        /\ UNCHANGED <<answers, gmmu>>
     \/ /\ Hits(tlb[n])
        /\ Answer(n, Head(tlb[n].topIn), Translation(tlb[n]), AnswerHit(tlb[n]))
        /\ UNCHANGED gmmu
     \/ /\ Misses(tlb[n])
        /\ Ask(n, Head(tlb[n].topIn).page, OpenEntry(tlb[n]))
        /\ UNCHANGED answers
  /\ UNCHANGED <<access, commands, flush, draining, driver>>

ParseFill(n) ==
  /\ CanParseBottom(tlb[n])
  /\ tlb' = [tlb EXCEPT ![n] = ParseBottom(@)]
  /\ UNCHANGED <<access, answers, gmmu, commands, flush, draining, driver>>

RespondEntry(n) ==
  /\ Responding(tlb[n])
  /\ Answer(n, Head(tlb[n].responding.requests), tlb[n].responding.mapping, Respond(tlb[n]))
  /\ UNCHANGED <<access, gmmu, commands, flush, draining, driver>>

-----------------------------------------------------------------------------
(* The GMMU.                                                               *)

AdmitWalk ==
  /\ CanWalk(gmmu) /\ gmmu' = StartWalk(gmmu)
  /\ UNCHANGED <<access, answers, tlb, commands, flush, draining, driver>>

PTE(p) == table[RegionOf[p]]

(* doPageWalkHit. *)
AnswerWalk(p) ==
  /\ ~Full(tlb[L2].bottomIn)
  /\ tlb' = [tlb EXCEPT ![L2].bottomIn = Append(@, [page |-> p, mapping |-> MappingOf(PTE(p))])]

(* finalizePageWalk. *)
FinalizeWalk(walk) ==
  /\ walk \in gmmu.walking
  /\ \/ /\ NeedsFault(PTE(walk.page)) /\ ~Full(gmmu.uvmOut)
        /\ gmmu' = SendUVMFault(gmmu, walk) /\ UNCHANGED tlb
     \/ /\ ~NeedsFault(PTE(walk.page)) /\ AnswerWalk(walk.page)
        /\ gmmu' = EndWalk(gmmu, walk)
  /\ UNCHANGED <<access, answers, commands, flush, draining, driver>>

(* replayRange: one translation at a time, then the replay is over.  A     *)
(* refused region is answered with whatever the table says.                *)
ReplayRange ==
  /\ Replaying(gmmu)
  /\ LET i == FirstNamed(gmmu)
     IN  IF i = 0
         THEN gmmu' = ConsumeReplay(gmmu) /\ UNCHANGED tlb
         ELSE LET p     == gmmu.replayQueue[i].page
                  again == NeedsFault(PTE(p)) /\ ~Head(gmmu.uvmIn).refused
              IN  IF again
                  THEN ~Full(tlb[L2].bottomIn) /\ gmmu' = Refault(gmmu, i) /\ UNCHANGED tlb
                  ELSE AnswerWalk(p) /\ gmmu' = Unpark(gmmu, i)
  /\ UNCHANGED <<access, answers, commands, flush, draining, driver>>

StartInvalidate ==
  /\ CanStartInvalidate(gmmu) /\ gmmu' = StartTLBInvalidate(gmmu)
  /\ UNCHANGED <<access, answers, tlb, commands, flush, draining, driver>>

(* handleInvalidateRange, by one TLB. *)
InvalidateTLB(name) ==
  /\ name \in gmmu.toInvalidate
  /\ gmmu' = CollectAck(gmmu, name)
  /\ tlb' = [tlb EXCEPT ![name] = InvalidateRange(@, PagesIn(gmmu.invalidating))]
  /\ UNCHANGED <<access, answers, commands, flush, draining, driver>>

CompleteInvalidate ==
  /\ CanCompleteInvalidate(gmmu) /\ gmmu' = CompleteTLBInvalidate(gmmu)
  /\ UNCHANGED <<access, answers, tlb, commands, flush, draining, driver>>

-----------------------------------------------------------------------------
(* The command processor.                                                  *)

(* processFromDriver, forwardToGMMU, forwardReplay, startCacheRangeFlush:  *)
(* what cannot be passed on yet keeps back what is behind it.              *)
Dispatch ==
  /\ commands # <<>>
  /\ commands' = Tail(commands)
  /\ IF Head(commands).kind = "Flush"
     THEN /\ flush = None
          /\ flush' = [region |-> Head(commands).region, issued |-> FALSE]
          /\ draining' = Cores
          /\ UNCHANGED gmmu
     ELSE /\ ~Full(gmmu.uvmIn)
          /\ gmmu' = [gmmu EXCEPT !.uvmIn = Append(@, Head(commands))]
          /\ UNCHANGED <<flush, draining>>
  /\ UNCHANGED <<access, answers, tlb, driver>>

(* issueCacheRangeFlush. *)
IssueCacheRangeFlush ==
  /\ flush # None /\ draining = {} /\ ~flush.issued
  /\ flush' = [flush EXCEPT !.issued = TRUE]
  /\ UNCHANGED <<access, answers, tlb, gmmu, commands, draining, driver>>

(* completeCacheRangeFlush, when the caches have answered; the driver      *)
(* starts to copy (evictionStartD2H).                                      *)
CompleteCacheRangeFlush ==
  /\ flush # None /\ flush.issued
  /\ flush' = None
  /\ service' = [service EXCEPT ![flush.region] = "WritingBack"]
  /\ UNCHANGED <<access, answers, tlb, gmmu, commands, draining, table, faulted, evictions>>

-----------------------------------------------------------------------------
(* The driver.                                                             *)

Send(c) == commands' = Append(commands, c)
Replay(r, refused) == Send([kind |-> "Replay", region |-> r, refused |-> refused])

(* onPageFault, and onControlRsp for an invalidation: of an eviction,      *)
(* which goes on with the flush, or of an admission, which is over.        *)
Receive ==
  /\ gmmu.uvmOut # <<>>
  /\ gmmu' = [gmmu EXCEPT !.uvmOut = Tail(@)]
  /\ LET msg == Head(gmmu.uvmOut)
     IN  IF msg.kind = "Fault"
         THEN /\ faulted' = faulted \cup {RegionOf[msg.page]}
              /\ UNCHANGED <<service, commands>>
         ELSE IF service[msg.region] = "Invalidating"
         THEN /\ service' = [service EXCEPT ![msg.region] = "Flushing"]
              /\ Send([kind |-> "Flush", region |-> msg.region])
              /\ UNCHANGED faulted
         ELSE /\ service' = [service EXCEPT ![msg.region] = "Idle"]
              /\ faulted' = faulted \ {msg.region}
              /\ Replay(msg.region, FALSE)
  /\ UNCHANGED <<access, answers, tlb, flush, draining, table, evictions>>

(* serviceFaultLocked of a region that is resident by now. *)
ServeResident(r) ==
  /\ r \in faulted /\ service[r] = "Idle" /\ table[r] = "Local"
  /\ faulted' = faulted \ {r}
  /\ Replay(r, FALSE)
  /\ UNCHANGED <<gpu, table, service, evictions>>

(* completeRemoteMap. *)
MapRemote(r) ==
  /\ AccessCounterEnabled
  /\ r \in faulted /\ service[r] = "Idle" /\ table[r] = "Invalid"
  /\ table' = [table EXCEPT ![r] = "Remote"]
  /\ faulted' = faulted \ {r}
  /\ Replay(r, FALSE)
  /\ UNCHANGED <<gpu, service, evictions>>

(* deferAdmission. *)
Refuse(r) ==
  /\ r \in faulted /\ service[r] = "Idle" /\ table[r] \in {"Invalid", "Remote"}
  /\ faulted' = faulted \ {r}
  /\ Replay(r, TRUE)
  /\ UNCHANGED <<gpu, table, service, evictions>>

(* startCPUToGPUMigration, for a fault of the region or, by prefetch, of   *)
(* another, or for a notification of the access counter.  Only a region    *)
(* that was mapped remotely is invalidated at the end.                     *)
Admit(r) ==
  /\ faulted # {} \/ table[r] = "Remote"
  /\ service[r] = "Idle" /\ table[r] \in {"Invalid", "Remote"}
  /\ service' = [service EXCEPT ![r] =
                   IF table[r] = "Remote" THEN "Replacing" ELSE "Admitting"]
  /\ table' = [table EXCEPT ![r] = "Migrating"]
  /\ UNCHANGED <<gpu, commands, faulted, evictions>>

(* completeCPUToGPUMigrationLocked, finishMigrationLocked. *)
FinishAdmission(r) ==
  /\ service[r] \in {"Admitting", "Replacing"}
  /\ table' = [table EXCEPT ![r] = "Local"]
  /\ IF service[r] = "Replacing"
     THEN /\ service' = [service EXCEPT ![r] = "Publishing"]
          /\ Send([kind |-> "Invalidate", region |-> r])
          /\ UNCHANGED faulted
     ELSE /\ service' = [service EXCEPT ![r] = "Idle"]
          /\ faulted' = faulted \ {r}
          /\ Replay(r, FALSE)
  /\ UNCHANGED <<gpu, evictions>>

(* beginEviction. *)
BeginEviction(r) ==
  /\ evictions > 0 /\ evictions' = evictions - 1
  /\ service[r] = "Idle" /\ table[r] = "Local"
  /\ service' = [service EXCEPT ![r] = "Invalidating"]
  /\ table' = [table EXCEPT ![r] = "Migrating"]
  /\ Send([kind |-> "Invalidate", region |-> r])
  /\ UNCHANGED <<gpu, faulted>>

(* finalizeEviction: no replay; the faults of the region are served again. *)
FinishEviction(r) ==
  /\ service[r] = "WritingBack"
  /\ service' = [service EXCEPT ![r] = "Idle"]
  /\ table' = [table EXCEPT ![r] = HostPTE]
  /\ UNCHANGED <<gpu, commands, faulted, evictions>>

-----------------------------------------------------------------------------
Next ==
  \/ \E a \in Accesses : Translate(a) \/ Complete(a)
  \/ \E c \in Cores : ParseTranslation(c) \/ RouteBusy(c) \/ Drained(c)
  \/ \E n \in TLBNames : Lookup(n) \/ ParseFill(n) \/ RespondEntry(n)
  \/ AdmitWalk \/ ReplayRange \/ StartInvalidate \/ CompleteInvalidate
  \/ \E walk \in gmmu.walking : FinalizeWalk(walk)
  \/ \E name \in TLBNames : InvalidateTLB(name)
  \/ Dispatch \/ IssueCacheRangeFlush \/ CompleteCacheRangeFlush
  \/ Receive
  \/ \E r \in Regions : ServeResident(r) \/ MapRemote(r) \/ Refuse(r)
  \/ \E r \in Regions : Admit(r) \/ FinishAdmission(r)
  \/ \E r \in Regions : BeginEviction(r) \/ FinishEviction(r)

Spec == Init /\ [][Next]_vars

-----------------------------------------------------------------------------
(* Properties.                                                             *)

(* An access in translation has exactly one request or answer on the way,  *)
(* through misses that are joined, entries that outlive their translation, *)
(* stale fills and replays; one that is not has none.                      *)
EachAccessOnce ==
  \A a \in DOMAIN access :
    Held(tlb[a.core], a)
      + Cardinality({i \in 1..Len(answers[a.core]) : answers[a.core][i].req = a})
      = IF access[a] \in {"Translating", "Resolved"} THEN 1 ELSE 0

(* An MSHR entry has exactly one request below it, wherever that is: with  *)
(* the next TLB, the walker, the replay queue, or on its way back.  A      *)
(* fault that is replayed twice (gmmuMiddleware.go:495), or raised again   *)
(* while its answer is under way, would make two; a lost one leaves the    *)
(* entry open for ever.                                                    *)
EachMissOnce ==
  /\ \A c \in Cores, p \in Pages :
       Held(tlb[L2], [core |-> c, page |-> p]) + Returned(tlb[c], p)
         = IF Open(tlb[c], p) THEN 1 ELSE 0
  /\ \A p \in Pages :
       Times(gmmu.topIn, p)
         + Cardinality({w \in gmmu.walking : w.page = p})
         + Cardinality({i \in 1..Len(gmmu.replayQueue) : gmmu.replayQueue[i].page = p})
         + Returned(tlb[L2], p)
         = IF Open(tlb[L2], p) THEN 1 ELSE 0

(* In every TLB a page that the index finds is in the block the index      *)
(* names, and the ways out of the rotation are those the MSHR has          *)
(* borrowed, each for one entry (set.go Reserve and Release,               *)
(* tlbMiddleware.go:600): a way lent twice or never given back would       *)
(* shrink the set, one evicted while lent would lose an entry.             *)
SetsConsistent == \A n \in TLBNames : Consistent(tlb[n])

(* Once the invalidation of an eviction is acknowledged, and until the     *)
(* eviction is over, the second TLB has no local translation of its pages, *)
(* though translations read before the page table changed may have come    *)
(* back since (rangeinvalidate.go:57).                                     *)
L2NeverStale ==
  \A p \in Pages :
    service[RegionOf[p]] \in {"Flushing", "WritingBack"} =>
      ~(Found(tlb[L2], p) /\ tlb[L2].block[tlb[L2].index[p]].mapping = "Local")

Replays(s, r) == \E c \in Elements(s) : c.kind = "Replay" /\ c.region = r

(* A translation that waits in the replay queue is cared for: its fault is *)
(* on the way or has an open transaction, or a replay of its region is on  *)
(* the way that will release it (gmmuMiddleware.go:366, 457).  The driver  *)
(* answers regions, the GMMU waits for pages, and several faults share one *)
(* answer.                                                                 *)
NoFaultForgotten ==
  \A i \in 1..Len(gmmu.replayQueue) :
    LET walk == gmmu.replayQueue[i]
        r    == RegionOf[walk.page]
    IN  \/ \E m \in Elements(gmmu.uvmOut) : m.kind = "Fault" /\ RegionOf[m.page] = r
        \/ r \in faulted
        \/ Replays(commands, r)
        \/ Replays(IF walk.refaulted THEN Tail(gmmu.uvmIn) ELSE gmmu.uvmIn, r)

(* The claim of uvm_eviction.go:170 and addresstranslator.go:506: when the *)
(* data of a victim is copied, no access to it with a local translation is *)
(* on its way to the caches, as whoever still waits for a translation will *)
(* fault.                                                                  *)
SettledBeforeCopy ==
  \A r \in Regions : service[r] = "WritingBack" => \A c \in Cores : ~Outstanding(c, r)
=============================================================================
