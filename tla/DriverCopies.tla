---------------------------- MODULE DriverCopies ----------------------------
(***************************************************************************)
(* The commands of the program: kernels and memory copies, from the        *)
(* command queues of the driver (driver.go, memorycopy.go) through the     *)
(* command processor (cp/cpMiddleware.go) and its DMA engine (cp/dma.go)   *)
(* and back.  The migrations of the UVM manager use the same way, and      *)
(* their responses come to the same port.                                  *)
(*                                                                         *)
(* One context and one GPU.  A copy is split by page; of the data, only    *)
(* whether the caches hold something newer than memory is kept.  The UVM   *)
(* manager appears with what the copies see of it: where each managed page *)
(* is, and what it has in transit.  The ports have room (their buffers are *)
(* larger than any program's requests).                                    *)
(***************************************************************************)
EXTENDS OrderedLists

CONSTANTS
  Queues,       \* command queues
  Pages,        \* pages of the buffers, numbers in the order of addresses
  Managed,      \* those of managed buffers
  Program,      \* the commands of each queue: [kind, pages]
  Cycles,       \* cyclesPerH2D, cyclesPerD2H
  Dispatchers,  \* kernels that run at a time
  MaxCopies,    \* maxRequestCount of the DMA engine
  MaxMoves,     \* bound: migrations of the run
  None

Kinds == {"Kernel", "H2D", "D2H"}

(* The requests to the GPU.  Those without a queue are the UVM manager's. *)
Launches   == [kind : {"Launch"}, queue : Queues, page : {None}]
Flushes    == [kind : {"Flush"}, queue : Queues, page : {None}]
UserCopies == [kind : {"H2D", "D2H"}, queue : Queues, page : Pages]
Migrations == [kind : {"H2D", "D2H"}, queue : {None}, page : Managed]
Copies     == UserCopies \cup Migrations
Requests   == Launches \cup Flushes \cup Copies

ASSUME CopiesAssumption ==
  /\ Pages \subseteq Nat /\ IsFiniteSet(Pages) /\ Managed \subseteq Pages
  /\ Program \in [Queues -> Seq([kind : Kinds, pages : SUBSET Pages])]
  /\ \A q \in Queues : \A i \in 1..Len(Program[q]) : Program[q][i].pages # {}
  /\ Cycles \in Nat /\ MaxMoves \in Nat
  /\ Dispatchers \in Nat \ {0} /\ MaxCopies \in Nat \ {0}
  /\ None \notin Queues \cup Pages \cup Requests

VARIABLES
  commands,    \* the commands of each queue that are not yet complete
  reqs,        \* Reqs of the first of them
  running,     \* IsRunning
  l2Dirty,     \* the caches may hold data of the buffers
  awaiting,    \* awaitingReqs of the copy middleware, of all commands
  cyclesLeft,  \* until they are sent
  pendingD2H,  \* the queue whose D2H is deferred
  flushed,     \* pendingD2HFlushed
  toGPU,       \* requestsToSend and the port of the command processor
  flushing,    \* currFlushRequest, while numCacheACK > 0
  kernels,     \* launched and not yet complete
  toDMA,       \* the port of the DMA engine
  processing,  \* processingReqs of the DMA engine
  returned,    \* responses on their way to the port of the driver
  dirty,       \* pages of which the caches hold newer data
  location,    \* where the UVM manager has each managed page
  moves        \* migrations that may still happen

vars == <<commands, reqs, running, l2Dirty, awaiting, cyclesLeft, pendingD2H, flushed,
          toGPU, flushing, kernels, toDMA, processing, returned, dirty, location, moves>>

queues == <<commands, reqs, running>>
copier == <<awaiting, cyclesLeft, pendingD2H, flushed>>
gpu    == <<flushing, kernels, toDMA, processing, dirty>>
uvm    == <<location, moves>>

(* The queues hold what may be in them: copies of the program wait in the  *)
(* middleware, only copies reach the DMA engine, cyclesLeft ends at -1     *)
(* (memorycopy.go:300).                                                    *)
TypeOK ==
  /\ commands \in [Queues -> Seq([kind : Kinds, pages : SUBSET Pages])]
  /\ reqs \in [Queues -> SUBSET Requests]
  /\ running \in [Queues -> BOOLEAN]
  /\ l2Dirty \in BOOLEAN
  /\ awaiting \in Seq(UserCopies)
  /\ cyclesLeft \in -1..Cycles
  /\ pendingD2H \in Queues \cup {None} /\ flushed \in BOOLEAN
  /\ toGPU \in Seq(Requests)
  /\ flushing \in Flushes \cup {None}
  /\ kernels \subseteq Launches
  /\ toDMA \in Seq(Copies) /\ processing \subseteq Copies
  /\ returned \in Seq(Requests)
  /\ dirty \subseteq Pages
  /\ location \in [Managed -> {"Host", "ToGPU", "GPU", "Flushing", "ToHost"}]
  /\ moves \in 0..MaxMoves

Init ==
  /\ commands = Program
  /\ reqs = [q \in Queues |-> {}] /\ running = [q \in Queues |-> FALSE]
  /\ l2Dirty = FALSE
  /\ awaiting = <<>> /\ cyclesLeft = 0
  /\ pendingD2H = None /\ flushed = FALSE
  /\ toGPU = <<>> /\ flushing = None /\ kernels = {}
  /\ toDMA = <<>> /\ processing = {} /\ returned = <<>>
  /\ dirty = {}
  /\ location = [p \in Managed |-> "Host"] /\ moves = MaxMoves

-----------------------------------------------------------------------------
(* The copies of a command.                                                *)

FlushOf(q)  == [kind |-> "Flush", queue |-> q, page |-> None]
LaunchOf(q) == [kind |-> "Launch", queue |-> q, page |-> None]
Copy(kind, q, p) == [kind |-> kind, queue |-> q, page |-> p]

(* The pages that are not copied by the driver itself, in the memory of    *)
(* the host.  The mapping of a page in transit names the host.             *)
OnGPU(pages) == {p \in pages : p \in Managed => location[p] = "GPU"}

(* A copy request per page on the GPU.  They wait until cyclesLeft has     *)
(* passed, counted again from the last command.                            *)
CopyRequests(q) ==
  LET cmd == Head(commands[q])
      on  == Ascending(OnGPU(cmd.pages))
  IN  [i \in 1..Len(on) |-> Copy(cmd.kind, q, on[i])]

(* IsRunning is reset and the command leaves its queue. *)
Complete(q) ==
  /\ commands' = [commands EXCEPT ![q] = Tail(@)]
  /\ running' = [running EXCEPT ![q] = FALSE]
  /\ reqs' = [reqs EXCEPT ![q] = {}]

Await(q, R) ==
  /\ reqs' = [reqs EXCEPT ![q] = R]
  /\ running' = [running EXCEPT ![q] = TRUE]
  /\ UNCHANGED commands

(* What a command has sent decides whether it is over, not what waits in   *)
(* the middleware.                                                         *)
SettleShared(q, R) ==   \* mutant: the test of awaitingReqs that the code once had
  IF R = {} /\ awaiting = <<>> THEN Complete(q) ELSE Await(q, R)
Settle(q, R) == IF R = {} THEN Complete(q) ELSE Await(q, R)

(* sendFlushRequest, to the one GPU, if a buffer of the range is dirty. *)
FlushFirst(q) == IF l2Dirty THEN <<FlushOf(q)>> ELSE <<>>

-----------------------------------------------------------------------------
(* processNewCommand.                                                      *)

IsNext(q, kind) ==
  commands[q] # <<>> /\ ~running[q] /\ Head(commands[q]).kind = kind

(* processLaunchKernelCommand. *)
ProcessLaunchKernel(q) ==
  /\ IsNext(q, "Kernel")
  /\ Await(q, {LaunchOf(q)})
  /\ toGPU' = Append(toGPU, LaunchOf(q))
  /\ l2Dirty' = TRUE
  /\ UNCHANGED <<copier, gpu, returned, uvm>>

(* processMemCopyH2DCommand. *)
ProcessMemCopyH2D(q) ==
  /\ IsNext(q, "H2D")
  /\ LET flush  == FlushFirst(q)
         copies == CopyRequests(q)
     IN  /\ toGPU' = toGPU \o flush
         /\ awaiting' = awaiting \o copies
         /\ Settle(q, Elements(flush \o copies))
  /\ cyclesLeft' = Cycles
  /\ UNCHANGED <<l2Dirty, pendingD2H, flushed, gpu, returned, uvm>>

(* readManagedD2H; R are the requests the command has already. *)
ReadD2H(q, R) ==
  LET copies == CopyRequests(q)
      all    == R \cup Elements(copies)
  IN  /\ awaiting' = awaiting \o copies
      /\ cyclesLeft' = IF all = {} THEN cyclesLeft ELSE Cycles
      /\ Settle(q, all)

Defers(q) == l2Dirty /\ Head(commands[q]).pages \cap Managed # {}

(* processMemCopyD2HCommand.  There is one place for a deferred command.   *)
ProcessMemCopyD2H(q) ==
  /\ IsNext(q, "D2H")
  /\ toGPU' = toGPU \o FlushFirst(q)
  /\ IF Defers(q)
     THEN /\ pendingD2H' = q /\ flushed' = FALSE
          /\ Await(q, {FlushOf(q)})
          /\ UNCHANGED <<awaiting, cyclesLeft>>
     ELSE /\ ReadD2H(q, Elements(FlushFirst(q)))
          /\ UNCHANGED <<pendingD2H, flushed>>
  /\ UNCHANGED <<l2Dirty, gpu, returned, uvm>>

-----------------------------------------------------------------------------
(* Tick of the copy middleware.                                            *)

(* hasPendingWorkInRange. *)
HasPendingWork(pages) ==
  \/ \E p \in pages \cap Managed : location[p] \in {"ToGPU", "ToHost"}
  \/ \E p \in Managed : location[p] = "Flushing"

ProcessDeferredD2H ==
  /\ pendingD2H # None /\ flushed
  /\ ~HasPendingWork(Head(commands[pendingD2H]).pages)
  /\ ReadD2H(pendingD2H, reqs[pendingD2H])
  /\ pendingD2H' = None /\ flushed' = FALSE
  /\ UNCHANGED <<l2Dirty, toGPU, gpu, returned, uvm>>

CountDownOn ==   \* mutant: does not stop at the end
  /\ cyclesLeft' = cyclesLeft - 1
  /\ IF cyclesLeft <= 0
     THEN toGPU' = toGPU \o awaiting /\ awaiting' = <<>>
     ELSE UNCHANGED <<toGPU, awaiting>>
  /\ UNCHANGED <<queues, l2Dirty, pendingD2H, flushed, gpu, returned, uvm>>
CountDown ==
  /\ cyclesLeft >= 0
  /\ cyclesLeft' = cyclesLeft - 1
  /\ IF cyclesLeft = 0
     THEN toGPU' = toGPU \o awaiting /\ awaiting' = <<>>
     ELSE UNCHANGED <<toGPU, awaiting>>
  /\ UNCHANGED <<queues, l2Dirty, pendingD2H, flushed, gpu, returned, uvm>>

(* A response to a command of the program. *)
Answers(kinds) ==
  /\ returned # <<>> /\ Head(returned).queue # None /\ Head(returned).kind \in kinds
  /\ returned' = Tail(returned)

(* processMemCopyH2DReturn, processMemCopyD2HReturn. *)
ProcessMemCopyReturn ==
  /\ Answers({"H2D", "D2H"})
  /\ LET q == Head(returned).queue
     IN  Settle(q, reqs[q] \ {Head(returned)})
  /\ UNCHANGED <<l2Dirty, copier, toGPU, gpu, uvm>>

(* processFlushReturn, settleFlushedCommand. *)
SettleFlushed(q, left) ==
  IF left = {} /\ pendingD2H = q
  THEN Await(q, {}) /\ flushed' = TRUE
  ELSE Settle(q, left) /\ UNCHANGED flushed

ProcessFlushReturn ==
  /\ Answers({"Flush"})
  /\ LET q == Head(returned).queue
     IN  SettleFlushed(q, reqs[q] \ {Head(returned)})
  /\ UNCHANGED <<l2Dirty, awaiting, cyclesLeft, pendingD2H, toGPU, gpu, uvm>>

(* processReturnReq: the middleware leaves these to the driver. *)
ProcessLaunchKernelReturn ==
  /\ Answers({"Launch"})
  /\ LET q == Head(returned).queue
     IN  Settle(q, reqs[q] \ {Head(returned)})
  /\ UNCHANGED <<l2Dirty, copier, toGPU, gpu, uvm>>

(* ClaimUVMDMAReturn, asked by the driver and again by the middleware, so  *)
(* that it does not matter which of them sees the response first.          *)
NotClaimed(p) == location   \* mutant: the response is consumed by the copies
Landed(p) ==
  [location EXCEPT ![p] = IF @ = "ToGPU" THEN "GPU" ELSE "Host"]

ClaimUVMDMAReturn ==
  /\ returned # <<>> /\ Head(returned).queue = None
  /\ returned' = Tail(returned)
  /\ location' = Landed(Head(returned).page)
  /\ UNCHANGED <<queues, l2Dirty, copier, toGPU, gpu, moves>>

-----------------------------------------------------------------------------
(* The UVM manager.                                                        *)

Admit(p) ==
  /\ location[p] = "Host" /\ moves > 0
  /\ location' = [location EXCEPT ![p] = "ToGPU"] /\ moves' = moves - 1
  /\ toGPU' = Append(toGPU, Copy("H2D", None, p))
  /\ UNCHANGED <<queues, l2Dirty, copier, gpu, returned>>

(* beginEviction, up to the answer of the range flush. *)
BeginEviction(p) ==
  /\ location[p] = "GPU" /\ moves > 0
  /\ location' = [location EXCEPT ![p] = "Flushing"] /\ moves' = moves - 1
  /\ UNCHANGED <<queues, l2Dirty, copier, toGPU, gpu, returned>>

EvictionStartD2H(p) ==
  /\ location[p] = "Flushing"
  /\ location' = [location EXCEPT ![p] = "ToHost"]
  /\ dirty' = dirty \ {p}
  /\ toGPU' = Append(toGPU, Copy("D2H", None, p))
  /\ UNCHANGED <<queues, l2Dirty, copier, flushing, kernels, toDMA, processing, returned, moves>>

-----------------------------------------------------------------------------
(* The command processor: Handle takes one request at a time.              *)

Handles(kinds) ==
  toGPU # <<>> /\ Head(toGPU).kind \in kinds /\ toGPU' = Tail(toGPU)

ProcessLaunchKernelReq ==
  /\ Handles({"Launch"}) /\ Cardinality(kernels) < Dispatchers
  /\ kernels' = kernels \cup {Head(toGPU)}
  /\ UNCHANGED <<queues, l2Dirty, copier, flushing, toDMA, processing, returned, dirty, uvm>>

ProcessFlushReq ==
  /\ Handles({"Flush"}) /\ flushing = None
  /\ flushing' = Head(toGPU)
  /\ UNCHANGED <<queues, l2Dirty, copier, kernels, toDMA, processing, returned, dirty, uvm>>

(* processMemCopyReq: not while the caches are flushed. *)
CachesQuietAlways == TRUE   \* mutant: copies overtake the flush
CachesQuiet == flushing = None

ProcessMemCopyReq ==
  /\ Handles({"H2D", "D2H"}) /\ CachesQuiet
  /\ toDMA' = Append(toDMA, Head(toGPU))
  /\ UNCHANGED <<queues, l2Dirty, copier, flushing, kernels, processing, returned, dirty, uvm>>

(* processRegularCacheFlush, on the last acknowledgement of the caches. *)
ProcessRegularCacheFlush ==
  /\ flushing # None
  /\ dirty' = {}
  /\ flushing' = None /\ returned' = Append(returned, flushing)
  /\ UNCHANGED <<queues, l2Dirty, copier, toGPU, kernels, toDMA, processing, uvm>>

(* A kernel writes a page that it reaches on the GPU; completeKernel. *)
KernelWrites(r, p) ==
  /\ r \in kernels /\ p \in OnGPU(Head(commands[r.queue]).pages)
  /\ dirty' = dirty \cup {p}
  /\ UNCHANGED <<queues, l2Dirty, copier, toGPU, flushing, kernels, toDMA, processing, returned, uvm>>

CompleteKernel(r) ==
  /\ r \in kernels
  /\ kernels' = kernels \ {r} /\ returned' = Append(returned, r)
  /\ UNCHANGED <<queues, l2Dirty, copier, toGPU, flushing, toDMA, processing, dirty, uvm>>

(* parseFromCP. *)
ParseFromCP ==
  /\ toDMA # <<>> /\ Cardinality(processing) < MaxCopies
  /\ processing' = processing \cup {Head(toDMA)} /\ toDMA' = Tail(toDMA)
  /\ UNCHANGED <<queues, l2Dirty, copier, toGPU, flushing, kernels, returned, dirty, uvm>>

(* The last processDoneRsp or processDataReadyRsp of a copy, and           *)
(* processMemCopyRsp of the command processor.                             *)
FinishCopy(r) ==
  /\ r \in processing
  /\ processing' = processing \ {r} /\ returned' = Append(returned, r)
  /\ UNCHANGED <<queues, l2Dirty, copier, toGPU, flushing, kernels, toDMA, dirty, uvm>>

-----------------------------------------------------------------------------
Driver ==
  \/ \E q \in Queues :
       ProcessLaunchKernel(q) \/ ProcessMemCopyH2D(q) \/ ProcessMemCopyD2H(q)
  \/ ProcessDeferredD2H \/ CountDown
  \/ ProcessMemCopyReturn \/ ProcessFlushReturn \/ ProcessLaunchKernelReturn
  \/ ClaimUVMDMAReturn

UVM == \E p \in Managed : Admit(p) \/ BeginEviction(p) \/ EvictionStartD2H(p)

GPU ==
  \/ ProcessLaunchKernelReq \/ ProcessFlushReq \/ ProcessMemCopyReq
  \/ ProcessRegularCacheFlush \/ ParseFromCP
  \/ \E r \in kernels : CompleteKernel(r) \/ \E p \in Pages : KernelWrites(r, p)
  \/ \E r \in processing : FinishCopy(r)

Next == Driver \/ UVM \/ GPU

Spec == Init /\ [][Next]_vars

(* Driver, command processor and DMA engine tick while there is something  *)
(* to do; kernels end and evictions go on.  No migration need begin.       *)
Fairness ==
  /\ \A q \in Queues : WF_vars(ProcessLaunchKernel(q) \/ ProcessMemCopyH2D(q) \/ ProcessMemCopyD2H(q))
  /\ WF_vars(ProcessDeferredD2H) /\ WF_vars(CountDown)
  /\ WF_vars(ProcessMemCopyReturn \/ ProcessFlushReturn \/ ProcessLaunchKernelReturn \/ ClaimUVMDMAReturn)
  /\ \A p \in Managed : WF_vars(EvictionStartD2H(p))
  /\ WF_vars(ProcessLaunchKernelReq \/ ProcessFlushReq \/ ProcessMemCopyReq)
  /\ WF_vars(ProcessRegularCacheFlush) /\ WF_vars(ParseFromCP)
  /\ \A r \in Launches : WF_vars(CompleteKernel(r))
  /\ \A r \in Copies : WF_vars(FinishCopy(r))

FairSpec == Spec /\ Fairness

-----------------------------------------------------------------------------
(* Properties.                                                             *)

(* What is owed a response: the requests of the commands at the head of    *)
(* their queues, and the copies of the pages in transit.                   *)
Owed ==
  (UNION {reqs[q] : q \in Queues})
    \cup {Copy("H2D", None, p) : p \in {x \in Managed : location[x] = "ToGPU"}}
    \cup {Copy("D2H", None, p) : p \in {x \in Managed : location[x] = "ToHost"}}

Places(r) ==
  Times(awaiting, r) + Times(toGPU, r) + Times(toDMA, r) + Times(returned, r)
    + (IF r \in kernels \cup processing \cup {flushing} THEN 1 ELSE 0)

(* Every request that somebody waits for is on its way or its response is, *)
(* once, and nothing else is: no response meets findCommandByReq without   *)
(* its command at the head of a queue (driver.go:608 panics), and none of  *)
(* a migration is taken for one of the program's (uvm_driver.go:157).      *)
OwedOnce ==
  \A r \in Requests : Places(r) = IF r \in Owed THEN 1 ELSE 0

(* While the DMA engine copies a page, for the program or for a migration, *)
(* the caches hold nothing newer of it: the flush of a copy comes before   *)
(* it, though the copy waits for other commands' copies in between         *)
(* (memorycopy.go:283, cpMiddleware.go:167).                               *)
CopiesSeeMemory == \A r \in processing : r.page \notin dirty

(* Every command completes: a copy with nothing to send, one whose only    *)
(* request is a flush (memorycopy.go:434) and a deferred one included.     *)
CommandsEnd == \A q \in Queues : (commands[q] # <<>>) ~> (commands[q] = <<>>)
=============================================================================
