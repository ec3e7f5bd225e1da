-------------------------------- MODULE GMMU --------------------------------
(***************************************************************************)
(* The MMU of a GPU (src/akita/mem/vm/gmmu) under UVM.                     *)
(*                                                                         *)
(* It walks the page table for the misses of the last TLB.  The walk of a  *)
(* managed page that must not be used becomes a page fault: it leaves the  *)
(* walker, waits in the replay queue, and is run again when the driver     *)
(* replays its region.  The GMMU also spreads the range invalidations of   *)
(* the driver over all TLBs.                                               *)
(*                                                                         *)
(* The component is one record; the latency of a walk and the page walk    *)
(* cache are left out, the page table being read when the walk is over.    *)
(***************************************************************************)
EXTENDS TLB

CONSTANTS
  Regions,   \* the 64KB regions of the driver
  RegionOf,  \* the region of a page
  TLBNames,  \* the TLBs an invalidation goes to
  MaxWalks   \* maxRequestsInFlight

ASSUME GMMUAssumption ==
  /\ RegionOf \in [Pages -> Regions] /\ None \notin Regions
  /\ IsFiniteSet(TLBNames) /\ MaxWalks \in Nat \ {0}

PagesIn(r) == {p \in Pages : RegionOf[p] = r}

(* An entry of the page table, by what a walk may do with it. *)
PTEs == {"Invalid", "Remote", "Migrating", "Local"}

UVMCommands ==
  [kind : {"Invalidate", "Flush"}, region : Regions]
    \cup [kind : {"Replay"}, region : Regions, refused : BOOLEAN]
UVMMessages ==
  [kind : {"Fault"}, page : Pages] \cup [kind : {"Invalidated"}, region : Regions]

(* A translation; refaulted says that refaultedBy is the replay that is    *)
(* now at the head of the port.                                            *)
Walks == [page : Pages, refaulted : BOOLEAN]

(* type Comp.  toInvalidate are the TLBs that pendingTLBInvalidateACK      *)
(* counts: those that have not yet answered pendingTLBInvalidate.          *)
GMMUs ==
  [topIn : Seq(Pages),
   walking : SUBSET Walks,
   replayQueue : Seq(Walks),
   uvmIn  : Seq(UVMCommands),
   uvmOut : Seq(UVMMessages),
   invalidating : Regions \cup {None},
   toInvalidate : SUBSET TLBNames]

InitialGMMU ==
  [topIn |-> <<>>, walking |-> {}, replayQueue |-> <<>>, uvmIn |-> <<>>,
   uvmOut |-> <<>>, invalidating |-> None, toInvalidate |-> {}]

(* needsUVMFault. *)
NeedsFault(pte) == pte \in {"Migrating", "Invalid"}

(* What an answer says when it is given without that check: a page that is *)
(* neither local nor remote is still mapped to the frame of the host.      *)
MappingAsIs(pte) == pte   \* mutant: there is no such mapping
MappingOf(pte) == IF NeedsFault(pte) THEN "Host" ELSE pte

RemoveAt(s, i) == SubSeq(s, 1, i - 1) \o SubSeq(s, i + 1, Len(s))

-----------------------------------------------------------------------------
(* Walks.                                                                  *)

CanWalk(g) == g.topIn # <<>> /\ Cardinality(g.walking) < MaxWalks

(* parseFromTop. *)
StartWalk(g) ==
  [g EXCEPT !.walking = @ \cup {[page |-> Head(g.topIn), refaulted |-> FALSE]},
            !.topIn = Tail(@)]

(* sendUVMFault. *)
SendUVMFault(g, walk) ==
  [g EXCEPT !.walking = @ \ {walk},
            !.replayQueue = Append(@, walk),
            !.uvmOut = Append(@, [kind |-> "Fault", page |-> walk.page])]

EndWalk(g, walk) == [g EXCEPT !.walking = @ \ {walk}]

-----------------------------------------------------------------------------
(* Replays.                                                                *)

Replaying(g) == g.uvmIn # <<>> /\ Head(g.uvmIn).kind = "Replay"

(* The first stalled translation that the replay at the head names and has *)
(* not released before; 0 if there is none.                                *)
FirstNamed(g) ==
  LET named == {i \in 1..Len(g.replayQueue) :
                  /\ RegionOf[g.replayQueue[i].page] = Head(g.uvmIn).region
                  /\ ~g.replayQueue[i].refaulted}
  IN  IF named = {} THEN 0 ELSE CHOOSE i \in named : \A j \in named : i <= j

UnparkNothing(g, i) == g   \* mutant: answered, and still in the queue
Unpark(g, i) == [g EXCEPT !.replayQueue = RemoveAt(@, i)]

(* resumeTranslation of a translation that still must not be used: it      *)
(* faults once more, from the walker if the port cannot take the fault now.*)
RefaultSilently(g, i) ==   \* mutant: no new fault for the driver
  [g EXCEPT !.replayQueue[i].refaulted = TRUE]
Refault(g, i) ==
  LET walk == [g.replayQueue[i] EXCEPT !.refaulted = TRUE]
      g1   == [Unpark(g, i) EXCEPT !.walking = @ \cup {walk}]
  IN  IF Full(g.uvmOut) THEN g1 ELSE SendUVMFault(g1, walk)

(* The replay has released all it names.  Replays have fresh identifiers,  *)
(* so no later one is the one a translation refaulted by.                  *)
ConsumeReplay(g) ==
  LET forget(walk) == [walk EXCEPT !.refaulted = FALSE]
  IN  [g EXCEPT !.uvmIn = Tail(@),
                !.walking = {forget(walk) : walk \in @},
                !.replayQueue = [i \in 1..Len(@) |-> forget(@[i])]]

-----------------------------------------------------------------------------
(* Range invalidations (uvmctrl.go), one at a time.                        *)

CanStartInvalidate(g) ==
  /\ g.uvmIn # <<>> /\ Head(g.uvmIn).kind = "Invalidate"
  /\ g.invalidating = None

StartTLBInvalidate(g) ==
  [g EXCEPT !.invalidating = Head(g.uvmIn).region,
            !.toInvalidate = TLBNames,
            !.uvmIn = Tail(@)]

(* collectTLBInvalidateAcks. *)
CollectAck(g, name) == [g EXCEPT !.toInvalidate = @ \ {name}]

CanCompleteInvalidate(g) ==
  g.invalidating # None /\ g.toInvalidate = {} /\ ~Full(g.uvmOut)

CompleteTLBInvalidate(g) ==
  [g EXCEPT !.invalidating = None,
            !.uvmOut = Append(@, [kind |-> "Invalidated", region |-> g.invalidating])]
=============================================================================
