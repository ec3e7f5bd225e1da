-------------------------------- MODULE TBN --------------------------------
(***************************************************************************)
(* The tree-based neighbourhood prefetcher of the UVM driver               *)
(* (uvm_tbn.go).  A 4KB page is a natural number, its 64KB fault-service   *)
(* region is that number divided by PagesPerRegion, and the nodes of the   *)
(* tree above a region r are the aligned groups of 1, 2, 4, ... regions    *)
(* that hold r.  The search climbs while the node fits its 2MB VA block    *)
(* and more than 51% of its managed pages are occupied; what it selects is *)
(* every page of the last node that is neither resident nor in flight.     *)
(***************************************************************************)
EXTENDS Integers, FiniteSets, FiniteSetsExt

CONSTANTS
  Pages,            \* the managed 4KB pages (finite, not necessarily dense)
  PagesPerRegion,   \* RegionSize \div PageSize: 16 in the default configuration
  RegionsPerBlock,  \* VABlockSize \div RegionSize: 32 in the default configuration
  MaxFetchLevel,    \* TBNMaxFetchSize = RegionSize * 2^MaxFetchLevel
  PrefetchDisabled  \* restricts every service to its own region

ASSUME TBNAssumption ==
  /\ Pages \subseteq Nat /\ IsFiniteSet(Pages)
  /\ PagesPerRegion \in Nat \ {0} /\ RegionsPerBlock \in Nat \ {0}
  /\ MaxFetchLevel \in Nat /\ PrefetchDisabled \in BOOLEAN

RegionOf(p) == p \div PagesPerRegion
Regions     == {RegionOf(p) : p \in Pages}
PagesOf(r)  == {p \in Pages : RegionOf(p) = r}

(* The regions below a node of level k: the size doubles with each level. *)
Width[k \in 0..MaxFetchLevel] == IF k = 0 THEN 1 ELSE 2 * Width[k - 1]

(* The managed pages below the level-k ancestor of region r. *)
NodePages(r, k) == {p \in Pages : RegionOf(p) \div Width[k] = r \div Width[k]}

(* The level-k ancestor of r does not cross the VA block of r. *)
NodeFits(r, k) ==
  LET first == (r \div Width[k]) * Width[k]
      block == (r \div RegionsPerBlock) * RegionsPerBlock
  IN  first >= block /\ first + Width[k] <= block + RegionsPerBlock

(* The pages of a node that count as occupied: the faulting leaf, expanded *)
(* to its whole region, and every page already resident on the GPU.        *)
Occupied(resident, r, k) ==
  {p \in NodePages(r, k) : RegionOf(p) = r \/ p \in resident}

Dense(resident, r, k) ==
  Cardinality(Occupied(resident, r, k)) * 100 > Cardinality(NodePages(r, k)) * 51

FetchLevelUnlessFull(resident, r) ==   \* mutant: a full node is not climbed over
  IF PrefetchDisabled
  THEN 0
  ELSE Max({k \in 0..MaxFetchLevel :
              \A j \in 1..k : NodeFits(r, j) /\ Dense(resident, r, j)
                              /\ ~(NodePages(r, j) \subseteq resident)})

(* expandNeighborhood: the highest level reached without a refusal. *)
FetchLevel(resident, r) ==
  IF PrefetchDisabled
  THEN 0
  ELSE Max({k \in 0..MaxFetchLevel :
              \A j \in 1..k : NodeFits(r, j) /\ Dense(resident, r, j)})

(* buildSelection: resident pages and pages in flight are suppressed. *)
Selection(resident, inFlight, r) ==
  NodePages(r, FetchLevel(resident, r)) \ (resident \cup inFlight)
=============================================================================
