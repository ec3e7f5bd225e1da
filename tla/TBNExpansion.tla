---------------------------- MODULE TBNExpansion ----------------------------
(***************************************************************************)
(* The loop of expandNeighborhood (uvm_tbn.go), one iteration per step, on *)
(* the page numbers the code iterates over.  Its result is compared with   *)
(* the closed form FetchLevel, which the UVM manager's model uses.         *)
(***************************************************************************)
EXTENDS TBN

VARIABLES
  resident,  \* the pages resident when the service starts
  region,    \* the faulting region
  base,      \* the first page of the node selected so far
  size,      \* its length in pages
  climbing   \* the loop has not broken off yet

vars == <<resident, region, base, size, climbing>>

RegionSize  == PagesPerRegion
VABlockSize == RegionsPerBlock * RegionSize
MaxFetch    == RegionSize * Width[MaxFetchLevel]

AlignDown(x, n) == (x \div n) * n

BlockBase == AlignDown(region * RegionSize, VABlockSize)

Span(first, n) == {p \in Pages : first <= p /\ p < first + n}

(* nodeOccupancy: the managed pages of the node, and those of them that    *)
(* count as occupied.                                                      *)
Total(first, n)       == Cardinality(Span(first, n))
OccupiedIn(first, n)  ==
  Cardinality(Span(first, n) \cap (resident \cup Span(region * RegionSize, RegionSize)))

Init ==
  /\ resident \in SUBSET Pages
  /\ region \in Regions
  /\ base = region * RegionSize
  /\ size = RegionSize
  /\ climbing = ~PrefetchDisabled

Node == AlignDown(base, size * 2)

(* The node one level up is entered. *)
EnterSparse ==   \* mutant: half of the pages is enough
  OccupiedIn(Node, size * 2) * 100 >= Total(Node, size * 2) * 50
Enter ==
  /\ size < MaxFetch
  /\ Node >= BlockBase /\ Node + size * 2 <= BlockBase + VABlockSize
  /\ OccupiedIn(Node, size * 2) * 100 > Total(Node, size * 2) * 51

Climb ==
  /\ climbing /\ Enter
  /\ base' = Node /\ size' = size * 2
  /\ UNCHANGED <<resident, region, climbing>>

Stop ==
  /\ climbing /\ ~Enter
  /\ climbing' = FALSE
  /\ UNCHANGED <<resident, region, base, size>>

Next == Climb \/ Stop

Spec == Init /\ [][Next]_vars

-----------------------------------------------------------------------------
(* When the loop ends, the node it selected is the ancestor the closed     *)
(* form names: expandNeighborhood never stops early and never skips a      *)
(* level it should have refused.                                           *)
ResultIsFetchLevel ==
  ~climbing =>
    LET k == FetchLevel(resident, region)
    IN  size = RegionSize * Width[k] /\ Span(base, size) = NodePages(region, k)

(* A node that was selected is mostly occupied, so at most 49 of 100 pages *)
(* of an expanded fetch are speculative; and it stays in its VA block.     *)
SelectionIsDense ==
  /\ size > RegionSize =>
       Cardinality(Span(base, size) \ (resident \cup PagesOf(region))) * 100
         < Cardinality(Span(base, size)) * 49
  /\ \A p \in Span(base, size) : p \div VABlockSize = (region * RegionSize) \div VABlockSize

(* More residency never shrinks the fetch: what one page more on the GPU   *)
(* does to the tree is only to let the search climb as high or higher.     *)
MoreResidentFetchesMore ==
  ~climbing =>
    \A p \in Pages :
      FetchLevel(resident, region) <= FetchLevel(resident \cup {p}, region)
=============================================================================
