------------------------- MODULE TBNExpansionProofs -------------------------
(***************************************************************************)
(* The climb of the tree-based prefetcher, for every set of pages, size of *)
(* regions and blocks, height of the tree and residency: the loop ends at  *)
(* the node that the closed form names, what it selects is dense and in    *)
(* its block, and more residency never makes it select less.               *)
(***************************************************************************)
EXTENDS TBNExpansion, OrderedListsProofs

-----------------------------------------------------------------------------
(* Division, and the widths of the levels.                                 *)

LEMMA AtMostQuotient ==
  ASSUME NEW x \in Nat, NEW n \in Nat \ {0}, NEW a \in Nat
  PROVE  /\ x \div n \in Nat
         /\ a <= x \div n <=> a * n <= x
<1>1. x \div n \in Nat /\ (x \div n) * n <= x /\ x < (x \div n) * n + n
  OBVIOUS
<1>. DEFINE d == x \div n
<1>. HIDE DEF d
<1>2. d \in Nat /\ d * n <= x /\ x < d * n + n
  BY <1>1 DEF d
<1>3. ASSUME a <= d PROVE a * n <= x
  <2>1. a * n <= d * n
    BY <1>2, <1>3
  <2>. QED BY <2>1, <1>2
<1>4. ASSUME ~(a <= d) PROVE ~(a * n <= x)
  <2>1. d + 1 <= a
    BY <1>2, <1>4
  <2>2. (d + 1) * n <= a * n
    BY <2>1, <1>2
  <2>3. (d + 1) * n = d * n + n
    BY <1>2
  <2>. QED BY <2>2, <2>3, <1>2
<1>. QED BY <1>2, <1>3, <1>4 DEF d

LEMMA Quotient ==
  ASSUME NEW x \in Nat, NEW n \in Nat \ {0}, NEW q \in Nat
  PROVE  x \div n = q <=> q * n <= x /\ x < q * n + n
<1>. DEFINE d == x \div n
<1>1. /\ d \in Nat
      /\ q <= d <=> q * n <= x
      /\ q + 1 <= d <=> (q + 1) * n <= x
  BY AtMostQuotient
<1>2. (q + 1) * n = q * n + n /\ q * n \in Nat
  OBVIOUS
<1>. HIDE DEF d
<1>3. d = q <=> q <= d /\ ~(q + 1 <= d)
  BY <1>1
<1>4. d = q <=> q * n <= x /\ ~((q + 1) * n <= x)
  BY <1>1, <1>3
<1>5. ~((q + 1) * n <= x) <=> x < q * n + n
  BY <1>2
<1>. QED BY <1>4, <1>5 DEF d

Levels == 0..MaxFetchLevel

LEMMA Widths ==
  /\ Width[0] = 1
  /\ \A k \in Levels : Width[k] \in Nat \ {0}
  /\ \A k \in Levels : k + 1 \in Levels => Width[k + 1] = 2 * Width[k]
  /\ \A j, k \in Levels : j < k <=> Width[j] < Width[k]
<1>1. PICK f : Doubles(f, MaxFetchLevel)
  BY DoublingExists, TBNAssumption
<1>2. Doubles(Width, MaxFetchLevel)
  BY <1>1 DEF Doubles, Width
<1>3. /\ Width[0] = 1 /\ \A k \in 1..MaxFetchLevel : Width[k] = 2 * Width[k - 1]
      /\ \A k \in Levels : Width[k] \in Nat \ {0}
      /\ \A j, k \in Levels : j < k <=> Width[j] < Width[k]
  BY <1>2, DoublingGrows, TBNAssumption DEF Levels
<1>4. ASSUME NEW k \in Levels, k + 1 \in Levels PROVE Width[k + 1] = 2 * Width[k]
  <2>1. PICK j \in 1..MaxFetchLevel : j = k + 1 /\ j - 1 = k
    BY <1>4, TBNAssumption DEF Levels
  <2>2. Width[j] = 2 * Width[j - 1]
    BY <1>3
  <2>. QED BY <2>1, <2>2
<1>. QED BY <1>3, <1>4

LEMMA Sizes ==
  /\ Pages \subseteq Nat /\ IsFiniteSet(Pages)
  /\ RegionSize \in Nat \ {0} /\ RegionsPerBlock \in Nat \ {0} /\ MaxFetchLevel \in Nat
  /\ VABlockSize = RegionsPerBlock * RegionSize /\ VABlockSize \in Nat \ {0}
  /\ Regions \subseteq Nat
  /\ \A p \in Pages : RegionOf(p) = p \div RegionSize /\ RegionOf(p) \in Regions
<1>1. /\ Pages \subseteq Nat /\ IsFiniteSet(Pages)
      /\ RegionSize \in Nat \ {0} /\ RegionsPerBlock \in Nat \ {0} /\ MaxFetchLevel \in Nat
  BY TBNAssumption DEF RegionSize
<1>2. VABlockSize = RegionsPerBlock * RegionSize /\ VABlockSize \in Nat \ {0}
  BY <1>1 DEF VABlockSize
<1>3. \A p \in Pages : RegionOf(p) = p \div RegionSize /\ RegionOf(p) \in Regions
  BY DEF RegionOf, Regions, RegionSize
<1>4. \A p \in Pages : p \div RegionSize \in Nat
  BY <1>1
<1>5. Regions \subseteq Nat
  BY <1>3, <1>4 DEF Regions
<1>. QED BY <1>1, <1>2, <1>3, <1>5

-----------------------------------------------------------------------------
(* The node of level k above region r, in pages.                           *)

First(r, k) == (r \div Width[k]) * Width[k]
Begin(r, k) == First(r, k) * RegionSize
Long(k)     == RegionSize * Width[k]

LEMMA NodeType ==
  ASSUME NEW r \in Regions, NEW k \in Levels
  PROVE  /\ Width[k] \in Nat \ {0} /\ r \in Nat /\ r \div Width[k] \in Nat
         /\ First(r, k) \in Nat /\ Begin(r, k) \in Nat /\ Long(k) \in Nat \ {0}
<1>1. Width[k] \in Nat \ {0} /\ r \in Nat /\ RegionSize \in Nat \ {0}
  BY Widths, Sizes
<1>2. r \div Width[k] \in Nat
  BY <1>1, AtMostQuotient
<1>3. First(r, k) \in Nat
  BY <1>1, <1>2 DEF First
<1>. QED BY <1>1, <1>2, <1>3 DEF Begin, Long

(* The pages of a node are those of its regions. *)
LEMMA NodeSpan ==
  ASSUME NEW r \in Regions, NEW k \in Levels
  PROVE  Span(Begin(r, k), Long(k)) = NodePages(r, k)
<1>. DEFINE w == Width[k]
            q == r \div w
<1>1. w \in Nat \ {0} /\ q \in Nat /\ First(r, k) = q * w /\ First(r, k) \in Nat
  BY NodeType DEF First
<1>. HIDE DEF w, q
<1>2. ASSUME NEW p \in Pages
      PROVE  p \in Span(Begin(r, k), Long(k)) <=> RegionOf(p) \div w = q
  <2>. DEFINE s == RegionOf(p)
              a == First(r, k)
  <2>1. p \in Nat /\ s \in Nat /\ s = p \div RegionSize /\ RegionSize \in Nat \ {0}
    BY Sizes
  <2>. HIDE DEF s, a
  <2>2. s \div w = q <=> q * w <= s /\ s < q * w + w
    BY <1>1, <2>1, Quotient
  <2>3. a \in Nat /\ a = q * w /\ a + w \in Nat
    BY <1>1 DEF a
  <2>4. a <= s <=> a * RegionSize <= p
    BY <2>1, <2>3, AtMostQuotient
  <2>5. a + w <= s <=> (a + w) * RegionSize <= p
    BY <2>1, <2>3, AtMostQuotient
  <2>6. (a + w) * RegionSize = a * RegionSize + RegionSize * w /\ a * RegionSize \in Nat
        /\ RegionSize * w \in Nat
    BY <1>1, <2>1, <2>3
  <2>7. s < a + w <=> p < a * RegionSize + RegionSize * w
    BY <2>1, <2>3, <2>5, <2>6, <1>1
  <2>8. p \in Span(Begin(r, k), Long(k))
          <=> a * RegionSize <= p /\ p < a * RegionSize + RegionSize * w
    BY DEF Span, Begin, Long, a, w
  <2>9. s \div w = q <=> a <= s /\ s < a + w
    BY <2>2, <2>3
  <2>. QED BY <2>4, <2>7, <2>8, <2>9 DEF s
<1>3. Span(Begin(r, k), Long(k)) \subseteq Pages
  BY DEF Span
<1>. QED BY <1>2, <1>3 DEF NodePages, w, q

LEMMA RegionSpan ==
  ASSUME NEW r \in Regions
  PROVE  /\ Begin(r, 0) = r * RegionSize /\ Long(0) = RegionSize
         /\ Span(r * RegionSize, RegionSize) = PagesOf(r)
         /\ NodePages(r, 0) = PagesOf(r)
<1>1. 0 \in Levels /\ Width[0] = 1 /\ r \in Nat /\ RegionSize \in Nat \ {0}
  BY Widths, Sizes DEF Levels
<1>2. First(r, 0) = r
  BY <1>1 DEF First
<1>3. Begin(r, 0) = r * RegionSize /\ Long(0) = RegionSize
  BY <1>1, <1>2 DEF Begin, Long
<1>4. \A p \in Pages : RegionOf(p) \in Nat
  BY Sizes
<1>5. NodePages(r, 0) = PagesOf(r)
  BY <1>1, <1>4 DEF NodePages, PagesOf
<1>. QED BY <1>1, <1>3, <1>5, NodeSpan

(* One level up the loop arrives at the node of that level. *)
LEMMA NextNode ==
  ASSUME NEW r \in Regions, NEW k \in Levels, k + 1 \in Levels
  PROVE  AlignDown(Begin(r, k), Long(k) * 2) = Begin(r, k + 1) /\ Long(k) * 2 = Long(k + 1)
<1>. DEFINE w == Width[k]
            q == r \div w
            d == r \div (2 * w)
            n == Long(k) * 2
<1>1. w \in Nat \ {0} /\ r \in Nat /\ RegionSize \in Nat \ {0} /\ 2 * w \in Nat \ {0}
  BY Widths, Sizes
<1>2. Width[k + 1] = 2 * w
  BY Widths
<1>3. q \in Nat /\ d \in Nat
  BY <1>1, AtMostQuotient
<1>4. q * w <= r /\ r < q * w + w /\ d * (2 * w) <= r /\ r < d * (2 * w) + 2 * w
  BY <1>1, <1>3, Quotient
<1>5. n = Long(k + 1) /\ n = RegionSize * (2 * w) /\ n \in Nat \ {0}
  BY <1>1, <1>2 DEF Long
<1>6. Begin(r, k) = (q * w) * RegionSize /\ Begin(r, k + 1) = (d * (2 * w)) * RegionSize
      /\ Begin(r, k) \in Nat
  BY <1>1, <1>2, <1>3 DEF Begin, First
<1>. HIDE DEF w, q, d, n
<1>7. 2 * d <= q /\ q + 1 <= 2 * d + 2
  <2>1. (2 * d) * w <= r /\ d * (2 * w) = (2 * d) * w
    BY <1>1, <1>3, <1>4
  <2>2. 2 * d <= r \div w /\ r \div w = q
    BY <2>1, <1>1, <1>3, AtMostQuotient, SMTT(30) DEF q
  <2>3. ASSUME 2 * d + 2 <= q PROVE FALSE
    <3>1. 2 * d + 2 <= r \div w
      BY <2>3, <2>2
    <3>2. (2 * d + 2) * w <= r
      BY <3>1, <1>1, <1>3, AtMostQuotient
    <3>3. (2 * d + 2) * w = (2 * d) * w + 2 * w
      BY <1>1, <1>3
    <3>. QED BY <3>2, <3>3, <2>1, <1>1, <1>3, <1>4
  <2>. QED BY <2>2, <2>3, <1>3
<1>. DEFINE u == w * RegionSize
<1>8. u \in Nat \ {0} /\ (q * w) * RegionSize = q * u /\ n = 2 * u
      /\ (d * (2 * w)) * RegionSize = (2 * d) * u /\ d * n = (2 * d) * u
  BY <1>1, <1>3, <1>5
<1>. HIDE DEF u
<1>9. (2 * d) * u <= q * u /\ (q + 1) * u <= (2 * d + 2) * u
  BY <1>3, <1>7, <1>8
<1>10. q * u + u <= (2 * d) * u + 2 * u
  BY <1>9, <1>8, <1>3
<1>11. d * n <= q * u /\ q * u < d * n + n /\ q * u \in Nat
  BY <1>8, <1>9, <1>10, <1>3
<1>12. (q * u) \div n = d
  BY <1>11, <1>3, <1>5, Quotient
<1>13. AlignDown(Begin(r, k), n) = d * n
  BY <1>6, <1>8, <1>12 DEF AlignDown
<1>. QED BY <1>5, <1>6, <1>8, <1>13 DEF n

LEMMA BlockBegin ==
  ASSUME NEW r \in Regions
  PROVE  /\ (r * RegionSize) \div VABlockSize = r \div RegionsPerBlock
         /\ AlignDown(r * RegionSize, VABlockSize)
              = (r \div RegionsPerBlock) * RegionsPerBlock * RegionSize
<1>. DEFINE b == r \div RegionsPerBlock
            n == RegionsPerBlock
            x == RegionSize
<1>1. r \in Nat /\ n \in Nat \ {0} /\ x \in Nat \ {0} /\ VABlockSize = n * x
      /\ n * x \in Nat \ {0}
  BY Sizes
<1>2. b \in Nat /\ b * n <= r /\ r < b * n + n
  BY <1>1, AtMostQuotient, Quotient
<1>. HIDE DEF b, n, x
<1>3. (b * n) * x <= r * x
  BY <1>1, <1>2
<1>4. (r + 1) * x <= (b * n + n) * x
  BY <1>1, <1>2
<1>5. (r + 1) * x = r * x + x /\ (b * n + n) * x = b * (n * x) + n * x /\ (b * n) * x = b * (n * x)
  BY <1>1, <1>2
<1>6. b * (n * x) <= r * x /\ r * x < b * (n * x) + n * x /\ r * x \in Nat
  BY <1>1, <1>2, <1>3, <1>4, <1>5
<1>7. (r * x) \div (n * x) = b
  BY <1>1, <1>2, <1>6, Quotient
<1>8. AlignDown(r * x, n * x) = b * (n * x)
  BY <1>7 DEF AlignDown
<1>. QED BY <1>1, <1>5, <1>7, <1>8 DEF b, n, x

-----------------------------------------------------------------------------
(* The loop.                                                               *)

Rising(r, k) == NodeFits(r, k) /\ Dense(resident, r, k)

(* The loop is at level k, and entered every level below. *)
At(k) ==
  /\ base = Begin(region, k) /\ size = Long(k)
  /\ \A j \in 1..k : Rising(region, j)

(* Nothing lets it enter the next. *)
AtEnd(k) ==
  IF PrefetchDisabled THEN k = 0 ELSE k = MaxFetchLevel \/ ~Rising(region, k + 1)

IInv ==
  /\ resident \subseteq Pages /\ region \in Regions
  /\ climbing \in BOOLEAN /\ PrefetchDisabled => ~climbing
  /\ \E k \in Levels : At(k) /\ (~climbing => AtEnd(k))

LEMMA OccupiedPages ==
  ASSUME NEW k \in Levels, region \in Regions
  PROVE  Span(Begin(region, k), Long(k)) \cap (resident \cup PagesOf(region))
           = Occupied(resident, region, k)
BY NodeSpan DEF Occupied, PagesOf, NodePages

(* What the loop asks of the node above is what the closed form asks. *)
LEMMA EnterRising ==
  ASSUME NEW k \in Levels, region \in Regions, At(k)
  PROVE  /\ Enter <=> k < MaxFetchLevel /\ Rising(region, k + 1)
         /\ k < MaxFetchLevel => /\ k + 1 \in Levels
                                 /\ Node = Begin(region, k + 1) /\ size * 2 = Long(k + 1)
<1>1. base = Begin(region, k) /\ size = Long(k)
  BY DEF At
<1>2. k \in Nat /\ MaxFetchLevel \in Levels /\ MaxFetchLevel \in Nat
  BY Sizes DEF Levels
<1>3. size < MaxFetch <=> k < MaxFetchLevel
  <2>. DEFINE v == Width[k]
              w == Width[MaxFetchLevel]
  <2>1. v \in Nat /\ w \in Nat /\ RegionSize \in Nat \ {0} /\ (k < MaxFetchLevel <=> v < w)
    BY <1>2, Widths, Sizes
  <2>2. size = RegionSize * v /\ MaxFetch = RegionSize * w
    BY <1>1 DEF Long, MaxFetch
  <2>. HIDE DEF v, w
  <2>3. ASSUME v < w PROVE RegionSize * v < RegionSize * w
    <3>1. RegionSize * (v + 1) <= RegionSize * w /\ RegionSize * (v + 1) = RegionSize * v + RegionSize
      BY <2>1, <2>3
    <3>. QED BY <3>1, <2>1
  <2>4. ASSUME ~(v < w) PROVE RegionSize * w <= RegionSize * v
    BY <2>1, <2>4
  <2>5. RegionSize * w \in Nat /\ RegionSize * v \in Nat
    BY <2>1
  <2>. QED BY <2>1, <2>2, <2>3, <2>4, <2>5
<1>4. CASE ~(k < MaxFetchLevel)
  BY <1>3, <1>4 DEF Enter
<1>5. CASE k < MaxFetchLevel
  <2>. DEFINE l == k + 1
  <2>1. l \in Levels
    BY <1>2, <1>5 DEF Levels
  <2>2. Node = Begin(region, l) /\ size * 2 = Long(l)
    BY <1>1, <2>1, NextNode DEF Node
  <2>. HIDE DEF l
  <2>3. Node >= BlockBase /\ Node + size * 2 <= BlockBase + VABlockSize <=> NodeFits(region, l)
    <3>. DEFINE a == First(region, l)
                w == Width[l]
                b == (region \div RegionsPerBlock) * RegionsPerBlock
                x == RegionSize
                n == RegionsPerBlock
    <3>1. a \in Nat /\ w \in Nat \ {0} /\ region \in Nat /\ x \in Nat \ {0} /\ n \in Nat \ {0}
      BY <2>1, NodeType, Sizes
    <3>2. b \in Nat
      <4>1. region \div n \in Nat
        BY <3>1, AtMostQuotient
      <4>. QED BY <4>1, <3>1
    <3>3. BlockBase = b * x /\ VABlockSize = n * x
      BY BlockBegin, Sizes DEF BlockBase
    <3>4. Node = a * x /\ size * 2 = x * w
      BY <2>2 DEF Begin, Long
    <3>5. NodeFits(region, l) <=> a >= b /\ a + w <= b + n
      BY DEF NodeFits, First
    <3>. HIDE DEF a, w, b, x, n
    <3>6. \A i, j \in Nat : i <= j <=> i * x <= j * x
      <4>1. ASSUME NEW i \in Nat, NEW j \in Nat PROVE i <= j <=> i * x <= j * x
        <5>1. ASSUME i <= j PROVE i * x <= j * x
          BY <5>1, <3>1
        <5>2. ASSUME ~(i <= j) PROVE ~(i * x <= j * x)
          <6>1. (j + 1) * x <= i * x /\ (j + 1) * x = j * x + x
            BY <5>2, <3>1
          <6>. QED BY <6>1, <3>1
        <5>. QED BY <5>1, <5>2
      <4>. QED BY <4>1
    <3>7. (a + w) * x = a * x + x * w /\ (b + n) * x = b * x + n * x
          /\ a + w \in Nat /\ b + n \in Nat /\ a * x \in Nat /\ b * x \in Nat
      BY <3>1, <3>2
    <3>8. b <= a <=> b * x <= a * x
      BY <3>1, <3>2, <3>6
    <3>9. a + w <= b + n <=> a * x + x * w <= b * x + n * x
      BY <3>6, <3>7
    <3>. QED BY <3>1, <3>2, <3>3, <3>4, <3>5, <3>7, <3>8, <3>9
  <2>4. Total(Node, size * 2) = Cardinality(NodePages(region, l))
    BY <2>1, <2>2, NodeSpan DEF Total
  <2>5. OccupiedIn(Node, size * 2) = Cardinality(Occupied(resident, region, l))
    BY <2>1, <2>2, OccupiedPages, RegionSpan DEF OccupiedIn
  <2>6. Enter <=> Rising(region, l)
    BY <1>3, <1>5, <2>3, <2>4, <2>5 DEF Enter, Dense, Rising
  <2>. QED BY <1>5, <2>1, <2>2, <2>6 DEF l
<1>. QED BY <1>4, <1>5

LEMMA Starts ==
  ASSUME Init
  PROVE  IInv
<1>1. 0 \in Levels /\ \A j \in 1..0 : FALSE
  BY Sizes DEF Levels
<1>2. At(0)
  BY <1>1, RegionSpan DEF Init, At
<1>3. ~climbing => AtEnd(0)
  BY DEF Init, AtEnd
<1>. QED BY <1>1, <1>2, <1>3, TBNAssumption DEF Init, IInv

LEMMA ClimbKeeps ==
  ASSUME IInv, Climb
  PROVE  IInv'
<1>1. PICK k \in Levels : At(k)
  BY DEF IInv
<1>2. region \in Regions /\ climbing /\ Enter
  BY DEF IInv, Climb
<1>3. /\ Rising(region, k + 1) /\ k + 1 \in Levels
      /\ Node = Begin(region, k + 1) /\ size * 2 = Long(k + 1)
  BY <1>1, <1>2, EnterRising
<1>4. base' = Node /\ size' = size * 2 /\ resident' = resident /\ region' = region
      /\ climbing' = climbing
  BY DEF Climb
<1>5. \A j \in 1..(k + 1) : Rising(region, j)
  <2>1. \A j \in 1..(k + 1) : j \in 1..k \/ j = k + 1
    BY DEF Levels
  <2>. QED BY <1>1, <1>3, <2>1 DEF At
<1>6. At(k + 1)'
  BY <1>3, <1>4, <1>5 DEF At, Rising
<1>. QED BY <1>2, <1>3, <1>4, <1>6 DEF IInv

LEMMA StopKeeps ==
  ASSUME IInv, Stop
  PROVE  IInv'
<1>1. PICK k \in Levels : At(k)
  BY DEF IInv
<1>2. region \in Regions /\ climbing /\ ~Enter /\ ~PrefetchDisabled
  BY DEF IInv, Stop
<1>3. ~(k < MaxFetchLevel /\ Rising(region, k + 1))
  BY <1>1, <1>2, EnterRising
<1>4. k = MaxFetchLevel \/ k < MaxFetchLevel
  BY Sizes DEF Levels
<1>5. AtEnd(k)
  BY <1>2, <1>3, <1>4 DEF AtEnd
<1>6. /\ base' = base /\ size' = size /\ resident' = resident /\ region' = region
      /\ climbing' = FALSE
  BY DEF Stop
<1>7. At(k)' /\ AtEnd(k)'
  BY <1>1, <1>5, <1>6 DEF At, AtEnd, Rising
<1>. QED BY <1>2, <1>6, <1>7 DEF IInv

LEMMA Climbing == Spec => []IInv
<1>1. Init => IInv
  BY Starts
<1>2. IInv /\ [Next]_vars => IInv'
  <2>1. ASSUME IInv, UNCHANGED vars PROVE IInv'
    BY <2>1 DEF vars, IInv, At, AtEnd, Rising
  <2>. QED BY <2>1, ClimbKeeps, StopKeeps DEF Next
<1>. QED BY <1>1, <1>2, PTL DEF Spec

-----------------------------------------------------------------------------
(* The level of the closed form.                                           *)

Reached(res, r) ==
  {k \in Levels : \A j \in 1..k : NodeFits(r, j) /\ Dense(res, r, j)}

LEMMA HighestLevel ==
  ASSUME NEW S, S \subseteq Levels, 0 \in S
  PROVE  Max(S) \in S /\ \A k \in S : Max(S) >= k
<1>. DEFINE T == {i \in Levels : MaxFetchLevel - i \in S}
<1>1. MaxFetchLevel \in Nat /\ \A k \in S : k \in Nat /\ k <= MaxFetchLevel
  BY Sizes DEF Levels
<1>2. IsFiniteSet(T) /\ T \in SUBSET Int
  <2>1. IsFiniteSet(Levels) /\ Levels \subseteq Int
    BY <1>1, FS_Interval DEF Levels
  <2>. QED BY <2>1, FS_Subset
<1>3. MaxFetchLevel \in T
  BY <1>1 DEF Levels
<1>4. PICK t \in T : \A i \in T : t <= i
  BY <1>2, <1>3, LeastElement
<1>5. \A k \in S : MaxFetchLevel - k \in T
  BY <1>1 DEF Levels
<1>6. t \in Int /\ MaxFetchLevel - t \in S /\ \A k \in S : t <= MaxFetchLevel - k
  BY <1>2, <1>4, <1>5
<1>7. \A k \in S : MaxFetchLevel - t >= k
  BY <1>1, <1>6
<1>. QED BY <1>6, <1>7 DEF Max

LEMMA LevelReached ==
  ASSUME NEW res, NEW r, ~PrefetchDisabled
  PROVE  /\ FetchLevel(res, r) \in Reached(res, r)
         /\ \A k \in Reached(res, r) : FetchLevel(res, r) >= k
<1>1. FetchLevel(res, r) = Max(Reached(res, r))
  BY DEF FetchLevel, Reached, Levels
<1>2. Reached(res, r) \subseteq Levels /\ 0 \in Reached(res, r)
  <2>1. 0 \in Levels /\ \A j \in 1..0 : FALSE
    BY Sizes DEF Levels
  <2>. QED BY <2>1 DEF Reached
<1>. QED BY <1>1, <1>2, HighestLevel

LEMMA ResidentReached ==
  ASSUME NEW res, NEW more, res \subseteq more, NEW r
  PROVE  Reached(res, r) \subseteq Reached(more, r)
<1>1. ASSUME NEW j \in Levels, Dense(res, r, j) PROVE Dense(more, r, j)
  <2>1. /\ Occupied(res, r, j) \subseteq Occupied(more, r, j)
        /\ Occupied(more, r, j) \subseteq Pages /\ NodePages(r, j) \subseteq Pages
    BY DEF Occupied, NodePages
  <2>2. IsFiniteSet(Occupied(more, r, j)) /\ IsFiniteSet(NodePages(r, j))
    BY <2>1, Sizes, FS_Subset
  <2>3. /\ Cardinality(Occupied(res, r, j)) <= Cardinality(Occupied(more, r, j))
        /\ IsFiniteSet(Occupied(res, r, j))
    BY <2>1, <2>2, FS_Subset
  <2>4. /\ Cardinality(Occupied(res, r, j)) \in Nat /\ Cardinality(Occupied(more, r, j)) \in Nat
        /\ Cardinality(NodePages(r, j)) \in Nat
    BY <2>2, <2>3, FS_CardinalityType
  <2>. QED BY <1>1, <2>3, <2>4 DEF Dense
<1>2. \A k \in Levels : \A j \in 1..k : j \in Levels
  BY Sizes DEF Levels
<1>. QED BY <1>1, <1>2 DEF Reached

(* The selected node lies in the block of the region. *)
LEMMA NodeInBlock ==
  ASSUME NEW k \in Levels, region \in Regions, At(k)
  PROVE  \A p \in Span(base, size) :
           p \div VABlockSize = (region * RegionSize) \div VABlockSize
<1>. DEFINE q == region \div RegionsPerBlock
            n == RegionsPerBlock
            x == RegionSize
            a == First(region, k)
            w == Width[k]
<1>1. a \in Nat /\ w \in Nat \ {0} /\ region \in Nat /\ x \in Nat \ {0} /\ n \in Nat \ {0}
  BY NodeType, Sizes
<1>2. q \in Nat /\ q * n <= region /\ region < q * n + n
  BY <1>1, AtMostQuotient, Quotient
<1>3. q * n <= a /\ a + w <= q * n + n
  <2>1. CASE k = 0
    <3>1. w = 1 /\ a = region
      BY <2>1, <1>1, Widths DEF First
    <3>. QED BY <3>1, <1>1, <1>2
  <2>2. CASE k # 0
    <3>1. k \in 1..k
      BY <2>2 DEF Levels
    <3>2. NodeFits(region, k)
      BY <3>1 DEF At, Rising
    <3>. QED BY <3>2, <1>1, <1>2 DEF NodeFits, First
  <2>. QED BY <2>1, <2>2
<1>4. ASSUME NEW p \in Span(base, size) PROVE p \div VABlockSize = q
  <2>1. p \in Nat /\ a * x <= p /\ p < a * x + x * w
    BY Sizes DEF At, Span, Begin, Long
  <2>2. VABlockSize = n * x /\ n * x \in Nat \ {0}
    BY Sizes
  <2>. HIDE DEF q, n, x, a, w
  <2>3. (q * n) * x <= a * x /\ (a + w) * x <= (q * n + n) * x
    BY <1>1, <1>2, <1>3
  <2>4. /\ (q * n) * x = q * (n * x) /\ (q * n + n) * x = q * (n * x) + n * x
        /\ (a + w) * x = a * x + x * w
    BY <1>1, <1>2
  <2>5. q * (n * x) <= p /\ p < q * (n * x) + n * x
    BY <1>1, <1>2, <2>1, <2>3, <2>4
  <2>. QED BY <1>2, <2>1, <2>2, <2>5, Quotient
<1>. QED BY <1>4, BlockBegin

-----------------------------------------------------------------------------
(* ResultIsFetchLevel: when expandNeighborhood ends, the node it selected  *)
(* is the one that the closed form names.                                  *)
THEOREM LoopFindsLevel == Spec => []ResultIsFetchLevel
<1>1. ASSUME IInv, ~climbing
      PROVE  LET k == FetchLevel(resident, region)
             IN  size = RegionSize * Width[k] /\ Span(base, size) = NodePages(region, k)
  <2>1. region \in Regions
    BY <1>1 DEF IInv
  <2>2. PICK k \in Levels : At(k) /\ AtEnd(k)
    BY <1>1 DEF IInv
  <2>3. FetchLevel(resident, region) = k
    <3>1. CASE PrefetchDisabled
      BY <3>1, <2>2 DEF AtEnd, FetchLevel
    <3>2. CASE ~PrefetchDisabled
      <4>. DEFINE f == FetchLevel(resident, region)
      <4>1. k \in Reached(resident, region)
        BY <2>2 DEF At, Rising, Reached
      <4>2. f \in Reached(resident, region) /\ f >= k
        BY <3>2, <4>1, LevelReached
      <4>. HIDE DEF f
      <4>3. f \in Levels /\ \A j \in 1..f : Rising(region, j)
        BY <4>2 DEF Reached, Rising
      <4>4. ASSUME f # k PROVE FALSE
        <5>1. k + 1 \in 1..f /\ k # MaxFetchLevel
          BY <4>2, <4>3, <4>4, Sizes DEF Levels
        <5>2. ~Rising(region, k + 1)
          BY <5>1, <2>2, <3>2 DEF AtEnd
        <5>. QED BY <5>1, <5>2, <4>3
      <4>. QED BY <4>4 DEF f
    <3>. QED BY <3>1, <3>2
  <2>4. size = RegionSize * Width[k] /\ Span(base, size) = NodePages(region, k)
    BY <2>1, <2>2, NodeSpan DEF At, Long
  <2>. QED BY <2>3, <2>4
<1>2. IInv => ResultIsFetchLevel
  BY <1>1 DEF ResultIsFetchLevel
<1>. QED BY <1>2, Climbing, PTL

(* SelectionIsDense: at most 49 of 100 pages of an expanded fetch are      *)
(* speculative, and it stays in its VA block.                              *)
THEOREM ClimbStaysDense == Spec => []SelectionIsDense
<1>1. ASSUME IInv
      PROVE  SelectionIsDense
  <2>1. region \in Regions
    BY <1>1 DEF IInv
  <2>2. PICK k \in Levels : At(k)
    BY <1>1 DEF IInv
  <2>. DEFINE node == Span(base, size)
              near == resident \cup PagesOf(region)
              taken == Occupied(resident, region, k)
  <2>3. node = NodePages(region, k) /\ node \cap near = taken
    BY <2>1, <2>2, NodeSpan, OccupiedPages DEF At
  <2>4. IsFiniteSet(node) /\ IsFiniteSet(taken)
    BY <2>3, Sizes, FS_Subset DEF Span
  <2>. HIDE DEF node, near, taken
  <2>5. Cardinality(node \ near) = Cardinality(node) - Cardinality(taken)
    <3>1. Cardinality(node \ near) = Cardinality(node) - Cardinality(node \cap near)
      BY <2>4, FS_Difference
    <3>. QED BY <2>3, <3>1
  <2>6. Cardinality(node) \in Nat /\ Cardinality(taken) \in Nat
    BY <2>4, FS_CardinalityType
  <2>7. ASSUME size > RegionSize
        PROVE  Cardinality(node \ near) * 100 < Cardinality(node) * 49
    <3>1. k # 0
      BY <2>1, <2>2, <2>7, RegionSpan, Sizes DEF At
    <3>2. k \in 1..k
      BY <3>1 DEF Levels
    <3>3. Cardinality(taken) * 100 > Cardinality(node) * 51
      BY <2>2, <2>3, <3>2 DEF At, Rising, Dense, taken
    <3>. QED BY <2>5, <2>6, <3>3
  <2>. QED BY <2>1, <2>2, <2>7, NodeInBlock DEF SelectionIsDense, node, near
<1>. QED BY <1>1, Climbing, PTL

(* MoreResidentFetchesMore: one page more on the GPU never makes the       *)
(* prefetcher select a smaller node.                                       *)
THEOREM FetchGrows == Spec => []MoreResidentFetchesMore
<1>1. ASSUME NEW p \in Pages
      PROVE  FetchLevel(resident, region) <= FetchLevel(resident \cup {p}, region)
  <2>1. CASE PrefetchDisabled
    BY <2>1 DEF FetchLevel
  <2>2. CASE ~PrefetchDisabled
    <3>1. FetchLevel(resident, region) \in Reached(resident, region)
      BY <2>2, LevelReached
    <3>2. FetchLevel(resident, region) \in Reached(resident \cup {p}, region)
      BY <3>1, ResidentReached
    <3>3. FetchLevel(resident \cup {p}, region) >= FetchLevel(resident, region)
      BY <2>2, <3>2, LevelReached
    <3>4. /\ FetchLevel(resident, region) \in Int
          /\ FetchLevel(resident \cup {p}, region) \in Int
      BY <2>2, LevelReached DEF Reached, Levels
    <3>. QED BY <3>3, <3>4
  <2>. QED BY <2>1, <2>2
<1>2. MoreResidentFetchesMore
  BY <1>1 DEF MoreResidentFetchesMore
<1>. QED BY <1>2, PTL
=============================================================================
