-------------------------------- MODULE TLB --------------------------------
(***************************************************************************)
(* One level of the TLB hierarchy (src/akita/mem/vm/tlb).                  *)
(*                                                                         *)
(* A TLB is one record: its sets, its MSHR, the register with the entry it *)
(* is answering, and the queues of its ports.  Each handler of a tick is a *)
(* condition and an operator from the old to the new record; the modules   *)
(* that connect TLBs say where a miss goes and where its answer comes from.*)
(*                                                                         *)
(* Modelled is the enabled TLB with one top channel: lookup, MSHR, In-TLB  *)
(* MSHR, fill and range invalidation.  A port queue and the pipeline       *)
(* behind it are one queue; what a TLB sends is in the queue of who gets   *)
(* it, so that the conditions here leave open whether there is room.       *)
(***************************************************************************)
EXTENDS OrderedLists

CONSTANTS
  Pages,         \* the pages of the program, by virtual page number
  Ways,          \* the ways of all sets
  WaysOf,        \* the ways of the set of a page
  MSHRCapacity,  \* dedicated MSHR entries
  BufferSize,    \* capacity of each direction of each port
  None           \* nil

ASSUME TLBAssumption ==
  /\ Ways \subseteq Nat /\ IsFiniteSet(Ways) /\ WaysOf \in [Pages -> SUBSET Ways]
  /\ \A p \in Pages : WaysOf[p] # {}
  /\ MSHRCapacity \in Nat \ {0} /\ BufferSize \in Nat \ {0}
  /\ None \notin Pages \cup Ways

(* What a translation says of a page: a frame of the GPU, memory of the    *)
(* host behind the access counter, or the host's frame itself.             *)
Mappings == {"Local", "Remote", "Host"}

Full(queue) == Len(queue) >= BufferSize

(* A block holds the translation of a page, no longer valid once it was    *)
(* invalidated.                                                            *)
Empty  == [page |-> None, mapping |-> None, valid |-> FALSE]
Blocks == [page : Pages \cup {None}, mapping : Mappings \cup {None}, valid : BOOLEAN]

(* mshrEntry: the requests that wait for the page, none if there is no     *)
(* entry, whether an invalidation came past, and for an In-TLB entry the   *)
(* way it occupies.                                                        *)
Entries(Reqs) ==
  [requests : Seq(Reqs), staleOnFill : BOOLEAN, way : Ways \cup {None}]
NoEntry == [requests |-> <<>>, staleOnFill |-> FALSE, way |-> None]

(* The answer that is being given to the requests of a former entry. *)
Responses(Reqs) == [requests : Seq(Reqs), mapping : Mappings \cup {None}]
NoResponse      == [requests |-> <<>>, mapping |-> None]

(* type Comp.  index is vAddrWayIDMap of all sets; order lists the ways by *)
(* their last visit, and the visitList of a set is the part of it that is  *)
(* in the set and not reserved.                                            *)
TLBs(Reqs) ==
  [topIn  : Seq(Reqs),
   bottomIn : Seq([page : Pages, mapping : Mappings]),
   block : [Ways -> Blocks],
   index : [Pages -> Ways \cup {None}],
   order : Seq(Ways),
   reserved : SUBSET Ways,
   mshr : [Pages -> Entries(Reqs)],
   responding : Responses(Reqs),
   admits : SUBSET Mappings,
   inTLBMSHRMax : Nat]

NewTLB(admits, inTLBMSHRMax) ==
  [topIn |-> <<>>, bottomIn |-> <<>>,
   block |-> [w \in Ways |-> Empty],
   index |-> [p \in Pages |-> None],
   order |-> Ascending(Ways),
   reserved |-> {},
   mshr |-> [p \in Pages |-> NoEntry],
   responding |-> NoResponse,
   admits |-> admits,
   inTLBMSHRMax |-> inTLBMSHRMax]

-----------------------------------------------------------------------------
(* The sets (internal/set.go).                                             *)

(* Update takes the key of the old page of the way out of the map, even if *)
(* that page has since moved to another way.                               *)
Update(t, w, p, mapping, valid) ==
  [t EXCEPT !.index = [x \in Pages |-> IF x = p THEN w
                                       ELSE IF x = t.block[w].page THEN None
                                       ELSE @[x]],
            !.block[w] = [page |-> p, mapping |-> mapping, valid |-> valid]]

Visit(t, w) == [t EXCEPT !.order = Append(Keep(@, Ways \ {w}), w)]

(* What Evict and PeekEvict choose from, the least recently visited first. *)
VisitList(t, p) == Keep(t.order, WaysOf[p] \ t.reserved)

(* Reserve, Release: a way lent to the MSHR loses its translation, leaves  *)
(* the rotation, and comes back to its old place.                          *)
Reserve(t, w) ==
  [t EXCEPT !.index = [x \in Pages |-> IF x = t.block[w].page THEN None ELSE @[x]],
            !.block[w] = Empty,
            !.reserved = @ \cup {w}]

Release(t, w) == [t EXCEPT !.reserved = @ \ {w}]

-----------------------------------------------------------------------------
(* Lookups.                                                                *)

(* set.Lookup found a valid page. *)
Found(t, p) == t.index[p] # None /\ t.block[t.index[p]].valid

Open(t, p)   == t.mshr[p].requests # <<>>
Dedicated(t) == {p \in Pages : Open(t, p) /\ t.mshr[p].way = None}
InTLB(t)     == {p \in Pages : Open(t, p) /\ t.mshr[p].way # None}

MSHRFull(t) == Cardinality(Dedicated(t)) >= MSHRCapacity

(* pickInTLBWay does not refuse. *)
CanBorrow(t, p) == Cardinality(InTLB(t)) < t.inTLBMSHRMax /\ VisitList(t, p) # <<>>

(* The next request finds an MSHR entry, a translation, or neither. *)
JoinsEntry(t) == t.topIn # <<>> /\ Open(t, Head(t.topIn).page)
Hits(t) ==
  /\ t.topIn # <<>> /\ ~Open(t, Head(t.topIn).page)
  /\ Found(t, Head(t.topIn).page)
Misses(t) ==
  /\ t.topIn # <<>> /\ ~Open(t, Head(t.topIn).page)
  /\ LET p == Head(t.topIn).page
     IN  ~Found(t, p) /\ (MSHRFull(t) => CanBorrow(t, p))

(* processTLBMSHRHit. *)
JoinEntry(t) ==
  [t EXCEPT !.mshr[Head(t.topIn).page].requests = Append(@, Head(t.topIn)),
            !.topIn = Tail(@)]

(* handleTranslationHit, once the answer was sent. *)
Translation(t) == t.block[t.index[Head(t.topIn).page]].mapping
AnswerHit(t) == Visit([t EXCEPT !.topIn = Tail(@)], t.index[Head(t.topIn).page])

(* fetchBottom, once the request below was sent. *)
OpenUnreserved(t) ==   \* mutant: the way stays in the rotation
  LET q == Head(t.topIn)
      w == IF MSHRFull(t) THEN Head(VisitList(t, q.page)) ELSE None
  IN  [t EXCEPT !.mshr[q.page] = [requests |-> <<q>>, staleOnFill |-> FALSE, way |-> w],
                !.topIn = Tail(@)]
OpenEntry(t) ==
  LET q == Head(t.topIn)
      w == IF MSHRFull(t) THEN Head(VisitList(t, q.page)) ELSE None
      entry == [requests |-> <<q>>, staleOnFill |-> FALSE, way |-> w]
  IN  [(IF w = None THEN t ELSE Reserve(t, w)) EXCEPT
         !.mshr[q.page] = entry, !.topIn = Tail(@)]

-----------------------------------------------------------------------------
(* Fills and answers.                                                      *)

Store(t, w, p, mapping) == Visit(Update(t, w, p, mapping, TRUE), w)

(* installFilledPage, fillInTLBEntry: an answer that an invalidation came  *)
(* past, or that this level does not admit, is passed on but not stored;   *)
(* nor is one for a set with all its ways reserved.                        *)
InstallFilledPage(t, p, mapping) ==
  LET entry  == t.mshr[p]
      stored == mapping \in t.admits /\ ~entry.staleOnFill
      free   == VisitList(t, p)
  IN  IF entry.way # None
      THEN LET t1 == Release(t, entry.way)
           IN  IF stored THEN Store(t1, entry.way, p, mapping) ELSE t1
      ELSE IF stored /\ free # <<>> THEN Store(t, Head(free), p, mapping) ELSE t

Responding(t)     == t.responding.requests # <<>>
CanParseBottom(t) == t.bottomIn # <<>> /\ ~Responding(t)

(* parseBottom: an answer nobody waits for is dropped. *)
FillTwice(t) ==   \* mutant: the entry stays in the MSHR
  LET answer == Head(t.bottomIn)
      p      == answer.page
      t1     == InstallFilledPage([t EXCEPT !.bottomIn = Tail(@)], p, answer.mapping)
  IN  IF ~Open(t, p)
      THEN [t EXCEPT !.bottomIn = Tail(@)]
      ELSE [t1 EXCEPT !.responding = [requests |-> t.mshr[p].requests,
                                      mapping |-> answer.mapping]]
ParseBottom(t) ==
  LET answer == Head(t.bottomIn)
      p      == answer.page
      t1     == InstallFilledPage([t EXCEPT !.bottomIn = Tail(@)], p, answer.mapping)
  IN  IF ~Open(t, p)
      THEN [t EXCEPT !.bottomIn = Tail(@)]
      ELSE [t1 EXCEPT !.mshr[p] = NoEntry,
                      !.responding = [requests |-> t.mshr[p].requests,
                                      mapping |-> answer.mapping]]

(* respondMSHREntry, once the answer to the first request was sent. *)
Respond(t) ==
  LET rest == Tail(t.responding.requests)
  IN  [t EXCEPT !.responding =
         IF rest = <<>> THEN NoResponse ELSE [@ EXCEPT !.requests = rest]]

-----------------------------------------------------------------------------
(* invalidateRange: what is stored for the pages S is invalid, what is on  *)
(* its way for them is not stored.                                         *)
InvalidateStored(t, S) ==   \* mutant: fills on their way are not marked
  [t EXCEPT !.block = [w \in Ways |->
                 IF \E p \in S : t.index[p] = w THEN [@[w] EXCEPT !.valid = FALSE] ELSE @[w]]]
InvalidateRange(t, S) ==
  [t EXCEPT
     !.block = [w \in Ways |->
                  IF \E p \in S : t.index[p] = w THEN [@[w] EXCEPT !.valid = FALSE] ELSE @[w]],
     !.mshr = [p \in Pages |->
                 IF p \in S /\ Open(t, p) THEN [@[p] EXCEPT !.staleOnFill = TRUE] ELSE @[p]]]

-----------------------------------------------------------------------------
(* What the properties of the hierarchy ask of one TLB.                    *)

(* How often a request waits here, and how many answers to a page have     *)
(* come.                                                                   *)
Waiting(t, q)  == Times(t.mshr[q.page].requests, q) + Times(t.responding.requests, q)
Held(t, q)     == Times(t.topIn, q) + Waiting(t, q)
Returned(t, p) == Cardinality({i \in 1..Len(t.bottomIn) : t.bottomIn[i].page = p})

(* The index names the block that has the page; the ways lent are those of *)
(* the In-TLB entries, each of one entry.                                  *)
Indexed(t) == \A p \in Pages : t.index[p] # None => t.block[t.index[p]].page = p
Lent(t) ==
  /\ t.reserved = {t.mshr[p].way : p \in InTLB(t)}
  /\ \A p1, p2 \in InTLB(t) : t.mshr[p1].way = t.mshr[p2].way => p1 = p2

Consistent(t) == Indexed(t) /\ Lent(t)
=============================================================================
