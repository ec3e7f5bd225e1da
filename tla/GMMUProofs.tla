----------------------------- MODULE GMMUProofs -----------------------------
(***************************************************************************)
(* What the handlers of a TLB do to its sets and its MSHR, and to where    *)
(* requests and answers are, for every geometry of the sets; and what the  *)
(* handlers of the GMMU do to the translations it has, for every number of *)
(* walks and every sequence of replays.                                    *)
(***************************************************************************)
EXTENDS GMMU, OrderedListsProofs

(* Stored translations and answers have a mapping. *)
Mapped(t) ==
  /\ \A w \in Ways : t.block[w].valid => t.block[w].mapping \in Mappings
  /\ Responding(t) => t.responding.mapping \in Mappings

(* The requests of an entry are for its page. *)
OwnPage(t) == \A p \in Pages : \A q \in Elements(t.mshr[p].requests) : q.page = p

Sound(t, Reqs) == t \in TLBs(Reqs) /\ Consistent(t) /\ Mapped(t) /\ OwnPage(t)

(* Where a request waits and how often; the pages with an entry; answers. *)
SameHeld(t, u, Reqs)  == \A q \in Reqs : Held(u, q) = Held(t, q)
TakesHeld(t, u, Reqs, h) == \A q \in Reqs : Held(u, q) = Held(t, q) - (IF q = h THEN 1 ELSE 0)
SameOpen(t, u)        == \A p \in Pages : Open(u, p) <=> Open(t, p)

-----------------------------------------------------------------------------
LEMMA NoneIsNew == None \notin Pages /\ None \notin Ways
BY TLBAssumption

LEMMA Fields ==
  ASSUME NEW Reqs, NEW t \in TLBs(Reqs)
  PROVE  /\ t.topIn \in Seq(Reqs) /\ t.bottomIn \in Seq([page : Pages, mapping : Mappings])
         /\ t.block \in [Ways -> Blocks] /\ t.index \in [Pages -> Ways \cup {None}]
         /\ t.order \in Seq(Ways) /\ t.reserved \in SUBSET Ways
         /\ t.mshr \in [Pages -> Entries(Reqs)]
         /\ \A p \in Pages : /\ t.mshr[p].requests \in Seq(Reqs)
                             /\ t.mshr[p].way \in Ways \cup {None}
         /\ t.responding \in Responses(Reqs) /\ t.responding.requests \in Seq(Reqs)
         /\ t.admits \in SUBSET Mappings /\ t.inTLBMSHRMax \in Nat
BY DEF TLBs, Entries, Responses

LEMMA HeldParts ==
  ASSUME NEW Reqs, NEW t \in TLBs(Reqs), NEW q, q.page \in Pages
  PROVE  /\ Times(t.topIn, q) \in Nat /\ Times(t.mshr[q.page].requests, q) \in Nat
         /\ Times(t.responding.requests, q) \in Nat
         /\ Held(t, q) = Times(t.topIn, q) + Times(t.mshr[q.page].requests, q)
                           + Times(t.responding.requests, q)
         /\ Held(t, q) \in Nat
<1>1. /\ t.topIn \in Seq(Reqs) /\ t.mshr[q.page].requests \in Seq(Reqs)
      /\ t.responding.requests \in Seq(Reqs)
  BY Fields
<1>2. /\ Times(t.topIn, q) \in Nat /\ Times(t.mshr[q.page].requests, q) \in Nat
      /\ Times(t.responding.requests, q) \in Nat
  BY <1>1, TimesType
<1>. QED BY <1>2 DEF Held, Waiting

LEMMA NewSound ==
  ASSUME NEW Reqs, NEW admits \in SUBSET Mappings, NEW max \in Nat
  PROVE  /\ Sound(NewTLB(admits, max), Reqs)
         /\ \A q \in Reqs : q.page \in Pages => Held(NewTLB(admits, max), q) = 0
         /\ \A p \in Pages : ~Open(NewTLB(admits, max), p) /\ Returned(NewTLB(admits, max), p) = 0
<1>. DEFINE t == NewTLB(admits, max)
            order == Ascending(Ways)
<1>1. order \in Seq(Ways)
  <2>1. Ways \in SUBSET Int /\ IsFiniteSet(Ways)
    BY TLBAssumption
  <2>. QED BY <2>1, AscendingList
<1>. HIDE DEF order
<1>2. t = [topIn |-> <<>>, bottomIn |-> <<>>, block |-> [w \in Ways |-> Empty],
           index |-> [p \in Pages |-> None], order |-> order, reserved |-> {},
           mshr |-> [p \in Pages |-> NoEntry], responding |-> NoResponse,
           admits |-> admits, inTLBMSHRMax |-> max]
  BY DEF NewTLB, order
<1>. HIDE DEF t
<1>3. t \in TLBs(Reqs)
  <2>1. Empty \in Blocks
    BY DEF Empty, Blocks
  <2>2. NoEntry \in Entries(Reqs) /\ NoResponse \in Responses(Reqs)
    BY DEF NoEntry, Entries, NoResponse, Responses
  <2>. QED BY <1>1, <1>2, <2>1, <2>2 DEF TLBs
<1>4. \A p \in Pages : ~Open(t, p)
  BY <1>2 DEF Open, NoEntry
<1>5. Consistent(t)
  BY <1>2, <1>4 DEF Consistent, Indexed, Lent, InTLB
<1>6. Mapped(t)
  BY <1>2 DEF Mapped, Empty, Responding, NoResponse
<1>7. OwnPage(t)
  <2>1. Elements(<<>>) = {}
    BY DEF Elements
  <2>2. \A p \in Pages : t.mshr[p].requests = <<>>
    BY <1>4 DEF Open
  <2>. QED BY <2>1, <2>2 DEF OwnPage
<1>8. ASSUME NEW q \in Reqs, q.page \in Pages PROVE Held(t, q) = 0
  <2>1. t.topIn = <<>> /\ t.mshr[q.page].requests = <<>> /\ t.responding.requests = <<>>
    BY <1>2, <1>4, <1>8 DEF Open, NoResponse
  <2>. QED BY <1>3, <1>8, <2>1, HeldParts, TimesNone
<1>9. ASSUME NEW p \in Pages PROVE Returned(t, p) = 0
  <2>1. {i \in 1..Len(t.bottomIn) : t.bottomIn[i].page = p} = {}
    BY <1>2
  <2>. QED BY <2>1, FS_EmptySet DEF Returned
<1>. QED BY <1>3, <1>4, <1>5, <1>6, <1>7, <1>8, <1>9 DEF Sound, t

-----------------------------------------------------------------------------
(* Lookups.                                                                *)

(* The head of the port. *)
LEMMA Asked ==
  ASSUME NEW Reqs, \A q \in Reqs : q.page \in Pages, NEW t \in TLBs(Reqs), t.topIn # <<>>
  PROVE  /\ Head(t.topIn) \in Reqs /\ Head(t.topIn).page \in Pages /\ Tail(t.topIn) \in Seq(Reqs)
         /\ \A q : Times(t.topIn, q) = Times(Tail(t.topIn), q) + (IF Head(t.topIn) = q THEN 1 ELSE 0)
<1>1. t.topIn \in Seq(Reqs)
  BY Fields
<1>2. /\ Head(t.topIn) \in Reqs /\ Tail(t.topIn) \in Seq(Reqs)
      /\ \A q : Times(t.topIn, q) = Times(Tail(t.topIn), q) + (IF Head(t.topIn) = q THEN 1 ELSE 0)
  BY <1>1, TimesTail
<1>. QED BY <1>2

LEMMA JoinSound ==
  ASSUME NEW Reqs, \A q \in Reqs : q.page \in Pages, NEW t, Sound(t, Reqs), JoinsEntry(t)
  PROVE  /\ Sound(JoinEntry(t), Reqs) /\ SameHeld(t, JoinEntry(t), Reqs)
         /\ SameOpen(t, JoinEntry(t)) /\ JoinEntry(t).bottomIn = t.bottomIn
<1>. DEFINE h == Head(t.topIn)
            rest == Tail(t.topIn)
            p == h.page
            u == JoinEntry(t)
            old == t.mshr[p].requests
            new == Append(old, h)
<1>1. t \in TLBs(Reqs) /\ Consistent(t) /\ Mapped(t) /\ OwnPage(t) /\ t.topIn # <<>> /\ Open(t, p)
  BY DEF Sound, JoinsEntry
<1>2. /\ h \in Reqs /\ p \in Pages /\ rest \in Seq(Reqs)
      /\ \A q : Times(t.topIn, q) = Times(rest, q) + (IF h = q THEN 1 ELSE 0)
  BY <1>1, Asked
<1>3. old \in Seq(Reqs) /\ old # <<>>
  BY <1>1, <1>2, Fields DEF Open
<1>4. u = [t EXCEPT !.mshr[p].requests = new, !.topIn = rest] /\ p = h.page /\ old = t.mshr[p].requests
  BY DEF JoinEntry
<1>. HIDE DEF h, p, rest, old
<1>5. /\ new \in Seq(Reqs) /\ new # <<>> /\ Elements(new) = Elements(old) \cup {h}
      /\ \A q : Times(new, q) = Times(old, q) + (IF h = q THEN 1 ELSE 0)
      /\ \A q : Times(old, q) \in Nat
  BY <1>2, <1>3, AppendList
<1>. HIDE DEF u, new
<1>6. t.mshr \in [Pages -> Entries(Reqs)]
  BY <1>1, Fields
<1>7. /\ u.topIn = rest /\ u.bottomIn = t.bottomIn /\ u.block = t.block /\ u.index = t.index
      /\ u.reserved = t.reserved /\ u.responding = t.responding
      /\ u.mshr = [t.mshr EXCEPT ![p].requests = new]
  BY <1>1, <1>4 DEF TLBs
<1>8. \A x \in Pages : /\ u.mshr[x].requests = IF x = p THEN new ELSE t.mshr[x].requests
                       /\ u.mshr[x].way = t.mshr[x].way
  BY <1>2, <1>6, <1>7 DEF Entries
<1>9. u.mshr \in [Pages -> Entries(Reqs)]
  BY <1>2, <1>5, <1>6, <1>7, ZenonT(60) DEF Entries
<1>10. u \in TLBs(Reqs)
  BY <1>1, <1>2, <1>4, <1>7, <1>9 DEF TLBs
<1>11. SameOpen(t, u)
  BY <1>1, <1>5, <1>8 DEF SameOpen, Open
<1>12. InTLB(u) = InTLB(t)
  BY <1>8, <1>11 DEF InTLB, SameOpen
<1>13. Consistent(u)
  BY <1>1, <1>7, <1>8, <1>12 DEF Consistent, Indexed, Lent, InTLB
<1>14. Mapped(u)
  BY <1>1, <1>7 DEF Mapped, Responding
<1>15. OwnPage(u)
  BY <1>1, <1>4, <1>5, <1>8 DEF OwnPage
<1>16. ASSUME NEW q \in Reqs PROVE Held(u, q) = Held(t, q)
  <2>1. q.page \in Pages
    OBVIOUS
  <2>2. Times(t.topIn, q) = Times(u.topIn, q) + (IF h = q THEN 1 ELSE 0)
    BY <1>2, <1>7
  <2>3. Times(u.mshr[q.page].requests, q) = Times(t.mshr[q.page].requests, q) + (IF h = q THEN 1 ELSE 0)
    <3>1. CASE q.page = p
      BY <1>4, <1>5, <1>8, <2>1, <3>1
    <3>2. CASE q.page # p
      <4>1. Times(t.mshr[q.page].requests, q) \in Nat
        BY <1>1, <2>1, HeldParts
      <4>. QED BY <1>4, <1>8, <2>1, <3>2, <4>1
    <3>. QED BY <3>1, <3>2
  <2>4. u.responding = t.responding
    BY <1>7
  <2>5. Times(u.topIn, q) \in Nat /\ Times(t.mshr[q.page].requests, q) \in Nat
        /\ Times(t.responding.requests, q) \in Nat
    BY <1>1, <1>10, <2>1, HeldParts
  <2>. QED BY <2>2, <2>3, <2>4, <2>5 DEF Held, Waiting
<1>. QED BY <1>7, <1>10, <1>11, <1>13, <1>14, <1>15, <1>16 DEF Sound, SameHeld, u

LEMMA VisitType ==
  ASSUME NEW Reqs, NEW t \in TLBs(Reqs), NEW w \in Ways
  PROVE  /\ Visit(t, w) \in TLBs(Reqs)
         /\ \E order \in Seq(Ways) : Visit(t, w) = [t EXCEPT !.order = order]
<1>. DEFINE kept == Keep(t.order, Ways \ {w})
            order == Append(kept, w)
<1>1. kept \in Seq(Ways)
  BY Fields, KeepList
<1>2. order \in Seq(Ways)
  BY <1>1
<1>3. Visit(t, w) = [t EXCEPT !.order = order]
  BY DEF Visit
<1>. HIDE DEF order
<1>4. [t EXCEPT !.order = order] \in TLBs(Reqs)
  BY <1>2 DEF TLBs
<1>. QED BY <1>2, <1>3, <1>4

LEMMA HitSound ==
  ASSUME NEW Reqs, \A q \in Reqs : q.page \in Pages, NEW t, Sound(t, Reqs), Hits(t)
  PROVE  /\ Sound(AnswerHit(t), Reqs) /\ TakesHeld(t, AnswerHit(t), Reqs, Head(t.topIn))
         /\ SameOpen(t, AnswerHit(t)) /\ AnswerHit(t).bottomIn = t.bottomIn
         /\ Translation(t) \in Mappings /\ Head(t.topIn) \in Reqs
<1>. DEFINE h == Head(t.topIn)
            rest == Tail(t.topIn)
            w == t.index[h.page]
            t1 == [t EXCEPT !.topIn = rest]
            u == AnswerHit(t)
<1>1. t \in TLBs(Reqs) /\ Consistent(t) /\ Mapped(t) /\ OwnPage(t) /\ t.topIn # <<>>
      /\ w # None /\ t.block[w].valid
  BY DEF Sound, Hits, Found
<1>2. /\ h \in Reqs /\ h.page \in Pages /\ rest \in Seq(Reqs)
      /\ \A q : Times(t.topIn, q) = Times(rest, q) + (IF h = q THEN 1 ELSE 0)
  BY <1>1, Asked
<1>3. w \in Ways /\ Translation(t) \in Mappings
  BY <1>1, <1>2, Fields DEF Translation, Mapped
<1>4. u = Visit(t1, w)
  BY DEF AnswerHit
<1>. HIDE DEF h, rest, w
<1>5. t1 \in TLBs(Reqs)
  BY <1>1, <1>2 DEF TLBs
<1>. HIDE DEF u
<1>6. u \in TLBs(Reqs) /\ \E order : u = [t1 EXCEPT !.order = order]
  BY <1>3, <1>4, <1>5, VisitType
<1>7. /\ u.topIn = rest /\ u.bottomIn = t.bottomIn /\ u.block = t.block /\ u.index = t.index
      /\ u.reserved = t.reserved /\ u.responding = t.responding /\ u.mshr = t.mshr
  BY <1>1, <1>6 DEF TLBs
<1>8. SameOpen(t, u) /\ InTLB(u) = InTLB(t)
  BY <1>7 DEF SameOpen, Open, InTLB
<1>9. Consistent(u) /\ Mapped(u) /\ OwnPage(u)
  BY <1>1, <1>7, <1>8 DEF Consistent, Indexed, Lent, Mapped, Responding, OwnPage
<1>10. ASSUME NEW q \in Reqs PROVE Held(u, q) = Held(t, q) - (IF q = h THEN 1 ELSE 0)
  <2>1. q.page \in Pages
    OBVIOUS
  <2>2. Times(t.topIn, q) = Times(u.topIn, q) + (IF h = q THEN 1 ELSE 0)
    BY <1>2, <1>7
  <2>3. Times(u.topIn, q) \in Nat /\ Times(t.mshr[q.page].requests, q) \in Nat
        /\ Times(t.responding.requests, q) \in Nat
    BY <1>1, <1>6, <2>1, HeldParts
  <2>4. u.mshr = t.mshr /\ u.responding = t.responding
    BY <1>7
  <2>. QED BY <2>2, <2>3, <2>4 DEF Held, Waiting
<1>. QED BY <1>2, <1>3, <1>6, <1>7, <1>8, <1>9, <1>10 DEF Sound, TakesHeld, u, h

(* The least recently visited way that is not lent. *)
LEMMA Victim ==
  ASSUME NEW Reqs, NEW t \in TLBs(Reqs), NEW p, VisitList(t, p) # <<>>
  PROVE  Head(VisitList(t, p)) \in Ways \ t.reserved
<1>. DEFINE v == VisitList(t, p)
<1>1. v \in Seq(Ways) /\ Elements(v) = Elements(t.order) \cap (WaysOf[p] \ t.reserved)
  BY Fields, KeepList DEF VisitList
<1>. HIDE DEF v
<1>2. Head(v) \in Elements(v) /\ Head(v) \in Ways
  <2>1. v # <<>>
    BY DEF v
  <2>2. 1 \in 1..Len(v) /\ Head(v) = v[1] /\ Head(v) \in Ways
    BY <1>1, <2>1
  <2>. QED BY <2>2 DEF Elements
<1>. QED BY <1>1, <1>2 DEF v

LEMMA ReserveKeeps ==
  ASSUME NEW Reqs, NEW t \in TLBs(Reqs), NEW w \in Ways, Indexed(t), Mapped(t)
  PROVE  /\ Reserve(t, w) \in TLBs(Reqs) /\ Indexed(Reserve(t, w)) /\ Mapped(Reserve(t, w))
         /\ Reserve(t, w).reserved = t.reserved \cup {w}
         /\ Reserve(t, w).topIn = t.topIn /\ Reserve(t, w).bottomIn = t.bottomIn
         /\ Reserve(t, w).mshr = t.mshr /\ Reserve(t, w).responding = t.responding
<1>. DEFINE u == Reserve(t, w)
            index == [x \in Pages |-> IF x = t.block[w].page THEN None ELSE t.index[x]]
            block == [t.block EXCEPT ![w] = Empty]
<1>1. u = [t EXCEPT !.index = index, !.block = block, !.reserved = @ \cup {w}]
  BY DEF Reserve
<1>2. t.index \in [Pages -> Ways \cup {None}] /\ t.block \in [Ways -> Blocks] /\ t.reserved \in SUBSET Ways
  BY Fields
<1>3. Empty \in Blocks /\ Empty.page = None /\ ~Empty.valid
  BY DEF Empty, Blocks
<1>4. index \in [Pages -> Ways \cup {None}] /\ block \in [Ways -> Blocks]
  BY <1>2, <1>3
<1>5. \A p \in Pages : index[p] # None => index[p] = t.index[p] /\ index[p] # w
  <2>. SUFFICES ASSUME NEW p \in Pages, index[p] # None PROVE index[p] = t.index[p] /\ index[p] # w
    OBVIOUS
  <2>1. index[p] = t.index[p] /\ p # t.block[w].page
    OBVIOUS
  <2>. QED BY <2>1 DEF Indexed
<1>6. \A x \in Ways : block[x] = IF x = w THEN Empty ELSE t.block[x]
  BY <1>2
<1>. HIDE DEF u, index, block
<1>7. u \in TLBs(Reqs)
  BY <1>1, <1>2, <1>4 DEF TLBs
<1>8. /\ u.index = index /\ u.block = block /\ u.reserved = t.reserved \cup {w}
      /\ u.topIn = t.topIn /\ u.bottomIn = t.bottomIn /\ u.mshr = t.mshr /\ u.responding = t.responding
  BY <1>1 DEF TLBs
<1>9. Indexed(u)
  BY <1>2, <1>4, <1>5, <1>6, <1>8 DEF Indexed
<1>10. Mapped(u)
  BY <1>3, <1>6, <1>8 DEF Mapped, Responding
<1>. QED BY <1>7, <1>8, <1>9, <1>10 DEF u

(* fetchBottom: only a way that is not lent is lent, and a page without an *)
(* entry gets one.                                                         *)
LEMMA OpenSound ==
  ASSUME NEW Reqs, \A q \in Reqs : q.page \in Pages, NEW t, Sound(t, Reqs), Misses(t)
  PROVE  /\ Sound(OpenEntry(t), Reqs) /\ SameHeld(t, OpenEntry(t), Reqs)
         /\ Head(t.topIn).page \in Pages /\ ~Open(t, Head(t.topIn).page)
         /\ \A p \in Pages : Open(OpenEntry(t), p) <=> Open(t, p) \/ p = Head(t.topIn).page
         /\ OpenEntry(t).bottomIn = t.bottomIn
<1>. DEFINE h == Head(t.topIn)
            rest == Tail(t.topIn)
            p == h.page
            one == <<h>>
            w == IF MSHRFull(t) THEN Head(VisitList(t, p)) ELSE None
            t1 == IF w = None THEN t ELSE Reserve(t, w)
            entry == [requests |-> one, staleOnFill |-> FALSE, way |-> w]
            u == OpenEntry(t)
<1>1. t \in TLBs(Reqs) /\ Consistent(t) /\ Mapped(t) /\ OwnPage(t) /\ t.topIn # <<>> /\ ~Open(t, p)
      /\ (MSHRFull(t) => VisitList(t, p) # <<>>)
  BY DEF Sound, Misses, CanBorrow
<1>2. /\ h \in Reqs /\ p \in Pages /\ rest \in Seq(Reqs)
      /\ \A q : Times(t.topIn, q) = Times(rest, q) + (IF h = q THEN 1 ELSE 0)
  BY <1>1, Asked
<1>3. w \in Ways \cup {None} /\ (w # None => w \in Ways /\ w \notin t.reserved)
  BY <1>1, Victim
<1>4. one \in Seq(Reqs) /\ one # <<>> /\ Elements(one) = {h}
      /\ \A q : Times(one, q) = IF h = q THEN 1 ELSE 0
  BY <1>2, TimesOne DEF Elements
<1>5. t.mshr[p].requests = <<>>
  BY <1>1 DEF Open
<1>6. u = [t1 EXCEPT !.mshr[p] = entry, !.topIn = Tail(t1.topIn)] /\ p = h.page
  BY DEF OpenEntry
<1>. HIDE DEF h, p, w, one, rest
<1>7. /\ t1 \in TLBs(Reqs) /\ Indexed(t1) /\ Mapped(t1)
      /\ t1.reserved = IF w = None THEN t.reserved ELSE t.reserved \cup {w}
      /\ t1.topIn = t.topIn /\ t1.bottomIn = t.bottomIn /\ t1.mshr = t.mshr /\ t1.responding = t.responding
  <2>1. Indexed(t)
    BY <1>1 DEF Consistent
  <2>2. CASE w = None
    BY <1>1, <2>1, <2>2
  <2>3. CASE w # None
    <3>1. t1 = Reserve(t, w) /\ w \in Ways
      BY <1>3, <2>3
    <3>. HIDE DEF t1
    <3>. QED BY <1>1, <2>1, <2>3, <3>1, ReserveKeeps
  <2>. QED BY <2>2, <2>3
<1>. HIDE DEF t1, u
<1>8. Tail(t1.topIn) = rest
  BY <1>7 DEF rest
<1>9. entry \in Entries(Reqs) /\ entry.requests = one /\ entry.way = w
  BY <1>3, <1>4 DEF Entries
<1>. HIDE DEF entry
<1>10. t.mshr \in [Pages -> Entries(Reqs)]
  BY <1>1, Fields
<1>11. /\ u.topIn = rest /\ u.bottomIn = t.bottomIn /\ u.block = t1.block /\ u.index = t1.index
       /\ u.reserved = t1.reserved /\ u.responding = t.responding
       /\ u.mshr = [t.mshr EXCEPT ![p] = entry]
  BY <1>6, <1>7, <1>8 DEF TLBs
<1>12. u \in TLBs(Reqs)
  BY <1>2, <1>6, <1>7, <1>8, <1>9, <1>10 DEF TLBs
<1>13. \A x \in Pages : u.mshr[x] = IF x = p THEN entry ELSE t.mshr[x]
  BY <1>2, <1>10, <1>11
<1>14. \A x \in Pages : Open(u, x) <=> Open(t, x) \/ x = p
  BY <1>4, <1>9, <1>13 DEF Open
<1>15. InTLB(u) = IF w = None THEN InTLB(t) ELSE InTLB(t) \cup {p}
  BY <1>1, <1>2, <1>9, <1>13, <1>14 DEF InTLB
<1>16. p \notin InTLB(t)
  BY <1>1 DEF InTLB
<1>17. Lent(u)
  <2>1. Lent(t)
    BY <1>1 DEF Consistent
  <2>2. \A x \in InTLB(t) : x \in Pages /\ u.mshr[x].way = t.mshr[x].way /\ t.mshr[x].way \in t.reserved
    BY <1>13, <1>16, <2>1 DEF Lent, InTLB
  <2>3. u.mshr[p].way = w
    BY <1>2, <1>9, <1>13
  <2>4. u.reserved = IF w = None THEN t.reserved ELSE t.reserved \cup {w}
    BY <1>7, <1>11
  <2>5. CASE w = None
    BY <1>15, <2>1, <2>2, <2>4, <2>5 DEF Lent
  <2>6. CASE w # None
    <3>1. InTLB(u) = InTLB(t) \cup {p} /\ u.reserved = t.reserved \cup {w} /\ w \notin t.reserved
      BY <1>3, <1>15, <2>4, <2>6
    <3>2. u.reserved = {u.mshr[x].way : x \in InTLB(u)}
      BY <2>1, <2>2, <2>3, <3>1 DEF Lent
    <3>3. \A p1, p2 \in InTLB(u) : u.mshr[p1].way = u.mshr[p2].way => p1 = p2
      BY <2>1, <2>2, <2>3, <3>1 DEF Lent
    <3>. QED BY <3>2, <3>3 DEF Lent
  <2>. QED BY <2>5, <2>6
<1>18. Indexed(u) /\ Mapped(u)
  BY <1>7, <1>11 DEF Indexed, Mapped, Responding
<1>19. OwnPage(u)
  BY <1>1, <1>4, <1>6, <1>9, <1>13 DEF OwnPage
<1>20. ASSUME NEW q \in Reqs PROVE Held(u, q) = Held(t, q)
  <2>1. q.page \in Pages
    OBVIOUS
  <2>2. Times(t.topIn, q) = Times(u.topIn, q) + (IF h = q THEN 1 ELSE 0)
    BY <1>2, <1>11
  <2>3. Times(u.topIn, q) \in Nat /\ Times(t.mshr[q.page].requests, q) \in Nat
        /\ Times(t.responding.requests, q) \in Nat
    BY <1>1, <1>12, <2>1, HeldParts
  <2>4. Times(u.mshr[q.page].requests, q) = Times(t.mshr[q.page].requests, q) + (IF h = q THEN 1 ELSE 0)
    <3>1. CASE q.page = p
      <4>1. Times(t.mshr[q.page].requests, q) = 0
        BY <1>5, <3>1, TimesNone
      <4>. QED BY <1>4, <1>9, <1>13, <2>1, <3>1, <4>1
    <3>2. CASE q.page # p
      BY <1>6, <1>13, <2>1, <2>3, <3>2
    <3>. QED BY <3>1, <3>2
  <2>5. u.responding = t.responding
    BY <1>11
  <2>. QED BY <2>2, <2>3, <2>4, <2>5 DEF Held, Waiting
<1>. QED BY <1>1, <1>2, <1>11, <1>12, <1>14, <1>17, <1>18, <1>19, <1>20 DEF Sound, Consistent, SameHeld, u, h, p

-----------------------------------------------------------------------------
(* Fills and answers.                                                      *)

LEMMA StoreKeeps ==
  ASSUME NEW Reqs, NEW t \in TLBs(Reqs), NEW w \in Ways, NEW p \in Pages, NEW mapping \in Mappings,
         Indexed(t), Mapped(t)
  PROVE  LET u == Store(t, w, p, mapping)
         IN  /\ u \in TLBs(Reqs) /\ Indexed(u) /\ Mapped(u)
             /\ u.reserved = t.reserved /\ u.topIn = t.topIn /\ u.bottomIn = t.bottomIn
             /\ u.mshr = t.mshr /\ u.responding = t.responding
<1>. DEFINE new == [page |-> p, mapping |-> mapping, valid |-> TRUE]
            index == [x \in Pages |-> IF x = p THEN w
                                      ELSE IF x = t.block[w].page THEN None ELSE t.index[x]]
            block == [t.block EXCEPT ![w] = new]
            u1 == [t EXCEPT !.index = index, !.block = block]
            u  == Store(t, w, p, mapping)
<1>1. u = Visit(u1, w)
  BY DEF Store, Update
<1>2. t.index \in [Pages -> Ways \cup {None}] /\ t.block \in [Ways -> Blocks]
  BY Fields
<1>3. new \in Blocks /\ new.page = p /\ new.mapping \in Mappings
  BY DEF Blocks
<1>. HIDE DEF new
<1>4. index \in [Pages -> Ways \cup {None}] /\ block \in [Ways -> Blocks]
  BY <1>2, <1>3
<1>5. \A x \in Pages : index[x] # None => (x = p /\ index[x] = w) \/ (index[x] = t.index[x] /\ index[x] # w)
  <2>. SUFFICES ASSUME NEW x \in Pages, index[x] # None
                PROVE  (x = p /\ index[x] = w) \/ (index[x] = t.index[x] /\ index[x] # w)
    OBVIOUS
  <2>1. CASE x = p
    BY <2>1
  <2>2. CASE x # p
    <3>1. index[x] = t.index[x] /\ x # t.block[w].page
      BY <2>2
    <3>. QED BY <3>1 DEF Indexed
  <2>. QED BY <2>1, <2>2
<1>6. \A x \in Ways : block[x] = IF x = w THEN new ELSE t.block[x]
  BY <1>2
<1>. HIDE DEF index, block
<1>7. u1 \in TLBs(Reqs)
  BY <1>4 DEF TLBs
<1>. HIDE DEF u
<1>8. u \in TLBs(Reqs) /\ \E order : u = [u1 EXCEPT !.order = order]
  BY <1>1, <1>7, VisitType
<1>9. /\ u.index = index /\ u.block = block /\ u.reserved = t.reserved
      /\ u.topIn = t.topIn /\ u.bottomIn = t.bottomIn /\ u.mshr = t.mshr /\ u.responding = t.responding
  BY <1>8 DEF TLBs
<1>10. Indexed(u)
  BY <1>2, <1>3, <1>4, <1>5, <1>6, <1>9 DEF Indexed
<1>11. Mapped(u)
  BY <1>3, <1>6, <1>9 DEF Mapped, Responding
<1>. QED BY <1>8, <1>9, <1>10, <1>11 DEF u

LEMMA InstallKeeps ==
  ASSUME NEW Reqs, NEW t \in TLBs(Reqs), NEW p \in Pages, NEW mapping \in Mappings,
         Indexed(t), Mapped(t)
  PROVE  LET u == InstallFilledPage(t, p, mapping)
         IN  /\ u \in TLBs(Reqs) /\ Indexed(u) /\ Mapped(u)
             /\ u.reserved = t.reserved \ {t.mshr[p].way} /\ u.topIn = t.topIn
             /\ u.bottomIn = t.bottomIn /\ u.mshr = t.mshr /\ u.responding = t.responding
<1>. DEFINE w  == t.mshr[p].way
            t1 == Release(t, w)
            u  == InstallFilledPage(t, p, mapping)
            free == VisitList(t, p)
<1>1. w \in Ways \cup {None} /\ t.reserved \in SUBSET Ways
  BY Fields
<1>2. CASE w # None
  <2>1. u = t1 \/ u = Store(t1, w, p, mapping)
    BY <1>2 DEF InstallFilledPage
  <2>. HIDE DEF u, w
  <2>2. t1 = [t EXCEPT !.reserved = t.reserved \ {w}]
    BY DEF Release
  <2>3. /\ t1 \in TLBs(Reqs) /\ t1.reserved = t.reserved \ {w} /\ t1.topIn = t.topIn
        /\ t1.bottomIn = t.bottomIn /\ t1.mshr = t.mshr /\ t1.responding = t.responding
        /\ t1.block = t.block /\ t1.index = t.index
    BY <1>1, <2>2 DEF TLBs
  <2>. HIDE DEF t1
  <2>4. Indexed(t1) /\ Mapped(t1)
    BY <2>3 DEF Indexed, Mapped, Responding
  <2>5. CASE u = t1
    BY <2>3, <2>4, <2>5 DEF u, w
  <2>6. CASE u = Store(t1, w, p, mapping)
    <3>1. w \in Ways
      BY <1>1, <1>2
    <3>. QED BY <2>3, <2>4, <2>6, <3>1, StoreKeeps DEF u, w
  <2>. QED BY <2>1, <2>5, <2>6
<1>3. CASE w = None
  <2>1. u = t \/ (u = Store(t, Head(free), p, mapping) /\ free # <<>>)
    BY <1>3 DEF InstallFilledPage
  <2>2. t.reserved = t.reserved \ {w}
    BY <1>1, <1>3, NoneIsNew
  <2>. HIDE DEF u, w
  <2>3. CASE u = t
    BY <2>2, <2>3 DEF u, w
  <2>4. CASE u = Store(t, Head(free), p, mapping) /\ free # <<>>
    <3>1. Head(free) \in Ways
      BY <2>4, Victim
    <3>. HIDE DEF free
    <3>. QED BY <2>2, <2>4, <3>1, StoreKeeps DEF u, w
  <2>. QED BY <2>1, <2>3, <2>4
<1>. QED BY <1>2, <1>3

(* parseBottom: the requests of the entry become those that are answered.  *)
LEMMA FillSound ==
  ASSUME NEW Reqs, \A q \in Reqs : q.page \in Pages, NEW t, Sound(t, Reqs), CanParseBottom(t)
  PROVE  /\ Sound(ParseBottom(t), Reqs) /\ SameHeld(t, ParseBottom(t), Reqs)
         /\ Head(t.bottomIn).page \in Pages
         /\ \A p \in Pages : Open(ParseBottom(t), p) <=> Open(t, p) /\ p # Head(t.bottomIn).page
         /\ ParseBottom(t).bottomIn = Tail(t.bottomIn)
<1>. DEFINE a == Head(t.bottomIn)
            rest == Tail(t.bottomIn)
            p == a.page
            mapping == a.mapping
            old == t.mshr[p].requests
            t0 == [t EXCEPT !.bottomIn = rest]
            t1 == InstallFilledPage(t0, p, mapping)
            answer == [requests |-> old, mapping |-> mapping]
            u == ParseBottom(t)
<1>1. t \in TLBs(Reqs) /\ Indexed(t) /\ Lent(t) /\ Mapped(t) /\ OwnPage(t) /\ t.bottomIn # <<>> /\ ~Responding(t)
  BY DEF Sound, Consistent, CanParseBottom
<1>2. a \in [page : Pages, mapping : Mappings] /\ rest \in Seq([page : Pages, mapping : Mappings])
  <2>. DEFINE T == [page : Pages, mapping : Mappings]
  <2>1. t.bottomIn \in Seq(T)
    BY <1>1, Fields
  <2>. HIDE DEF T
  <2>2. a \in T /\ rest \in Seq(T)
    BY <1>1, <2>1, TimesTail
  <2>. QED BY <2>2 DEF T
<1>3. p \in Pages /\ mapping \in Mappings
  BY <1>2
<1>4. u = IF Open(t, p) THEN [t1 EXCEPT !.mshr[p] = NoEntry, !.responding = answer] ELSE t0
  BY DEF ParseBottom
<1>5. p = a.page /\ a = Head(t.bottomIn) /\ rest = Tail(t.bottomIn)
  OBVIOUS
<1>. HIDE DEF a, rest, p, mapping
<1>6. /\ t0 \in TLBs(Reqs) /\ t0.bottomIn = rest /\ t0.topIn = t.topIn /\ t0.mshr = t.mshr
      /\ t0.responding = t.responding /\ t0.block = t.block /\ t0.index = t.index /\ t0.reserved = t.reserved
  BY <1>1, <1>2 DEF TLBs
<1>. HIDE DEF t0
<1>7. Indexed(t0) /\ Mapped(t0) /\ Lent(t0) /\ OwnPage(t0)
  BY <1>1, <1>6 DEF Indexed, Mapped, Responding, Lent, OwnPage, InTLB, Open
<1>8. CASE ~Open(t, p)
  <2>1. u = t0
    BY <1>4, <1>8
  <2>2. Sound(u, Reqs)
    BY <1>6, <1>7, <2>1 DEF Sound, Consistent
  <2>3. SameHeld(t, u, Reqs)
    BY <1>6, <2>1 DEF SameHeld, Held, Waiting
  <2>4. \A x \in Pages : Open(u, x) <=> Open(t, x) /\ x # p
    BY <1>6, <1>8, <2>1 DEF Open
  <2>. QED BY <1>3, <1>5, <1>6, <2>1, <2>2, <2>3, <2>4 DEF u
<1>9. CASE Open(t, p)
  <2>1. u = [t1 EXCEPT !.mshr[p] = NoEntry, !.responding = answer]
    BY <1>4, <1>9
  <2>2. /\ t1 \in TLBs(Reqs) /\ Indexed(t1) /\ Mapped(t1)
        /\ t1.reserved = t.reserved \ {t.mshr[p].way} /\ t1.topIn = t.topIn
        /\ t1.bottomIn = rest /\ t1.mshr = t.mshr
    BY <1>3, <1>6, <1>7, InstallKeeps
  <2>. HIDE DEF t1, u
  <2>3. t.mshr \in [Pages -> Entries(Reqs)] /\ old \in Seq(Reqs) /\ old # <<>>
    BY <1>1, <1>3, <1>9, Fields DEF Open
  <2>. HIDE DEF old
  <2>4. answer \in Responses(Reqs) /\ answer.requests = old /\ answer.mapping = mapping
    BY <1>3, <2>3 DEF Responses
  <2>. HIDE DEF answer
  <2>5. NoEntry \in Entries(Reqs) /\ NoEntry.requests = <<>>
    BY DEF NoEntry, Entries
  <2>6. /\ u.topIn = t.topIn /\ u.bottomIn = rest /\ u.block = t1.block /\ u.index = t1.index
        /\ u.reserved = t.reserved \ {t.mshr[p].way} /\ u.responding = answer
        /\ u.mshr = [t.mshr EXCEPT ![p] = NoEntry]
    BY <2>1, <2>2 DEF TLBs
  <2>7. u \in TLBs(Reqs)
    BY <1>3, <2>1, <2>2, <2>3, <2>4, <2>5 DEF TLBs
  <2>8. \A x \in Pages : u.mshr[x] = IF x = p THEN NoEntry ELSE t.mshr[x]
    BY <1>3, <2>3, <2>6
  <2>9. \A x \in Pages : Open(u, x) <=> Open(t, x) /\ x # p
    BY <2>5, <2>8 DEF Open
  <2>10. InTLB(u) = InTLB(t) \ {p} /\ \A x \in InTLB(u) : u.mshr[x].way = t.mshr[x].way
    BY <2>8, <2>9 DEF InTLB
  <2>11. Lent(u)
    <3>1. p \in InTLB(t) \/ t.mshr[p].way = None
      BY <1>3, <1>9 DEF InTLB
    <3>2. None \notin t.reserved
      BY <1>1, Fields, NoneIsNew
    <3>3. \A p1, p2 \in InTLB(t) : t.mshr[p1].way = t.mshr[p2].way => p1 = p2
      BY <1>1 DEF Lent
    <3>4. t.reserved = {t.mshr[x].way : x \in InTLB(t)}
      BY <1>1 DEF Lent
    <3>5. u.reserved = {u.mshr[x].way : x \in InTLB(u)}
      <4>1. CASE p \in InTLB(t)
        BY <2>6, <2>10, <3>3, <3>4, <4>1
      <4>2. CASE p \notin InTLB(t)
        BY <2>6, <2>10, <3>1, <3>2, <3>4, <4>2
      <4>. QED BY <4>1, <4>2
    <3>6. \A p1, p2 \in InTLB(u) : u.mshr[p1].way = u.mshr[p2].way => p1 = p2
      BY <2>10, <3>3
    <3>. QED BY <3>5, <3>6 DEF Lent
  <2>12. Indexed(u) /\ Mapped(u)
    BY <1>3, <2>2, <2>4, <2>6 DEF Indexed, Mapped, Responding
  <2>13. OwnPage(u)
    <3>1. Elements(<<>>) = {}
      BY DEF Elements
    <3>. QED BY <1>1, <2>5, <2>8, <3>1 DEF OwnPage
  <2>14. ASSUME NEW q \in Reqs PROVE Held(u, q) = Held(t, q)
    <3>1. q.page \in Pages
      OBVIOUS
    <3>2. Times(t.responding.requests, q) = 0
      BY <1>1, TimesNone DEF Responding
    <3>3. Times(u.responding.requests, q) = Times(old, q)
      BY <2>4, <2>6
    <3>4. Times(u.mshr[q.page].requests, q) + Times(old, q) = Times(t.mshr[q.page].requests, q)
      <4>1. Times(t.mshr[q.page].requests, q) \in Nat
        BY <1>1, <3>1, HeldParts
      <4>2. CASE q.page = p
        <5>1. Times(u.mshr[q.page].requests, q) = 0 /\ old = t.mshr[q.page].requests
          BY <2>5, <2>8, <3>1, <4>2, TimesNone DEF old
        <5>. QED BY <4>1, <5>1
      <4>3. CASE q.page # p
        <5>1. q \notin Elements(old)
          BY <1>1, <1>3, <4>3 DEF OwnPage, old
        <5>2. Times(old, q) = 0
          BY <2>3, <5>1, TimesType
        <5>. QED BY <2>8, <3>1, <4>1, <4>3, <5>2
      <4>. QED BY <4>2, <4>3
    <3>5. Times(t.topIn, q) \in Nat /\ Times(u.mshr[q.page].requests, q) \in Nat
          /\ Times(u.responding.requests, q) \in Nat
      BY <1>1, <2>7, <3>1, HeldParts
    <3>6. u.topIn = t.topIn
      BY <2>6
    <3>. QED BY <3>2, <3>3, <3>4, <3>5, <3>6 DEF Held, Waiting
  <2>. QED BY <1>3, <1>5, <2>6, <2>7, <2>9, <2>11, <2>12, <2>13, <2>14 DEF Sound, Consistent, SameHeld, u
<1>. QED BY <1>8, <1>9

(* respondMSHREntry: the first request of the entry is answered.           *)
LEMMA RespondSound ==
  ASSUME NEW Reqs, \A q \in Reqs : q.page \in Pages, NEW t, Sound(t, Reqs), Responding(t)
  PROVE  /\ Sound(Respond(t), Reqs) /\ TakesHeld(t, Respond(t), Reqs, Head(t.responding.requests))
         /\ SameOpen(t, Respond(t)) /\ Respond(t).bottomIn = t.bottomIn
         /\ t.responding.mapping \in Mappings /\ Head(t.responding.requests) \in Reqs
<1>. DEFINE all == t.responding.requests
            h == Head(all)
            rest == Tail(all)
            left == IF rest = <<>> THEN NoResponse ELSE [t.responding EXCEPT !.requests = rest]
            u == Respond(t)
<1>1. t \in TLBs(Reqs) /\ Consistent(t) /\ Mapped(t) /\ OwnPage(t) /\ all # <<>>
      /\ t.responding.mapping \in Mappings
  BY DEF Sound, Responding, Mapped
<1>2. all \in Seq(Reqs) /\ t.responding \in Responses(Reqs)
  BY <1>1, Fields
<1>3. u = [t EXCEPT !.responding = left]
  <2>1. CASE rest = <<>>
    BY <2>1 DEF Respond
  <2>2. CASE rest # <<>>
    BY <2>2 DEF Respond
  <2>. QED BY <2>1, <2>2
<1>. HIDE DEF all
<1>4. /\ h \in Reqs /\ rest \in Seq(Reqs)
      /\ \A q : Times(all, q) = Times(rest, q) + (IF h = q THEN 1 ELSE 0)
  BY <1>1, <1>2, TimesTail
<1>. HIDE DEF h, rest, u
<1>5. /\ left \in Responses(Reqs) /\ left.requests = rest
      /\ left.requests # <<>> => left.mapping = t.responding.mapping
  <2>1. CASE rest = <<>>
    BY <1>4, <2>1 DEF NoResponse, Responses
  <2>2. CASE rest # <<>>
    BY <1>2, <1>4, <2>2 DEF Responses
  <2>. QED BY <2>1, <2>2
<1>. HIDE DEF left
<1>6. u \in TLBs(Reqs)
  BY <1>1, <1>3, <1>5 DEF TLBs
<1>7. /\ u.topIn = t.topIn /\ u.bottomIn = t.bottomIn /\ u.block = t.block /\ u.index = t.index
      /\ u.reserved = t.reserved /\ u.responding = left /\ u.mshr = t.mshr
  BY <1>1, <1>3 DEF TLBs
<1>8. SameOpen(t, u) /\ InTLB(u) = InTLB(t)
  BY <1>7 DEF SameOpen, Open, InTLB
<1>9. Consistent(u) /\ Mapped(u) /\ OwnPage(u)
  BY <1>1, <1>5, <1>7, <1>8 DEF Consistent, Indexed, Lent, Mapped, Responding, OwnPage
<1>10. ASSUME NEW q \in Reqs PROVE Held(u, q) = Held(t, q) - (IF q = h THEN 1 ELSE 0)
  <2>1. q.page \in Pages
    OBVIOUS
  <2>2. Times(t.responding.requests, q) = Times(u.responding.requests, q) + (IF h = q THEN 1 ELSE 0)
    BY <1>4, <1>5, <1>7 DEF all
  <2>3. Times(t.topIn, q) \in Nat /\ Times(t.mshr[q.page].requests, q) \in Nat
        /\ Times(u.responding.requests, q) \in Nat
    BY <1>1, <1>6, <2>1, HeldParts
  <2>4. u.mshr = t.mshr /\ u.topIn = t.topIn
    BY <1>7
  <2>. QED BY <2>2, <2>3, <2>4 DEF Held, Waiting
<1>. QED BY <1>1, <1>4, <1>6, <1>7, <1>8, <1>9, <1>10 DEF Sound, TakesHeld, u, h, all

(* handleInvalidateRange: it marks, and nobody waits for less. *)
LEMMA InvalidateSound ==
  ASSUME NEW Reqs, \A q \in Reqs : q.page \in Pages, NEW t, Sound(t, Reqs), NEW S
  PROVE  /\ Sound(InvalidateRange(t, S), Reqs) /\ SameHeld(t, InvalidateRange(t, S), Reqs)
         /\ SameOpen(t, InvalidateRange(t, S)) /\ InvalidateRange(t, S).bottomIn = t.bottomIn
<1>. DEFINE block == [w \in Ways |-> IF \E p \in S : t.index[p] = w
                                     THEN [t.block[w] EXCEPT !.valid = FALSE] ELSE t.block[w]]
            mshr == [p \in Pages |-> IF p \in S /\ Open(t, p)
                                     THEN [t.mshr[p] EXCEPT !.staleOnFill = TRUE] ELSE t.mshr[p]]
            u == InvalidateRange(t, S)
<1>1. t \in TLBs(Reqs) /\ Consistent(t) /\ Mapped(t) /\ OwnPage(t)
  BY DEF Sound
<1>2. t.block \in [Ways -> Blocks] /\ t.mshr \in [Pages -> Entries(Reqs)]
      /\ t.index \in [Pages -> Ways \cup {None}]
  BY <1>1, Fields
<1>3. u = [t EXCEPT !.block = block, !.mshr = mshr]
  BY DEF InvalidateRange
<1>4. /\ block \in [Ways -> Blocks]
      /\ \A w \in Ways : /\ block[w].page = t.block[w].page /\ block[w].mapping = t.block[w].mapping
                         /\ block[w].valid => t.block[w].valid
  BY <1>2 DEF Blocks
<1>5. /\ mshr \in [Pages -> Entries(Reqs)]
      /\ \A p \in Pages : mshr[p].requests = t.mshr[p].requests /\ mshr[p].way = t.mshr[p].way
  BY <1>2 DEF Entries
<1>. HIDE DEF block, mshr, u
<1>6. u \in TLBs(Reqs)
  BY <1>1, <1>3, <1>4, <1>5 DEF TLBs
<1>7. /\ u.topIn = t.topIn /\ u.bottomIn = t.bottomIn /\ u.block = block /\ u.index = t.index
      /\ u.reserved = t.reserved /\ u.responding = t.responding /\ u.mshr = mshr
  BY <1>1, <1>3 DEF TLBs
<1>8. SameOpen(t, u) /\ InTLB(u) = InTLB(t)
  BY <1>5, <1>7 DEF SameOpen, Open, InTLB
<1>9. Lent(u)
  <2>1. \A p \in InTLB(t) : u.mshr[p].way = t.mshr[p].way
    BY <1>5, <1>7 DEF InTLB
  <2>. QED BY <1>1, <1>7, <1>8, <2>1 DEF Consistent, Lent
<1>10. Indexed(u)
  <2>1. \A p \in Pages : t.index[p] # None => t.index[p] \in Ways
    BY <1>2
  <2>. QED BY <1>1, <1>4, <1>7, <2>1 DEF Consistent, Indexed
<1>11. Mapped(u) /\ OwnPage(u)
  BY <1>1, <1>4, <1>5, <1>7 DEF Mapped, Responding, OwnPage
<1>12. \A q \in Reqs : Held(u, q) = Held(t, q)
  BY <1>5, <1>7 DEF Held, Waiting
<1>. QED BY <1>6, <1>7, <1>8, <1>9, <1>10, <1>11, <1>12 DEF Sound, Consistent, SameHeld, u

-----------------------------------------------------------------------------
(* What comes from the neighbours.                                         *)

Answered        == [page : Pages, mapping : Mappings]
Asking(t, q)    == [t EXCEPT !.topIn = Append(t.topIn, q)]
Delivered(t, a) == [t EXCEPT !.bottomIn = Append(t.bottomIn, a)]

LEMMA SameSets ==
  ASSUME NEW t, Consistent(t), Mapped(t), OwnPage(t),
         NEW u, u.block = t.block, u.index = t.index, u.reserved = t.reserved,
         u.mshr = t.mshr, u.responding = t.responding
  PROVE  Consistent(u) /\ Mapped(u) /\ OwnPage(u) /\ SameOpen(t, u)
<1>1. SameOpen(t, u) /\ InTLB(u) = InTLB(t)
  BY DEF SameOpen, Open, InTLB
<1>2. Indexed(u)
  BY DEF Consistent, Indexed
<1>3. Lent(u)
  BY <1>1 DEF Consistent, Lent
<1>4. Mapped(u) /\ OwnPage(u)
  BY DEF Mapped, Responding, OwnPage
<1>. QED BY <1>1, <1>2, <1>3, <1>4 DEF Consistent

LEMMA AskSound ==
  ASSUME NEW Reqs, \A q \in Reqs : q.page \in Pages, NEW t, Sound(t, Reqs), NEW h \in Reqs,
         NEW u, u = Asking(t, h)
  PROVE  /\ Sound(u, Reqs) /\ \A q \in Reqs : Held(u, q) = Held(t, q) + (IF q = h THEN 1 ELSE 0)
         /\ SameOpen(t, u) /\ u.bottomIn = t.bottomIn
<1>. DEFINE new == Append(t.topIn, h)
<1>1. t \in TLBs(Reqs) /\ Consistent(t) /\ Mapped(t) /\ OwnPage(t)
  BY DEF Sound
<1>2. t.topIn \in Seq(Reqs)
  BY <1>1, Fields
<1>3. new \in Seq(Reqs) /\ \A q : Times(new, q) = Times(t.topIn, q) + (IF h = q THEN 1 ELSE 0)
  BY <1>2, AppendList
<1>. HIDE DEF new
<1>4. u = [t EXCEPT !.topIn = new]
  BY DEF new, Asking
<1>5. u \in TLBs(Reqs)
  BY <1>1, <1>3, <1>4 DEF TLBs
<1>6. /\ u.topIn = new /\ u.bottomIn = t.bottomIn /\ u.block = t.block /\ u.index = t.index
      /\ u.reserved = t.reserved /\ u.responding = t.responding /\ u.mshr = t.mshr
  BY <1>1, <1>4 DEF TLBs
<1>7. Consistent(u) /\ Mapped(u) /\ OwnPage(u) /\ SameOpen(t, u)
  BY <1>1, <1>6, SameSets
<1>9. ASSUME NEW q \in Reqs PROVE Held(u, q) = Held(t, q) + (IF q = h THEN 1 ELSE 0)
  <2>1. q.page \in Pages
    OBVIOUS
  <2>2. Times(u.topIn, q) = Times(t.topIn, q) + (IF h = q THEN 1 ELSE 0)
    BY <1>3, <1>6
  <2>3. Times(t.topIn, q) \in Nat /\ Times(t.mshr[q.page].requests, q) \in Nat
        /\ Times(t.responding.requests, q) \in Nat
    BY <1>1, <2>1, HeldParts
  <2>4. u.mshr = t.mshr /\ u.responding = t.responding
    BY <1>6
  <2>. QED BY <2>2, <2>3, <2>4 DEF Held, Waiting
<1>. QED BY <1>5, <1>6, <1>7, <1>9 DEF Sound

LEMMA DeliverSound ==
  ASSUME NEW Reqs, \A q \in Reqs : q.page \in Pages, NEW t, Sound(t, Reqs), NEW a \in Answered,
         NEW u, u = Delivered(t, a)
  PROVE  /\ Sound(u, Reqs) /\ SameHeld(t, u, Reqs) /\ SameOpen(t, u)
         /\ \A p \in Pages : Returned(u, p) = Returned(t, p) + (IF p = a.page THEN 1 ELSE 0)
<1>. DEFINE new == Append(t.bottomIn, a)
<1>1. t \in TLBs(Reqs) /\ Consistent(t) /\ Mapped(t) /\ OwnPage(t)
  BY DEF Sound
<1>2. t.bottomIn \in Seq(Answered)
  BY <1>1, Fields DEF Answered
<1>3. new \in Seq(Answered)
  BY <1>2
<1>4. ASSUME NEW p \in Pages
      PROVE  Cardinality({i \in 1..Len(new) : new[i].page = p})
               = Cardinality({i \in 1..Len(t.bottomIn) : t.bottomIn[i].page = p})
                   + (IF p = a.page THEN 1 ELSE 0)
  <2>. DEFINE S == {x \in Answered : x.page = p}
  <2>1. Count(new, S) = Count(t.bottomIn, S) + (IF a \in S THEN 1 ELSE 0)
    BY <1>2, CountAppend
  <2>2. {i \in 1..Len(new) : new[i].page = p} = {i \in 1..Len(new) : new[i] \in S}
    BY <1>3
  <2>3. {i \in 1..Len(t.bottomIn) : t.bottomIn[i].page = p}
          = {i \in 1..Len(t.bottomIn) : t.bottomIn[i] \in S}
    BY <1>2
  <2>4. a \in S <=> p = a.page
    OBVIOUS
  <2>. HIDE DEF S, new
  <2>. QED BY <2>1, <2>2, <2>3, <2>4 DEF Count
<1>. HIDE DEF new
<1>5. u = [t EXCEPT !.bottomIn = new]
  BY DEF new, Delivered
<1>6. u \in TLBs(Reqs)
  BY <1>1, <1>3, <1>5 DEF TLBs, Answered
<1>7. /\ u.topIn = t.topIn /\ u.bottomIn = new /\ u.block = t.block /\ u.index = t.index
      /\ u.reserved = t.reserved /\ u.responding = t.responding /\ u.mshr = t.mshr
  BY <1>1, <1>5 DEF TLBs
<1>8. Consistent(u) /\ Mapped(u) /\ OwnPage(u) /\ SameOpen(t, u)
  BY <1>1, <1>7, SameSets
<1>10. SameHeld(t, u, Reqs)
  BY <1>7 DEF SameHeld, Held, Waiting
<1>11. \A p \in Pages : Returned(u, p) = Returned(t, p) + (IF p = a.page THEN 1 ELSE 0)
  BY <1>4, <1>7 DEF Returned
<1>. QED BY <1>6, <1>8, <1>10, <1>11 DEF Sound

(* The next answer is taken from the port, or none is. *)
LEMMA ReturnedTail ==
  ASSUME NEW Reqs, NEW t \in TLBs(Reqs), NEW u, t.bottomIn # <<>>, u.bottomIn = Tail(t.bottomIn)
  PROVE  \A p \in Pages : Returned(t, p) = Returned(u, p) + (IF p = Head(t.bottomIn).page THEN 1 ELSE 0)
<1>. TAKE p \in Pages
<1>. DEFINE S == {x \in Answered : x.page = p}
            s == t.bottomIn
            rest == Tail(s)
            h == Head(s)
<1>1. s \in Seq(Answered)
  BY Fields DEF Answered
<1>. HIDE DEF s, S
<1>2. h \in Answered /\ rest \in Seq(Answered)
      /\ Count(s, S) = Count(rest, S) + (IF h \in S THEN 1 ELSE 0)
  BY <1>1, CountTail DEF s
<1>3. {i \in 1..Len(s) : s[i].page = p} = {i \in 1..Len(s) : s[i] \in S}
  BY <1>1 DEF S
<1>. HIDE DEF h, rest
<1>4. {i \in 1..Len(rest) : rest[i].page = p} = {i \in 1..Len(rest) : rest[i] \in S}
  BY <1>2 DEF S
<1>5. h \in S <=> p = h.page
  BY <1>2 DEF S
<1>6. u.bottomIn = rest
  BY DEF rest, s
<1>7. Returned(t, p) = Returned(u, p) + (IF p = h.page THEN 1 ELSE 0)
  BY <1>2, <1>3, <1>4, <1>5, <1>6 DEF Count, Returned, s
<1>. QED BY <1>7 DEF h, s

LEMMA ReturnedType ==
  ASSUME NEW Reqs, NEW t \in TLBs(Reqs), NEW p
  PROVE  Returned(t, p) \in Nat
<1>. DEFINE I == {i \in 1..Len(t.bottomIn) : t.bottomIn[i].page = p}
<1>1. t.bottomIn \in Seq(Answered)
  BY Fields DEF Answered
<1>2. IsFiniteSet(1..Len(t.bottomIn)) /\ I \subseteq 1..Len(t.bottomIn)
  BY <1>1, FS_Interval
<1>. QED BY <1>2, FS_Subset, FS_CardinalityType DEF Returned

-----------------------------------------------------------------------------
(* What a TLB has of a page whose data leave the GPU.                      *)

(* No local translation of the page is stored, and one that is on its way  *)
(* will not be.                                                            *)
Clean(t, p) ==
  /\ Found(t, p) => t.block[t.index[p]].mapping # "Local"
  /\ \A a \in Elements(t.bottomIn) : a.page = p /\ a.mapping = "Local" => t.mshr[p].staleOnFill

(* No answer has come: none is among those that have.                      *)
LEMMA ReturnedNone ==
  ASSUME NEW Reqs, NEW t \in TLBs(Reqs), NEW p, Returned(t, p) = 0
  PROVE  \A a \in Elements(t.bottomIn) : a.page # p
<1>. DEFINE S == {x \in Answered : x.page = p}
            s == t.bottomIn
<1>1. s \in Seq(Answered)
  BY Fields DEF Answered
<1>2. {i \in 1..Len(s) : s[i].page = p} = {i \in 1..Len(s) : s[i] \in S}
  BY <1>1
<1>3. \A a \in Elements(s) : a \in Answered /\ (a.page = p => a \in S)
  BY <1>1 DEF Elements
<1>. HIDE DEF S
<1>4. Count(s, S) = 0
  BY <1>2 DEF Count, Returned
<1>. HIDE DEF s
<1>5. Elements(s) \cap S = {}
  BY <1>1, <1>4, CountMarks
<1>6. \A a \in Elements(s) : a.page # p
  BY <1>3, <1>5
<1>. QED BY <1>6 DEF s

(* A TLB that changes neither what it has stored nor what it waits for.    *)
LEMMA CleanKept ==
  ASSUME NEW t, NEW u, NEW p \in Pages, Clean(t, p),
         u.index = t.index, u.block = t.block,
         Elements(u.bottomIn) \subseteq Elements(t.bottomIn),
         t.mshr[p].staleOnFill => u.mshr[p].staleOnFill
  PROVE  Clean(u, p)
BY DEF Clean, Found

LEMMA JoinClean ==
  ASSUME NEW Reqs, \A q \in Reqs : q.page \in Pages, NEW t, Sound(t, Reqs), JoinsEntry(t),
         NEW p \in Pages, Clean(t, p)
  PROVE  Clean(JoinEntry(t), p)
<1>. DEFINE h == Head(t.topIn).page
            u == JoinEntry(t)
            new == Append(t.mshr[h].requests, Head(t.topIn))
<1>1. t \in TLBs(Reqs) /\ t.mshr \in [Pages -> Entries(Reqs)]
  BY Fields DEF Sound
<1>2. u = [t EXCEPT !.mshr[h].requests = new, !.topIn = Tail(t.topIn)]
  BY DEF JoinEntry
<1>. HIDE DEF h, u, new
<1>3. u.index = t.index /\ u.block = t.block /\ u.bottomIn = t.bottomIn
      /\ u.mshr = [t.mshr EXCEPT ![h].requests = new]
  BY <1>1, <1>2 DEF TLBs
<1>4. u.mshr[p].staleOnFill = t.mshr[p].staleOnFill
  BY <1>1, <1>3 DEF Entries
<1>. QED BY <1>3, <1>4, CleanKept DEF u

LEMMA HitClean ==
  ASSUME NEW Reqs, NEW t \in TLBs(Reqs), NEW p \in Pages, Clean(t, p)
  PROVE  Clean(AnswerHit(t), p)
<1>. DEFINE u == AnswerHit(t)
<1>1. u.index = t.index /\ u.block = t.block /\ u.bottomIn = t.bottomIn /\ u.mshr = t.mshr
  BY DEF AnswerHit, Visit, TLBs
<1>. HIDE DEF u
<1>. QED BY <1>1, CleanKept DEF u

(* A page that gets an entry has no answer on its way.                     *)
LEMMA OpenClean ==
  ASSUME NEW Reqs, \A q \in Reqs : q.page \in Pages, NEW t, Sound(t, Reqs), Misses(t),
         NEW p \in Pages, Clean(t, p), p = Head(t.topIn).page => Returned(t, p) = 0
  PROVE  Clean(OpenEntry(t), p)
<1>. DEFINE h == Head(t.topIn).page
            w == IF MSHRFull(t) THEN Head(VisitList(t, h)) ELSE None
            t1 == IF w = None THEN t ELSE Reserve(t, w)
            entry == [requests |-> <<Head(t.topIn)>>, staleOnFill |-> FALSE, way |-> w]
            u == OpenEntry(t)
<1>1. t \in TLBs(Reqs) /\ Indexed(t) /\ t.mshr \in [Pages -> Entries(Reqs)]
      /\ (MSHRFull(t) => VisitList(t, h) # <<>>)
  BY Fields DEF Sound, Consistent, Misses, CanBorrow
<1>2. w = None \/ w \in Ways
  BY <1>1, Victim
<1>3. u = [t1 EXCEPT !.mshr[h] = entry, !.topIn = Tail(t1.topIn)]
  BY DEF OpenEntry
<1>. HIDE DEF h, w, entry
<1>4. /\ t1 \in TLBs(Reqs) /\ t1.bottomIn = t.bottomIn /\ t1.mshr = t.mshr
      /\ \/ t1.index = t.index /\ t1.block = t.block
         \/ /\ w \in Ways
            /\ t1.index = [x \in Pages |-> IF x = t.block[w].page THEN None ELSE t.index[x]]
            /\ t1.block = [t.block EXCEPT ![w] = Empty]
  <2>1. CASE w = None
    <3>1. t1 = t
      BY <2>1
    <3>. HIDE DEF t1
    <3>. QED BY <1>1, <3>1
  <2>2. CASE w # None
    <3>1. w \in Ways /\ t1 = Reserve(t, w)
      BY <1>2, <2>2
    <3>2. t1 = [t EXCEPT !.index = [x \in Pages |-> IF x = t.block[w].page THEN None ELSE t.index[x]],
                         !.block = [t.block EXCEPT ![w] = Empty],
                         !.reserved = t.reserved \cup {w}]
      BY <3>1 DEF Reserve
    <3>3. Mapped(t)
      BY DEF Sound
    <3>4. t1 \in TLBs(Reqs) /\ t1.bottomIn = t.bottomIn /\ t1.mshr = t.mshr
      <4>. HIDE DEF t1
      <4>. QED BY <1>1, <3>1, <3>3, ReserveKeeps
    <3>. HIDE DEF t1
    <3>. QED BY <1>1, <3>1, <3>2, <3>4 DEF TLBs
  <2>. QED BY <2>1, <2>2
<1>. HIDE DEF t1, u
<1>5. u.index = t1.index /\ u.block = t1.block /\ u.bottomIn = t.bottomIn
      /\ u.mshr = [t.mshr EXCEPT ![h] = entry]
  BY <1>3, <1>4 DEF TLBs
<1>6. Found(u, p) => Found(t, p) /\ u.block[u.index[p]].mapping = t.block[t.index[p]].mapping
  <2>1. t.index \in [Pages -> Ways \cup {None}] /\ t.block \in [Ways -> Blocks]
    BY <1>1, Fields
  <2>2. CASE t1.index = t.index /\ t1.block = t.block
    BY <1>5, <2>2 DEF Found
  <2>3. CASE /\ w \in Ways
             /\ t1.index = [x \in Pages |-> IF x = t.block[w].page THEN None ELSE t.index[x]]
             /\ t1.block = [t.block EXCEPT ![w] = Empty]
    <3>. SUFFICES ASSUME Found(u, p)
                  PROVE  Found(t, p) /\ u.block[u.index[p]].mapping = t.block[t.index[p]].mapping
      OBVIOUS
    <3>1. u.index[p] # None /\ u.index[p] = t.index[p] /\ p # t.block[w].page
      BY <1>5, <2>3 DEF Found
    <3>2. t.index[p] # w
      BY <1>1, <3>1 DEF Indexed
    <3>3. u.block[u.index[p]] = t.block[t.index[p]]
      BY <1>5, <2>1, <2>3, <3>1, <3>2
    <3>. QED BY <3>1, <3>3 DEF Found
  <2>. QED BY <1>4, <2>2, <2>3
<1>7. ASSUME NEW a \in Elements(u.bottomIn), a.page = p, a.mapping = "Local" PROVE u.mshr[p].staleOnFill
  <2>1. a \in Elements(t.bottomIn) /\ t.mshr[p].staleOnFill
    BY <1>5, <1>7 DEF Clean
  <2>2. p # h
    BY <1>1, <1>7, <2>1, ReturnedNone DEF h
  <2>. QED BY <1>1, <1>5, <2>1, <2>2
<1>8. Clean(u, p)
  BY <1>6, <1>7 DEF Clean
<1>. QED BY <1>8 DEF u

(* What is stored for one page takes the way of another one, or nothing    *)
(* changes for it.                                                         *)
LEMMA StoreClean ==
  ASSUME NEW Reqs, NEW t \in TLBs(Reqs), NEW w \in Ways, NEW x \in Pages, NEW mapping \in Mappings,
         Indexed(t), NEW p \in Pages, Found(Store(t, w, x, mapping), p)
  PROVE  LET u == Store(t, w, x, mapping)
         IN  \/ p = x /\ u.block[u.index[p]].mapping = mapping
             \/ Found(t, p) /\ u.block[u.index[p]].mapping = t.block[t.index[p]].mapping
<1>. DEFINE new == [page |-> x, mapping |-> mapping, valid |-> TRUE]
            index == [y \in Pages |-> IF y = x THEN w
                                      ELSE IF y = t.block[w].page THEN None ELSE t.index[y]]
            block == [t.block EXCEPT ![w] = new]
            u1 == [t EXCEPT !.index = index, !.block = block]
            u  == Store(t, w, x, mapping)
<1>1. u = Visit(u1, w)
  BY DEF Store, Update
<1>2. t.index \in [Pages -> Ways \cup {None}] /\ t.block \in [Ways -> Blocks]
  BY Fields
<1>. HIDE DEF new, index, block
<1>3. u.index = index /\ u.block = block
  BY <1>1 DEF Visit, TLBs
<1>. HIDE DEF u
<1>4. Found(u, p)
  BY DEF u
<1>5. CASE p = x
  <2>1. u.index[p] = w /\ u.block[w] = new
    BY <1>2, <1>3, <1>5 DEF index, block
  <2>. QED BY <1>5, <2>1 DEF new, u
<1>6. CASE p # x
  <2>1. u.index[p] = t.index[p] /\ t.index[p] # None /\ p # t.block[w].page
    BY <1>3, <1>4, <1>6 DEF index, Found
  <2>2. t.index[p] # w
    BY <2>1 DEF Indexed
  <2>3. u.block[u.index[p]] = t.block[t.index[p]]
    BY <1>2, <1>3, <2>1, <2>2 DEF block
  <2>. QED BY <1>4, <2>1, <2>3 DEF Found, u
<1>. QED BY <1>5, <1>6

(* An answer is stored, or not; if it is local, it is not stale.           *)
LEMMA InstallClean ==
  ASSUME NEW Reqs, NEW t \in TLBs(Reqs), NEW x \in Pages, NEW mapping \in Mappings,
         Indexed(t), NEW p \in Pages, Found(InstallFilledPage(t, x, mapping), p)
  PROVE  LET u == InstallFilledPage(t, x, mapping)
         IN  \/ p = x /\ u.block[u.index[p]].mapping = mapping /\ ~t.mshr[x].staleOnFill
             \/ Found(t, p) /\ u.block[u.index[p]].mapping = t.block[t.index[p]].mapping
<1>. DEFINE w  == t.mshr[x].way
            stored == mapping \in t.admits /\ ~t.mshr[x].staleOnFill
            t1 == Release(t, w)
            u  == InstallFilledPage(t, x, mapping)
            free == VisitList(t, x)
<1>1. w \in Ways \cup {None}
  BY Fields
<1>2. CASE w # None
  <2>1. u = IF stored THEN Store(t1, w, x, mapping) ELSE t1
    BY <1>2 DEF InstallFilledPage
  <2>. HIDE DEF u, w
  <2>2. t1 \in TLBs(Reqs) /\ t1.block = t.block /\ t1.index = t.index
    BY DEF Release, TLBs
  <2>. HIDE DEF t1
  <2>3. Indexed(t1) /\ (Found(t1, p) <=> Found(t, p))
    BY <2>2 DEF Indexed, Found
  <2>4. CASE stored
    <3>1. w \in Ways /\ u = Store(t1, w, x, mapping)
      BY <1>1, <1>2, <2>1, <2>4
    <3>2. Found(Store(t1, w, x, mapping), p)
      BY <3>1 DEF u
    <3>3. \/ p = x /\ u.block[u.index[p]].mapping = mapping
          \/ Found(t1, p) /\ u.block[u.index[p]].mapping = t1.block[t1.index[p]].mapping
      BY <2>2, <2>3, <3>1, <3>2, StoreClean
    <3>. QED BY <2>2, <2>3, <2>4, <3>3 DEF u
  <2>5. CASE ~stored
    <3>1. u = t1
      BY <2>1, <2>5
    <3>2. Found(t1, p)
      BY <3>1 DEF u
    <3>. QED BY <2>2, <2>3, <3>1, <3>2 DEF u
  <2>. QED BY <2>4, <2>5
<1>3. CASE w = None
  <2>1. u = IF stored /\ free # <<>> THEN Store(t, Head(free), x, mapping) ELSE t
    BY <1>3 DEF InstallFilledPage
  <2>. HIDE DEF u, w
  <2>2. CASE stored /\ free # <<>>
    <3>1. Head(free) \in Ways
      BY <2>2, Victim
    <3>. HIDE DEF free
    <3>2. u = Store(t, Head(free), x, mapping)
      BY <2>1, <2>2
    <3>3. Found(Store(t, Head(free), x, mapping), p)
      BY <3>2 DEF u
    <3>4. \/ p = x /\ u.block[u.index[p]].mapping = mapping
          \/ Found(t, p) /\ u.block[u.index[p]].mapping = t.block[t.index[p]].mapping
      BY <3>1, <3>2, <3>3, StoreClean
    <3>. QED BY <2>2, <3>4 DEF u
  <2>3. CASE ~(stored /\ free # <<>>)
    <3>1. u = t
      BY <2>1, <2>3
    <3>2. Found(t, p)
      BY <3>1 DEF u
    <3>. QED BY <3>1, <3>2 DEF u
  <2>. QED BY <2>2, <2>3
<1>. QED BY <1>2, <1>3

(* parseBottom: the answer that comes is the only one to its page, so what *)
(* its entry knows of an invalidation is not needed any more.              *)
LEMMA FillClean ==
  ASSUME NEW Reqs, \A q \in Reqs : q.page \in Pages, NEW t, Sound(t, Reqs), CanParseBottom(t),
         NEW p \in Pages, Clean(t, p), Returned(t, p) <= 1
  PROVE  Clean(ParseBottom(t), p)
<1>. DEFINE a == Head(t.bottomIn)
            rest == Tail(t.bottomIn)
            x == a.page
            mapping == a.mapping
            t0 == [t EXCEPT !.bottomIn = rest]
            t1 == InstallFilledPage(t0, x, mapping)
            answer == [requests |-> t.mshr[x].requests, mapping |-> mapping]
            u == ParseBottom(t)
<1>1. t \in TLBs(Reqs) /\ Indexed(t) /\ Mapped(t) /\ t.bottomIn # <<>> /\ t.mshr \in [Pages -> Entries(Reqs)]
  BY Fields DEF Sound, Consistent, CanParseBottom
<1>2. a \in Answered /\ rest \in Seq(Answered) /\ Elements(t.bottomIn) = {a} \cup Elements(rest)
  <2>1. t.bottomIn \in Seq(Answered)
    BY <1>1, Fields DEF Answered
  <2>2. a \in Answered /\ rest \in Seq(Answered) /\ <<a>> \in Seq(Answered) /\ t.bottomIn = <<a>> \o rest
    BY <1>1, <2>1
  <2>3. Elements(<<a>> \o rest) = Elements(<<a>>) \cup Elements(rest)
    BY <2>2, ElementsConcat, ZenonT(60)
  <2>4. Elements(<<a>>) = {a}
    BY DEF Elements
  <2>. QED BY <2>2, <2>3, <2>4
<1>3. x \in Pages /\ mapping \in Mappings
  BY <1>2 DEF Answered
<1>4. u = IF Open(t, x) THEN [t1 EXCEPT !.mshr[x] = NoEntry, !.responding = answer] ELSE t0
  BY DEF ParseBottom
<1>5. a.page = x /\ a.mapping = mapping /\ x = Head(t.bottomIn).page /\ rest = Tail(t.bottomIn)
  OBVIOUS
<1>. HIDE DEF a, rest, x, mapping
<1>6. /\ t0 \in TLBs(Reqs) /\ t0.bottomIn = rest /\ t0.mshr = t.mshr
      /\ t0.block = t.block /\ t0.index = t.index
  BY <1>1, <1>2 DEF TLBs, Answered
<1>. HIDE DEF t0
<1>7. Indexed(t0) /\ Mapped(t0) /\ (Found(t0, p) <=> Found(t, p))
  <2>1. t0.responding = t.responding
    BY <1>1 DEF t0, TLBs
  <2>. QED BY <1>1, <1>6, <2>1 DEF Indexed, Mapped, Responding, Found
<1>8. CASE ~Open(t, x)
  <2>1. u = t0
    BY <1>4, <1>8
  <2>2. Clean(u, p)
    BY <1>2, <1>6, <2>1, CleanKept
  <2>. QED BY <2>2 DEF u
<1>9. CASE Open(t, x)
  <2>1. u = [t1 EXCEPT !.mshr[x] = NoEntry, !.responding = answer]
    BY <1>4, <1>9
  <2>2. t1 \in TLBs(Reqs) /\ t1.bottomIn = rest /\ t1.mshr = t.mshr
    BY <1>3, <1>6, <1>7, InstallKeeps
  <2>3. Found(t1, p) => \/ p = x /\ t1.block[t1.index[p]].mapping = mapping /\ ~t.mshr[x].staleOnFill
                        \/ Found(t, p) /\ t1.block[t1.index[p]].mapping = t.block[t.index[p]].mapping
    <3>. SUFFICES ASSUME Found(t1, p)
                  PROVE  \/ p = x /\ t1.block[t1.index[p]].mapping = mapping /\ ~t.mshr[x].staleOnFill
                         \/ Found(t, p) /\ t1.block[t1.index[p]].mapping = t.block[t.index[p]].mapping
      OBVIOUS
    <3>1. \/ p = x /\ t1.block[t1.index[p]].mapping = mapping /\ ~t0.mshr[x].staleOnFill
          \/ Found(t0, p) /\ t1.block[t1.index[p]].mapping = t0.block[t0.index[p]].mapping
      BY <1>3, <1>6, <1>7, InstallClean
    <3>. HIDE DEF t1
    <3>. QED BY <1>6, <1>7, <3>1
  <2>. HIDE DEF t1, u, answer
  <2>4. u.index = t1.index /\ u.block = t1.block /\ u.bottomIn = rest
        /\ u.mshr = [t.mshr EXCEPT ![x] = NoEntry]
    BY <2>1, <2>2 DEF TLBs
  <2>5. ASSUME Found(u, p) PROVE u.block[u.index[p]].mapping # "Local"
    <3>1. Found(t1, p)
      BY <2>4, <2>5 DEF Found
    <3>2. CASE p = x /\ t1.block[t1.index[p]].mapping = mapping /\ ~t.mshr[x].staleOnFill
      <4>1. a \in Elements(t.bottomIn)
        BY <1>2
      <4>2. mapping # "Local"
        BY <1>5, <3>2, <4>1 DEF Clean
      <4>. QED BY <2>4, <3>2, <4>2
    <3>3. CASE Found(t, p) /\ t1.block[t1.index[p]].mapping = t.block[t.index[p]].mapping
      BY <2>4, <3>3 DEF Clean
    <3>. QED BY <2>3, <3>1, <3>2, <3>3
  <2>6. ASSUME NEW b \in Elements(u.bottomIn), b.page = p, b.mapping = "Local" PROVE u.mshr[p].staleOnFill
    <3>1. b \in Elements(t.bottomIn) /\ t.mshr[p].staleOnFill
      BY <1>2, <2>4, <2>6 DEF Clean
    <3>2. ASSUME p = x PROVE FALSE
      <4>1. u.bottomIn = Tail(t.bottomIn)
        BY <1>5, <2>4
      <4>2. Returned(t, p) = Returned(u, p) + 1
        BY <1>1, <1>5, <3>2, <4>1, ReturnedTail
      <4>3. Returned(t0, p) = Returned(u, p)
        BY <1>6, <2>4 DEF Returned
      <4>4. Returned(t, p) \in Nat /\ Returned(t0, p) \in Nat
        BY <1>1, <1>6, ReturnedType
      <4>5. Returned(t0, p) = 0
        BY <4>2, <4>3, <4>4
      <4>6. \A y \in Elements(t0.bottomIn) : y.page # p
        BY <1>6, <4>5, ReturnedNone
      <4>. QED BY <1>6, <2>4, <2>6, <4>6
    <3>. QED BY <1>1, <2>4, <3>1, <3>2
  <2>7. Clean(u, p)
    BY <2>5, <2>6 DEF Clean
  <2>. QED BY <2>7 DEF u
<1>. QED BY <1>8, <1>9

LEMMA RespondClean ==
  ASSUME NEW Reqs, NEW t \in TLBs(Reqs), NEW p \in Pages, Clean(t, p)
  PROVE  Clean(Respond(t), p)
<1>. DEFINE u == Respond(t)
<1>1. u.index = t.index /\ u.block = t.block /\ u.bottomIn = t.bottomIn /\ u.mshr = t.mshr
  BY DEF Respond, TLBs
<1>. HIDE DEF u
<1>. QED BY <1>1, CleanKept DEF u

(* A range invalidation cleans the pages of the range, if every answer on  *)
(* its way is awaited, and leaves the others as they were.                 *)
LEMMA InvalidateClean ==
  ASSUME NEW Reqs, NEW t \in TLBs(Reqs), NEW S, NEW p \in Pages,
         Clean(t, p) \/ (p \in S /\ (~Open(t, p) => Returned(t, p) = 0))
  PROVE  Clean(InvalidateRange(t, S), p)
<1>. DEFINE block == [w \in Ways |-> IF \E x \in S : t.index[x] = w
                                     THEN [t.block[w] EXCEPT !.valid = FALSE] ELSE t.block[w]]
            mshr == [x \in Pages |-> IF x \in S /\ Open(t, x)
                                     THEN [t.mshr[x] EXCEPT !.staleOnFill = TRUE] ELSE t.mshr[x]]
            u == InvalidateRange(t, S)
<1>1. t.block \in [Ways -> Blocks] /\ t.mshr \in [Pages -> Entries(Reqs)]
      /\ t.index \in [Pages -> Ways \cup {None}]
  BY Fields
<1>2. u = [t EXCEPT !.block = block, !.mshr = mshr]
  BY DEF InvalidateRange
<1>3. \A w \in Ways : /\ block[w].mapping = t.block[w].mapping
                      /\ block[w].valid => t.block[w].valid /\ ~\E x \in S : t.index[x] = w
  BY <1>1 DEF Blocks
<1>4. mshr[p].staleOnFill <=> t.mshr[p].staleOnFill \/ (p \in S /\ Open(t, p))
  BY <1>1 DEF Entries
<1>. HIDE DEF block, mshr, u
<1>5. u.bottomIn = t.bottomIn /\ u.block = block /\ u.index = t.index /\ u.mshr = mshr
  BY <1>2 DEF TLBs
<1>6. Found(u, p) => Found(t, p) /\ p \notin S /\ u.block[u.index[p]].mapping = t.block[t.index[p]].mapping
  <2>. SUFFICES ASSUME Found(u, p)
                PROVE  Found(t, p) /\ p \notin S /\ u.block[u.index[p]].mapping = t.block[t.index[p]].mapping
    OBVIOUS
  <2>1. t.index[p] \in Ways /\ block[t.index[p]].valid
    BY <1>1, <1>5 DEF Found
  <2>. QED BY <1>3, <1>5, <2>1, NoneIsNew DEF Found
<1>7. Clean(u, p)
  <2>1. CASE Clean(t, p)
    BY <1>4, <1>5, <1>6, <2>1 DEF Clean
  <2>2. CASE p \in S /\ (~Open(t, p) => Returned(t, p) = 0)
    <3>1. CASE Open(t, p)
      BY <1>4, <1>5, <1>6, <2>2, <3>1 DEF Clean
    <3>2. CASE ~Open(t, p)
      <4>1. \A a \in Elements(t.bottomIn) : a.page # p
        BY <2>2, <3>2, ReturnedNone
      <4>. QED BY <1>5, <1>6, <2>2, <4>1 DEF Clean
    <3>. QED BY <3>1, <3>2
  <2>. QED BY <2>1, <2>2
<1>. QED BY <1>7 DEF u

(* Requests do not matter, nor answers that are not local. *)
LEMMA AskClean ==
  ASSUME NEW Reqs, NEW t \in TLBs(Reqs), NEW h, NEW p \in Pages, Clean(t, p)
  PROVE  Clean(Asking(t, h), p)
<1>. DEFINE u == Asking(t, h)
<1>1. u.index = t.index /\ u.block = t.block /\ u.bottomIn = t.bottomIn /\ u.mshr = t.mshr
  BY DEF Asking, TLBs
<1>. HIDE DEF u
<1>. QED BY <1>1, CleanKept DEF u

LEMMA DeliverClean ==
  ASSUME NEW Reqs, NEW t \in TLBs(Reqs), NEW a \in Answered, NEW p \in Pages, Clean(t, p),
         a.page # p \/ a.mapping # "Local"
  PROVE  Clean(Delivered(t, a), p)
<1>. DEFINE u == Delivered(t, a)
            new == Append(t.bottomIn, a)
<1>1. u.index = t.index /\ u.block = t.block /\ u.bottomIn = new /\ u.mshr = t.mshr
  BY DEF Delivered, TLBs
<1>2. t.bottomIn \in Seq(Answered)
  BY Fields DEF Answered
<1>3. Elements(new) = Elements(t.bottomIn) \cup {a}
  BY <1>2, AppendList
<1>. HIDE DEF u, new
<1>4. Clean(u, p)
  BY <1>1, <1>3 DEF Clean, Found
<1>. QED BY <1>4 DEF u

-----------------------------------------------------------------------------
(* The GMMU.                                                               *)

(* How often the GMMU has a translation of a page: waiting for the walker, *)
(* with it, or in the replay queue.                                        *)
Walked(g, p) ==
  Times(g.topIn, p)
    + Cardinality({w \in g.walking : w.page = p})
    + Cardinality({i \in 1..Len(g.replayQueue) : g.replayQueue[i].page = p})

SameWalked(g, h) == \A p \in Pages : Walked(h, p) = Walked(g, p)

ForPage(p) == {walk \in Walks : walk.page = p}

-----------------------------------------------------------------------------
LEMMA GMMUFields ==
  ASSUME NEW g \in GMMUs
  PROVE  /\ g.topIn \in Seq(Pages) /\ g.walking \in SUBSET Walks /\ g.replayQueue \in Seq(Walks)
         /\ g.uvmIn \in Seq(UVMCommands) /\ g.uvmOut \in Seq(UVMMessages)
         /\ g.invalidating \in Regions \cup {None} /\ g.toInvalidate \in SUBSET TLBNames
BY DEF GMMUs

LEMMA InitialGMMUType ==
  InitialGMMU \in GMMUs /\ \A p \in Pages : Walked(InitialGMMU, p) = 0
<1>1. InitialGMMU \in GMMUs
  BY DEF InitialGMMU, GMMUs
<1>2. ASSUME NEW p \in Pages PROVE Walked(InitialGMMU, p) = 0
  <2>1. /\ {w \in InitialGMMU.walking : w.page = p} = {}
        /\ {i \in 1..Len(InitialGMMU.replayQueue) : InitialGMMU.replayQueue[i].page = p} = {}
    BY DEF InitialGMMU
  <2>2. InitialGMMU.topIn = <<>>
    BY DEF InitialGMMU
  <2>3. Times(InitialGMMU.topIn, p) = 0 /\ Cardinality({}) = 0
    BY <2>2, TimesNone, FS_EmptySet
  <2>4. Walked(InitialGMMU, p) = 0 + 0 + 0
    BY <2>1, <2>3, Zenon DEF Walked
  <2>. QED BY <2>4
<1>. QED BY <1>1, <1>2

(* Translations of one page in a set: at most two differ. *)
LEMMA OnPage ==
  ASSUME NEW W \in SUBSET Walks, NEW p \in Pages
  PROVE  /\ IsFiniteSet({w \in W : w.page = p}) /\ Cardinality({w \in W : w.page = p}) \in Nat
         /\ Cardinality({w \in W : w.page = p}) = 0 <=> \A w \in W : w.page # p
<1>. DEFINE P == {w \in W : w.page = p}
            fresh == [page |-> p, refaulted |-> FALSE]
            again == [page |-> p, refaulted |-> TRUE]
<1>1. \A w \in Walks : w.page = p => w = fresh \/ w = again
  BY DEF Walks
<1>2. P \subseteq {fresh} \cup {again}
  BY <1>1
<1>. HIDE DEF fresh, again
<1>3. IsFiniteSet({fresh} \cup {again})
  BY FS_Singleton, FS_AddElement
<1>4. IsFiniteSet(P)
  BY <1>2, <1>3, FS_Subset
<1>5. Cardinality(P) \in Nat /\ (Cardinality(P) = 0 <=> P = {})
  BY <1>4, FS_CardinalityType, FS_EmptySet
<1>6. P = {} <=> \A w \in W : w.page # p
  OBVIOUS
<1>. QED BY <1>4, <1>5, <1>6

LEMMA OnPageRemove ==
  ASSUME NEW W \in SUBSET Walks, NEW p \in Pages, NEW walk \in W
  PROVE  Cardinality({w \in W \ {walk} : w.page = p})
           = Cardinality({w \in W : w.page = p}) - (IF p = walk.page THEN 1 ELSE 0)
<1>. DEFINE P == {w \in W : w.page = p}
<1>1. {w \in W \ {walk} : w.page = p} = P \ {walk}
  OBVIOUS
<1>2. IsFiniteSet(P) /\ Cardinality(P) \in Nat
  BY OnPage
<1>3. walk \in P <=> p = walk.page
  OBVIOUS
<1>. HIDE DEF P
<1>4. Cardinality(P \ {walk}) = IF walk \in P THEN Cardinality(P) - 1 ELSE Cardinality(P)
  BY <1>2, FS_RemoveElement
<1>5. Cardinality(P \ {walk}) = Cardinality(P) - (IF p = walk.page THEN 1 ELSE 0)
  BY <1>2, <1>3, <1>4
<1>. QED BY <1>1, <1>5 DEF P

LEMMA OnPageAdd ==
  ASSUME NEW W \in SUBSET Walks, NEW p \in Pages, NEW walk \in Walks, walk \notin W
  PROVE  Cardinality({w \in W \cup {walk} : w.page = p})
           = Cardinality({w \in W : w.page = p}) + (IF p = walk.page THEN 1 ELSE 0)
<1>. DEFINE P == {w \in W : w.page = p}
            Q == {w \in W \cup {walk} : w.page = p}
<1>1. IsFiniteSet(P) /\ Cardinality(P) \in Nat
  BY OnPage
<1>2. walk \notin P
  OBVIOUS
<1>3. Q = IF p = walk.page THEN P \cup {walk} ELSE P
  OBVIOUS
<1>. HIDE DEF P, Q
<1>4. Cardinality(Q) = Cardinality(P) + (IF p = walk.page THEN 1 ELSE 0)
  BY <1>1, <1>2, <1>3, FS_AddElement, SMTT(30)
<1>. QED BY <1>4 DEF P, Q

LEMMA OnQueue ==
  ASSUME NEW s \in Seq(Walks), NEW p \in Pages
  PROVE  /\ Cardinality({i \in 1..Len(s) : s[i].page = p}) = Count(s, ForPage(p))
         /\ Count(s, ForPage(p)) \in Nat
         /\ \A walk \in Walks : walk \in ForPage(p) <=> p = walk.page
         /\ \A i \in 1..Len(s) : s[i].page = p => Count(s, ForPage(p)) # 0
<1>1. \A i \in 1..Len(s) : s[i].page = p <=> s[i] \in ForPage(p)
  BY DEF ForPage
<1>2. {i \in 1..Len(s) : s[i].page = p} = {i \in 1..Len(s) : s[i] \in ForPage(p)}
  BY <1>1 DEF ForPage
<1>3. \A walk \in Walks : walk \in ForPage(p) <=> p = walk.page
  BY DEF ForPage
<1>4. Count(s, ForPage(p)) \in Nat /\ (Count(s, ForPage(p)) = 0 <=> Elements(s) \cap ForPage(p) = {})
  BY CountMarks
<1>5. \A i \in 1..Len(s) : s[i].page = p => s[i] \in Elements(s) \cap ForPage(p)
  BY <1>1 DEF Elements
<1>. QED BY <1>2, <1>3, <1>4, <1>5 DEF Count

LEMMA WalkedParts ==
  ASSUME NEW g \in GMMUs, NEW p \in Pages
  PROVE  /\ Times(g.topIn, p) \in Nat /\ Count(g.replayQueue, ForPage(p)) \in Nat
         /\ Cardinality({w \in g.walking : w.page = p}) \in Nat
         /\ Walked(g, p) = Times(g.topIn, p) + Cardinality({w \in g.walking : w.page = p})
                             + Count(g.replayQueue, ForPage(p))
         /\ Walked(g, p) \in Nat
<1>1. Times(g.topIn, p) \in Nat
  BY GMMUFields, TimesType
<1>2. Cardinality({w \in g.walking : w.page = p}) \in Nat
  BY GMMUFields, OnPage
<1>3. /\ Cardinality({i \in 1..Len(g.replayQueue) : g.replayQueue[i].page = p})
           = Count(g.replayQueue, ForPage(p))
      /\ Count(g.replayQueue, ForPage(p)) \in Nat
  BY GMMUFields, OnQueue
<1>. QED BY <1>1, <1>2, <1>3 DEF Walked

-----------------------------------------------------------------------------
(* Walks.                                                                  *)

Walking(g, p) == [g EXCEPT !.topIn = Append(g.topIn, p)]

LEMMA AskGMMU ==
  ASSUME NEW g \in GMMUs, NEW x \in Pages, NEW h, h = Walking(g, x)
  PROVE  /\ h \in GMMUs
         /\ \A p \in Pages : Walked(h, p) = Walked(g, p) + (IF p = x THEN 1 ELSE 0)
<1>. DEFINE new == Append(g.topIn, x)
<1>1. new \in Seq(Pages) /\ \A p : Times(new, p) = Times(g.topIn, p) + (IF x = p THEN 1 ELSE 0)
  BY GMMUFields, AppendList
<1>. HIDE DEF new
<1>2. h = [g EXCEPT !.topIn = new]
  BY DEF new, Walking
<1>3. h \in GMMUs /\ h.topIn = new /\ h.walking = g.walking /\ h.replayQueue = g.replayQueue
  BY <1>1, <1>2 DEF GMMUs
<1>4. ASSUME NEW p \in Pages PROVE Walked(h, p) = Walked(g, p) + (IF p = x THEN 1 ELSE 0)
  <2>1. Times(g.topIn, p) \in Nat /\ Cardinality({w \in g.walking : w.page = p}) \in Nat
        /\ Count(g.replayQueue, ForPage(p)) \in Nat
        /\ Walked(g, p) = Times(g.topIn, p) + Cardinality({w \in g.walking : w.page = p})
                             + Count(g.replayQueue, ForPage(p))
    BY WalkedParts
  <2>2. Walked(h, p) = Times(new, p) + Cardinality({w \in g.walking : w.page = p})
                             + Count(g.replayQueue, ForPage(p))
    BY <1>3, WalkedParts
  <2>3. Times(new, p) = Times(g.topIn, p) + (IF p = x THEN 1 ELSE 0)
    BY <1>1
  <2>. QED BY <2>1, <2>2, <2>3
<1>. QED BY <1>3, <1>4

(* parseFromTop: the walker has no translation of a page that is asked for *)
(* once.                                                                   *)
LEMMA StartWalkSound ==
  ASSUME NEW g \in GMMUs, CanWalk(g), \A p \in Pages : Walked(g, p) <= 1
  PROVE  StartWalk(g) \in GMMUs /\ SameWalked(g, StartWalk(g))
<1>. DEFINE h == StartWalk(g)
            x == Head(g.topIn)
            rest == Tail(g.topIn)
            walk == [page |-> x, refaulted |-> FALSE]
<1>1. /\ x \in Pages /\ rest \in Seq(Pages)
      /\ \A p : Times(g.topIn, p) = Times(rest, p) + (IF x = p THEN 1 ELSE 0)
      /\ \A p : Times(rest, p) \in Nat
  <2>1. g.topIn \in Seq(Pages) /\ g.topIn # <<>>
    BY GMMUFields DEF CanWalk
  <2>2. /\ x \in Pages /\ rest \in Seq(Pages)
        /\ \A p : Times(g.topIn, p) = Times(rest, p) + (IF x = p THEN 1 ELSE 0)
    BY <2>1, TimesTail
  <2>. QED BY <2>2, TimesType
<1>2. h = [g EXCEPT !.walking = g.walking \cup {walk}, !.topIn = rest]
  BY DEF StartWalk
<1>3. walk \in Walks /\ walk.page = x
  BY <1>1 DEF Walks
<1>. HIDE DEF x, rest, h, walk
<1>4. h \in GMMUs /\ h.topIn = rest /\ h.walking = g.walking \cup {walk} /\ h.replayQueue = g.replayQueue
  BY <1>1, <1>2, <1>3 DEF GMMUs
<1>5. walk \notin g.walking
  <2>1. /\ Times(g.topIn, x) \in Nat /\ Cardinality({w \in g.walking : w.page = x}) \in Nat
        /\ Count(g.replayQueue, ForPage(x)) \in Nat /\ Walked(g, x) <= 1
        /\ Walked(g, x) = Times(g.topIn, x) + Cardinality({w \in g.walking : w.page = x})
                             + Count(g.replayQueue, ForPage(x))
    BY <1>1, WalkedParts
  <2>2. Times(g.topIn, x) >= 1
    BY <1>1
  <2>3. Cardinality({w \in g.walking : w.page = x}) = 0
    BY <2>1, <2>2
  <2>. QED BY <1>1, <1>3, <2>3, GMMUFields, OnPage
<1>6. ASSUME NEW p \in Pages PROVE Walked(h, p) = Walked(g, p)
  <2>. DEFINE before == Cardinality({w \in g.walking : w.page = p})
              after  == Cardinality({w \in g.walking \cup {walk} : w.page = p})
  <2>1. Times(g.topIn, p) \in Nat /\ before \in Nat /\ Count(g.replayQueue, ForPage(p)) \in Nat
        /\ Walked(g, p) = Times(g.topIn, p) + before + Count(g.replayQueue, ForPage(p))
    BY WalkedParts
  <2>2. Walked(h, p) = Times(rest, p) + after + Count(g.replayQueue, ForPage(p))
    BY <1>4, WalkedParts
  <2>3. after = before + (IF p = x THEN 1 ELSE 0)
    BY <1>3, <1>5, GMMUFields, OnPageAdd, SMTT(30)
  <2>4. Times(g.topIn, p) = Times(rest, p) + (IF p = x THEN 1 ELSE 0) /\ Times(rest, p) \in Nat
    BY <1>1
  <2>. HIDE DEF before, after
  <2>. QED BY <2>1, <2>2, <2>3, <2>4
<1>. QED BY <1>4, <1>6 DEF SameWalked, h

(* A walk is over. *)
LEMMA EndWalkSound ==
  ASSUME NEW g \in GMMUs, NEW walk \in g.walking
  PROVE  /\ EndWalk(g, walk) \in GMMUs /\ walk.page \in Pages
         /\ \A p \in Pages : Walked(EndWalk(g, walk), p) = Walked(g, p) - (IF p = walk.page THEN 1 ELSE 0)
<1>. DEFINE h == EndWalk(g, walk)
<1>1. h = [g EXCEPT !.walking = g.walking \ {walk}]
  BY DEF EndWalk
<1>. HIDE DEF h
<1>2. walk \in Walks /\ walk.page \in Pages
  BY GMMUFields DEF Walks
<1>3. h \in GMMUs /\ h.topIn = g.topIn /\ h.walking = g.walking \ {walk} /\ h.replayQueue = g.replayQueue
  BY <1>1 DEF GMMUs
<1>4. ASSUME NEW p \in Pages
      PROVE  Walked(h, p) = Walked(g, p) - (IF p = walk.page THEN 1 ELSE 0)
  <2>. DEFINE before == Cardinality({w \in g.walking : w.page = p})
              after  == Cardinality({w \in g.walking \ {walk} : w.page = p})
  <2>1. Times(g.topIn, p) \in Nat /\ before \in Nat /\ Count(g.replayQueue, ForPage(p)) \in Nat
        /\ Walked(g, p) = Times(g.topIn, p) + before + Count(g.replayQueue, ForPage(p))
    BY WalkedParts
  <2>2. Walked(h, p) = Times(g.topIn, p) + after + Count(g.replayQueue, ForPage(p))
    BY <1>3, WalkedParts
  <2>3. after = before - (IF p = walk.page THEN 1 ELSE 0)
    BY GMMUFields, OnPageRemove, ZenonT(60)
  <2>. HIDE DEF before, after
  <2>. QED BY <2>1, <2>2, <2>3
<1>. QED BY <1>2, <1>3, <1>4 DEF h

(* sendUVMFault: from the walker to the replay queue. *)
LEMMA SendFaultSound ==
  ASSUME NEW g \in GMMUs, NEW walk \in g.walking
  PROVE  SendUVMFault(g, walk) \in GMMUs /\ SameWalked(g, SendUVMFault(g, walk))
<1>. DEFINE h == SendUVMFault(g, walk)
            fault == [kind |-> "Fault", page |-> walk.page]
            queue == Append(g.replayQueue, walk)
            out == Append(g.uvmOut, fault)
<1>1. h = [g EXCEPT !.walking = g.walking \ {walk}, !.replayQueue = queue, !.uvmOut = out]
  BY DEF SendUVMFault
<1>2. walk \in Walks /\ walk.page \in Pages
  BY GMMUFields DEF Walks
<1>3. fault \in UVMMessages
  BY <1>2 DEF UVMMessages
<1>. HIDE DEF fault, h
<1>4. out \in Seq(UVMMessages) /\ queue \in Seq(Walks)
  BY <1>2, <1>3, GMMUFields, AppendList
<1>5. \A p \in Pages : Count(queue, ForPage(p))
                         = Count(g.replayQueue, ForPage(p)) + (IF walk \in ForPage(p) THEN 1 ELSE 0)
  BY <1>2, GMMUFields, CountAppend
<1>. HIDE DEF out, queue
<1>6. h \in GMMUs /\ h.topIn = g.topIn /\ h.walking = g.walking \ {walk} /\ h.replayQueue = queue
  BY <1>1, <1>4 DEF GMMUs
<1>7. ASSUME NEW p \in Pages PROVE Walked(h, p) = Walked(g, p)
  <2>. DEFINE before == Cardinality({w \in g.walking : w.page = p})
              after  == Cardinality({w \in g.walking \ {walk} : w.page = p})
  <2>1. Times(g.topIn, p) \in Nat /\ before \in Nat /\ Count(g.replayQueue, ForPage(p)) \in Nat
        /\ Walked(g, p) = Times(g.topIn, p) + before + Count(g.replayQueue, ForPage(p))
    BY WalkedParts
  <2>2. Walked(h, p) = Times(g.topIn, p) + after + Count(queue, ForPage(p))
    BY <1>6, WalkedParts
  <2>3. after = before - (IF p = walk.page THEN 1 ELSE 0)
    BY GMMUFields, OnPageRemove, ZenonT(60)
  <2>4. walk \in ForPage(p) <=> p = walk.page
    BY <1>2 DEF ForPage
  <2>5. Count(queue, ForPage(p)) = Count(g.replayQueue, ForPage(p)) + (IF p = walk.page THEN 1 ELSE 0)
    BY <1>5, <2>4
  <2>. HIDE DEF before, after
  <2>. QED BY <2>1, <2>2, <2>3, <2>5
<1>. QED BY <1>6, <1>7 DEF SameWalked, h

-----------------------------------------------------------------------------
(* Replays.                                                                *)

(* What FirstNamed returns is 0 or a position of the replay queue. *)
LEMMA FirstNamedPosition ==
  ASSUME NEW g \in GMMUs
  PROVE  FirstNamed(g) = 0 \/ FirstNamed(g) \in 1..Len(g.replayQueue)
<1>. DEFINE named == {i \in 1..Len(g.replayQueue) :
                        /\ RegionOf[g.replayQueue[i].page] = Head(g.uvmIn).region
                        /\ ~g.replayQueue[i].refaulted}
<1>1. Len(g.replayQueue) \in Nat
  BY GMMUFields
<1>2. named \subseteq 1..Len(g.replayQueue) /\ IsFiniteSet(named)
  <2>1. IsFiniteSet(1..Len(g.replayQueue))
    BY <1>1, FS_Interval
  <2>2. named \in SUBSET (1..Len(g.replayQueue))
    OBVIOUS
  <2>. HIDE DEF named
  <2>. QED BY <2>1, <2>2, FS_Subset
<1>3. FirstNamed(g) = IF named = {} THEN 0 ELSE CHOOSE i \in named : \A j \in named : i <= j
  BY DEF FirstNamed
<1>4. named \in SUBSET Int
  BY <1>1, <1>2
<1>. HIDE DEF named
<1>5. ASSUME named # {} PROVE FirstNamed(g) \in named
  <2>1. \E i \in named : \A j \in named : i <= j
    BY <1>2, <1>4, <1>5, LeastElement
  <2>2. FirstNamed(g) = CHOOSE i \in named : \A j \in named : i <= j
    BY <1>3, <1>5
  <2>. QED BY <2>1, <2>2
<1>. QED BY <1>2, <1>3, <1>5

(* A translation leaves the replay queue. *)
LEMMA UnparkSound ==
  ASSUME NEW g \in GMMUs, NEW i \in 1..Len(g.replayQueue)
  PROVE  /\ Unpark(g, i) \in GMMUs /\ g.replayQueue[i] \in Walks
         /\ Unpark(g, i).walking = g.walking
         /\ \A p \in Pages : Walked(Unpark(g, i), p)
                               = Walked(g, p) - (IF p = g.replayQueue[i].page THEN 1 ELSE 0)
<1>. DEFINE h == Unpark(g, i)
            s == g.replayQueue
            walk == s[i]
            rest == SubSeq(s, 1, i - 1) \o SubSeq(s, i + 1, Len(s))
<1>1. s \in Seq(Walks)
  BY GMMUFields
<1>2. h = [g EXCEPT !.replayQueue = rest]
  BY DEF Unpark, RemoveAt
<1>. HIDE DEF s
<1>3. rest \in Seq(Walks) /\ walk \in Walks
      /\ \A S : Count(rest, S) = Count(s, S) - (IF walk \in S THEN 1 ELSE 0)
  <2>1. i \in 1..Len(s)
    BY DEF s
  <2>. QED BY <1>1, <2>1, CountRemove
<1>. HIDE DEF rest, h, walk
<1>4. h \in GMMUs /\ h.topIn = g.topIn /\ h.walking = g.walking /\ h.replayQueue = rest
  BY <1>2, <1>3 DEF GMMUs
<1>5. ASSUME NEW p \in Pages PROVE Walked(h, p) = Walked(g, p) - (IF p = walk.page THEN 1 ELSE 0)
  <2>. DEFINE on == Cardinality({w \in g.walking : w.page = p})
  <2>1. Times(g.topIn, p) \in Nat /\ on \in Nat /\ Count(s, ForPage(p)) \in Nat
        /\ Walked(g, p) = Times(g.topIn, p) + on + Count(s, ForPage(p))
    BY WalkedParts DEF s
  <2>2. Walked(h, p) = Times(g.topIn, p) + on + Count(rest, ForPage(p))
    BY <1>4, WalkedParts
  <2>3. walk \in ForPage(p) <=> p = walk.page
    BY <1>3 DEF ForPage
  <2>4. Count(rest, ForPage(p)) = Count(s, ForPage(p)) - (IF p = walk.page THEN 1 ELSE 0)
    BY <1>3, <2>3
  <2>. HIDE DEF on
  <2>. QED BY <2>1, <2>2, <2>4
<1>. QED BY <1>3, <1>4, <1>5 DEF h, walk, s

(* resumeTranslation of one that faults again: back to the walker, which   *)
(* has none of its page, or through it to the end of the queue.            *)
LEMMA RefaultSound ==
  ASSUME NEW g \in GMMUs, NEW i \in 1..Len(g.replayQueue), \A p \in Pages : Walked(g, p) <= 1
  PROVE  Refault(g, i) \in GMMUs /\ SameWalked(g, Refault(g, i))
<1>. DEFINE x == g.replayQueue[i].page
            walk == [g.replayQueue[i] EXCEPT !.refaulted = TRUE]
            g0 == Unpark(g, i)
            g1 == [g0 EXCEPT !.walking = g0.walking \cup {walk}]
<1>1. Refault(g, i) = IF Full(g.uvmOut) THEN g1 ELSE SendUVMFault(g1, walk)
  BY DEF Refault
<1>2. /\ g0 \in GMMUs /\ g.replayQueue[i] \in Walks /\ g0.walking = g.walking
      /\ \A p \in Pages : Walked(g0, p) = Walked(g, p) - (IF p = x THEN 1 ELSE 0)
  BY UnparkSound
<1>3. walk \in Walks /\ walk.page = x /\ x \in Pages
  BY <1>2 DEF Walks
<1>4. g0.topIn = g.topIn
  BY DEF Unpark, GMMUs
<1>. HIDE DEF g0, walk
<1>5. g1 \in GMMUs /\ g1.topIn = g0.topIn /\ g1.walking = g0.walking \cup {walk}
      /\ g1.replayQueue = g0.replayQueue
  BY <1>2, <1>3 DEF GMMUs
<1>. HIDE DEF g1
<1>6. walk \notin g0.walking
  <2>1. Walked(g0, x) \in Nat /\ Walked(g, x) \in Nat /\ Walked(g, x) <= 1
    BY <1>2, <1>3, WalkedParts
  <2>2. Walked(g0, x) = 0
    BY <1>2, <1>3, <2>1
  <2>3. /\ Times(g0.topIn, x) \in Nat /\ Cardinality({w \in g0.walking : w.page = x}) \in Nat
        /\ Count(g0.replayQueue, ForPage(x)) \in Nat
        /\ Walked(g0, x) = Times(g0.topIn, x) + Cardinality({w \in g0.walking : w.page = x})
                             + Count(g0.replayQueue, ForPage(x))
    BY <1>2, <1>3, WalkedParts
  <2>4. Cardinality({w \in g0.walking : w.page = x}) = 0
    BY <2>2, <2>3
  <2>. QED BY <1>2, <1>3, <2>4, GMMUFields, OnPage
<1>7. ASSUME NEW p \in Pages PROVE Walked(g1, p) = Walked(g, p)
  <2>. DEFINE before == Cardinality({w \in g0.walking : w.page = p})
              after  == Cardinality({w \in g0.walking \cup {walk} : w.page = p})
  <2>1. Times(g0.topIn, p) \in Nat /\ before \in Nat /\ Count(g0.replayQueue, ForPage(p)) \in Nat
        /\ Walked(g0, p) = Times(g0.topIn, p) + before + Count(g0.replayQueue, ForPage(p))
    BY <1>2, WalkedParts
  <2>2. Walked(g1, p) = Times(g0.topIn, p) + after + Count(g0.replayQueue, ForPage(p))
    BY <1>5, WalkedParts
  <2>3. after = before + (IF p = x THEN 1 ELSE 0)
    <3>1. g0.walking \in SUBSET Walks
      BY <1>2, GMMUFields
    <3>2. after = before + (IF p = walk.page THEN 1 ELSE 0)
      BY <1>3, <1>6, <3>1, OnPageAdd
    <3>. HIDE DEF before, after
    <3>. QED BY <1>3, <3>2
  <2>4. Walked(g0, p) = Walked(g, p) - (IF p = x THEN 1 ELSE 0) /\ Walked(g, p) \in Nat
    BY <1>2, WalkedParts
  <2>. HIDE DEF before, after
  <2>. QED BY <2>1, <2>2, <2>3, <2>4
<1>8. walk \in g1.walking
  BY <1>5
<1>9. SendUVMFault(g1, walk) \in GMMUs /\ SameWalked(g1, SendUVMFault(g1, walk))
  BY <1>5, <1>8, SendFaultSound
<1>. QED BY <1>1, <1>5, <1>7, <1>9 DEF SameWalked

(* consumeReplay: what is forgotten does not tell translations apart, as   *)
(* no page has two.                                                        *)
LEMMA ConsumeReplaySound ==
  ASSUME NEW g \in GMMUs, g.uvmIn # <<>>, \A p \in Pages : Walked(g, p) <= 1
  PROVE  ConsumeReplay(g) \in GMMUs /\ SameWalked(g, ConsumeReplay(g))
<1>. DEFINE h == ConsumeReplay(g)
            forget(walk) == [walk EXCEPT !.refaulted = FALSE]
            walking == {forget(walk) : walk \in g.walking}
            s == g.replayQueue
            queue == [i \in 1..Len(s) |-> forget(s[i])]
            rest == Tail(g.uvmIn)
<1>1. h = [g EXCEPT !.uvmIn = rest, !.walking = walking, !.replayQueue = queue]
  BY DEF ConsumeReplay
<1>2. rest \in Seq(UVMCommands)
  BY GMMUFields, TimesTail
<1>3. \A walk \in Walks : forget(walk) \in Walks /\ forget(walk).page = walk.page
  BY DEF Walks
<1>4. g.walking \in SUBSET Walks /\ s \in Seq(Walks) /\ Len(s) \in Nat
  BY GMMUFields
<1>. HIDE DEF forget, s
<1>5. walking \in SUBSET Walks
  BY <1>3, <1>4
<1>6. queue \in Seq(Walks) /\ Len(queue) = Len(s) /\ \A i \in 1..Len(s) : queue[i].page = s[i].page
  BY <1>3, <1>4
<1>7. \A p : {i \in 1..Len(queue) : queue[i].page = p} = {i \in 1..Len(s) : s[i].page = p}
  BY <1>6
<1>. HIDE DEF h, walking, queue, rest
<1>8. h \in GMMUs /\ h.topIn = g.topIn /\ h.walking = walking /\ h.replayQueue = queue
  BY <1>1, <1>2, <1>5, <1>6 DEF GMMUs
<1>9. ASSUME NEW p \in Pages PROVE Walked(h, p) = Walked(g, p)
  <2>. DEFINE before == {w \in g.walking : w.page = p}
              after  == {w \in walking : w.page = p}
  <2>1. Times(g.topIn, p) \in Nat /\ Cardinality(before) \in Nat /\ Count(s, ForPage(p)) \in Nat
        /\ Walked(g, p) = Times(g.topIn, p) + Cardinality(before) + Count(s, ForPage(p))
        /\ Walked(g, p) <= 1
    BY WalkedParts DEF s
  <2>2. Walked(h, p) = Times(g.topIn, p) + Cardinality(after) + Count(queue, ForPage(p))
    BY <1>8, WalkedParts
  <2>3. Count(queue, ForPage(p)) = Count(s, ForPage(p))
    <3>1. Cardinality({i \in 1..Len(queue) : queue[i].page = p}) = Count(queue, ForPage(p))
      BY <1>6, OnQueue
    <3>2. Cardinality({i \in 1..Len(s) : s[i].page = p}) = Count(s, ForPage(p))
      BY <1>4, OnQueue
    <3>. QED BY <1>7, <3>1, <3>2
  <2>4. Cardinality(before) = 0 \/ Cardinality(before) = 1
    BY <2>1
  <2>5. IsFiniteSet(before)
    BY <1>4, OnPage
  <2>6. after = {forget(w) : w \in before}
    BY <1>3, <1>4 DEF walking
  <2>7. Cardinality(after) = Cardinality(before)
    <3>1. CASE Cardinality(before) = 0
      <4>1. before = {}
        BY <2>5, <3>1, FS_EmptySet
      <4>2. after = {}
        BY <2>6, <4>1
      <4>. QED BY <4>1, <4>2
    <3>2. CASE Cardinality(before) = 1
      <4>. HIDE DEF before, after
      <4>1. PICK w : before = {w}
        BY <2>5, <3>2, FS_Singleton
      <4>2. after = {forget(w)}
        BY <2>6, <4>1
      <4>3. Cardinality({forget(w)}) = 1
        BY FS_Singleton
      <4>. QED BY <3>2, <4>2, <4>3
    <3>. QED BY <2>4, <3>1, <3>2
  <2>. HIDE DEF before, after
  <2>. QED BY <2>1, <2>2, <2>3, <2>7
<1>. QED BY <1>8, <1>9 DEF SameWalked, h

-----------------------------------------------------------------------------
(* Messages and range invalidations do not touch translations.             *)

LEMMA UntouchedWalks ==
  ASSUME NEW g, NEW h, h.topIn = g.topIn, h.walking = g.walking, h.replayQueue = g.replayQueue
  PROVE  SameWalked(g, h)
BY DEF SameWalked, Walked

(* The region of a command. *)
LEMMA CommandRegion ==
  ASSUME NEW s \in Seq(UVMCommands), s # <<>>
  PROVE  Head(s) \in UVMCommands /\ Head(s).region \in Regions /\ Tail(s) \in Seq(UVMCommands)
<1>1. Head(s) \in UVMCommands /\ Tail(s) \in Seq(UVMCommands)
  BY TimesTail
<1>2. \A c \in UVMCommands : c.region \in Regions
  BY DEF UVMCommands
<1>. QED BY <1>1, <1>2

LEMMA StartInvalidateSound ==
  ASSUME NEW g \in GMMUs, CanStartInvalidate(g)
  PROVE  StartTLBInvalidate(g) \in GMMUs /\ SameWalked(g, StartTLBInvalidate(g))
<1>. DEFINE h == StartTLBInvalidate(g)
            r == Head(g.uvmIn).region
            rest == Tail(g.uvmIn)
<1>1. r \in Regions /\ rest \in Seq(UVMCommands)
  BY GMMUFields, CommandRegion DEF CanStartInvalidate
<1>2. h = [g EXCEPT !.invalidating = r, !.toInvalidate = TLBNames, !.uvmIn = rest]
  BY DEF StartTLBInvalidate
<1>. HIDE DEF r, rest, h
<1>3. h \in GMMUs /\ h.topIn = g.topIn /\ h.walking = g.walking /\ h.replayQueue = g.replayQueue
  BY <1>1, <1>2 DEF GMMUs
<1>. QED BY <1>3, UntouchedWalks DEF h

LEMMA CollectAckSound ==
  ASSUME NEW g \in GMMUs, NEW name
  PROVE  CollectAck(g, name) \in GMMUs /\ SameWalked(g, CollectAck(g, name))
<1>. DEFINE h == CollectAck(g, name)
<1>1. h \in GMMUs /\ h.topIn = g.topIn /\ h.walking = g.walking /\ h.replayQueue = g.replayQueue
  BY DEF GMMUs, CollectAck
<1>. QED BY <1>1, UntouchedWalks

LEMMA CompleteInvalidateSound ==
  ASSUME NEW g \in GMMUs, CanCompleteInvalidate(g)
  PROVE  CompleteTLBInvalidate(g) \in GMMUs /\ SameWalked(g, CompleteTLBInvalidate(g))
<1>. DEFINE h == CompleteTLBInvalidate(g)
            msg == [kind |-> "Invalidated", region |-> g.invalidating]
            out == Append(g.uvmOut, msg)
<1>1. msg \in UVMMessages
  BY GMMUFields DEF CanCompleteInvalidate, UVMMessages
<1>. HIDE DEF msg
<1>2. out \in Seq(UVMMessages)
  BY <1>1, GMMUFields
<1>3. h = [g EXCEPT !.invalidating = None, !.uvmOut = out]
  BY DEF CompleteTLBInvalidate, msg
<1>. HIDE DEF out, h
<1>4. h \in GMMUs /\ h.topIn = g.topIn /\ h.walking = g.walking /\ h.replayQueue = g.replayQueue
  BY <1>2, <1>3 DEF GMMUs
<1>. QED BY <1>4, UntouchedWalks DEF h

=============================================================================
