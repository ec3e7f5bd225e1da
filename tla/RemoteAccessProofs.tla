------------------------- MODULE RemoteAccessProofs -------------------------
(***************************************************************************)
(* The access counter between its neighbours, for every set of requests    *)
(* and regions, every threshold and limit, and every number of turns in a  *)
(* cycle.                                                                  *)
(*                                                                         *)
(* The inductive invariant has a part for each property.  What a part says *)
(* of the counter is an operator on a value of type Comp and the state     *)
(* around it, so that the parts of a tick can be followed one by one.      *)
(***************************************************************************)
EXTENDS RemoteAccess, OrderedListsProofs

-----------------------------------------------------------------------------
(* The places of a request.                                                *)

AnswersTo(q) == {a \in Answers : a.req = q}

(* How often q is in the counter or at its ports. *)
Inside(m, q) ==
  Times(m.topIn, q) + Times(m.stalledWrites[q.region], q)
    + Times(m.pendingRemoteWrites, q) + Times(m.pendingRetries, q)
    + Times(m.bottomOut, q) + Times(m.bottomIn, q) + Count(m.topOut, AnswersTo(q))

(* q is in the memory, with mem the requests there, or on its way there or *)
(* back.                                                                   *)
Beyond(m, mem, q) == q \in mem \cup Elements(m.bottomOut) \cup Elements(m.bottomIn)

(* A write is held with its region; each request that was sent is in one   *)
(* place, and has a transaction beyond the counter.                        *)
Placed(m, acc, mem) ==
  /\ \A k \in Keys : \A q \in Elements(m.stalledWrites[k]) : q.region = k
  /\ \A q \in Requests :
       /\ Inside(m, q) + (IF q \in mem THEN 1 ELSE 0) = IF acc[q] = "Sent" THEN 1 ELSE 0
       /\ q \in m.transactions <=> Beyond(m, mem, q)

-----------------------------------------------------------------------------
(* The service of a region.                                                *)

Draining(k) == [kind |-> "Drain", region |-> k]
Drained(k)  == [kind |-> "Drained", region |-> k]
Refusal(k)  == [kind |-> "Replay", region |-> k, refused |-> TRUE]

(* No write of region k is on its way to the host. *)
Settled(m, k) ==
  \A q \in m.transactions \cup Elements(m.pendingRemoteWrites) : ~(q.write /\ q.region = k)

(* In list s no refusal of region k follows a drain of it. *)
InOrder(s, k) ==
  \A i, j \in 1..Len(s) : s[i] = Draining(k) /\ s[j] = Refusal(k) => j < i

(* A region that drains has its drain or the answer to it on its way,      *)
(* once.  Behind a drain comes no refusal of the region, which could let   *)
(* writes go to the host, so that from the answer to the end of the copy   *)
(* there are none.                                                         *)
Served(m, drv, cmds) ==
  \A k \in Keys :
    /\ Times(m.ctrlIn, Draining(k)) + Times(cmds, Draining(k)) + Times(m.ctrlOut, Drained(k))
         = IF drv[k] = "Draining" THEN 1 ELSE 0
    /\ InOrder(m.ctrlIn, k) /\ InOrder(cmds, k)
    /\ Draining(k) \in Elements(m.ctrlIn) => Refusal(k) \notin Elements(cmds)
    /\ Drained(k) \in Elements(m.ctrlOut) \/ drv[k] = "Copying" =>
         Settled(m, k) /\ Refusal(k) \notin Elements(m.ctrlIn) \cup Elements(cmds)

-----------------------------------------------------------------------------
(* The notifications.                                                      *)

Distinct(s) == \A i, j \in 1..Len(s) : s[i] = s[j] => i = j

(* What waits to be sent is latched and is there once. *)
Asked(m) ==
  Elements(m.pendingNotifications) \subseteq m.latched /\ Distinct(m.pendingNotifications)

(* Cared(k), of counter m. *)
Minded(m, drv, cmds, rst, k) ==
  \/ k \in Elements(m.pendingNotifications)
  \/ [kind |-> "Notify", region |-> k] \in Elements(m.ctrlOut)
  \/ drv[k] # "Idle"
  \/ k \in rst
  \/ \E c \in Elements(cmds) \cup Elements(m.ctrlIn) : c.kind \in {"Reset", "Replay"} /\ c.region = k

(* A latched region is taken care of too: a write that comes for it is     *)
(* held and raises no notification.                                        *)
Remembered(m, drv, cmds, rst) ==
  \A k \in Keys :
    k \in m.latched \/ m.stalledWrites[k] # <<>> => Minded(m, drv, cmds, rst, k)

(* The part of the inductive invariant that the counter can disturb. *)
Good(m, acc, mem, drv, cmds, rst) ==
  /\ m \in Counters /\ cmds \in Seq(Commands)
  /\ Placed(m, acc, mem) /\ Served(m, drv, cmds)
  /\ Asked(m) /\ Remembered(m, drv, cmds, rst)

-----------------------------------------------------------------------------
(* Lists, and the fields of a counter.                                     *)

LEMMA TailList ==
  ASSUME NEW T, NEW s \in Seq(T), s # <<>>
  PROVE  /\ Head(s) \in T /\ Tail(s) \in Seq(T)
         /\ Elements(s) = {Head(s)} \cup Elements(Tail(s))
         /\ \A x : Times(s, x) = Times(Tail(s), x) + (IF Head(s) = x THEN 1 ELSE 0)
         /\ \A S : Count(s, S) = Count(Tail(s), S) + (IF Head(s) \in S THEN 1 ELSE 0)
<1>1. Head(s) \in T /\ Tail(s) \in Seq(T) /\ <<Head(s)>> \in Seq(T) /\ s = <<Head(s)>> \o Tail(s)
  OBVIOUS
<1>2. Elements(<<Head(s)>>) = {Head(s)}
  BY DEF Elements
<1>3. Elements(<<Head(s)>> \o Tail(s)) = Elements(<<Head(s)>>) \cup Elements(Tail(s))
  BY <1>1, ElementsConcat, ZenonT(60)
<1>4. Elements(s) = {Head(s)} \cup Elements(Tail(s))
  BY <1>1, <1>2, <1>3
<1>5. \A x : Times(s, x) = Times(Tail(s), x) + (IF Head(s) = x THEN 1 ELSE 0)
  BY TimesTail
<1>6. \A S : Count(s, S) = Count(Tail(s), S) + (IF Head(s) \in S THEN 1 ELSE 0)
  BY CountTail
<1>. QED BY <1>1, <1>4, <1>5, <1>6

LEMMA TailSteps ==
  ASSUME NEW T, NEW s \in Seq(T), s # <<>>
  PROVE  /\ Len(Tail(s)) = Len(s) - 1 /\ Len(s) \in Nat \ {0} /\ Head(s) = s[1]
         /\ \A i \in 1..Len(Tail(s)) : Tail(s)[i] = s[i + 1] /\ i + 1 \in 1..Len(s)
OBVIOUS

LEMMA EmptyList == Elements(<<>>) = {} /\ \A x : Times(<<>>, x) = 0
<1>1. Elements(<<>>) = {}
  BY DEF Elements
<1>. QED BY <1>1, TimesNone

LEMMA DistinctTail ==
  ASSUME NEW T, NEW s \in Seq(T), s # <<>>, Distinct(s)
  PROVE  Distinct(Tail(s))
<1>1. ASSUME NEW i \in 1..Len(Tail(s)), NEW j \in 1..Len(Tail(s)), Tail(s)[i] = Tail(s)[j]
      PROVE  i = j
  <2>1. s[i + 1] = s[j + 1] /\ i + 1 \in 1..Len(s) /\ j + 1 \in 1..Len(s) /\ i \in Int /\ j \in Int
    BY <1>1, TailSteps
  <2>2. i + 1 = j + 1
    BY <2>1 DEF Distinct
  <2>. QED BY <2>1, <2>2
<1>. QED BY <1>1 DEF Distinct

LEMMA DistinctAppend ==
  ASSUME NEW T, NEW s \in Seq(T), NEW y \in T, y \notin Elements(s), Distinct(s)
  PROVE  Distinct(Append(s, y))
<1>. DEFINE u == Append(s, y)
<1>1. /\ Len(u) = Len(s) + 1 /\ Len(s) \in Nat /\ u[Len(s) + 1] = y
      /\ \A i \in 1..Len(u) : i # Len(s) + 1 => i \in 1..Len(s) /\ u[i] = s[i]
  OBVIOUS
<1>2. \A i \in 1..Len(s) : s[i] # y
  BY DEF Elements
<1>. HIDE DEF u
<1>3. \A i, j \in 1..Len(u) : u[i] = u[j] => i = j
  BY <1>1, <1>2 DEF Distinct
<1>4. Distinct(u)
  BY <1>3 DEF Distinct
<1>. QED BY <1>4 DEF u

LEMMA DistinctKeep ==
  ASSUME NEW T, NEW s \in Seq(T), NEW S, Distinct(s)
  PROVE  Distinct(Keep(s, S))
<1>. DEFINE I == {i \in 1..Len(s) : s[i] \in S}
            at == Ascending(I)
            u == [k \in 1..Len(at) |-> s[at[k]]]
<1>1. Len(s) \in Nat
  OBVIOUS
<1>2. I \in SUBSET Int /\ I \subseteq 1..Len(s) /\ IsFiniteSet(I)
  <2>1. IsFiniteSet(1..Len(s))
    BY <1>1, FS_Interval
  <2>2. I \subseteq 1..Len(s)
    OBVIOUS
  <2>3. I \in SUBSET Int
    BY <1>1
  <2>. QED BY <2>1, <2>2, <2>3, FS_Subset
<1>3. /\ Len(at) \in Nat /\ Elements(at) = I
      /\ \A i, j \in 1..Len(at) : at[i] = at[j] => i = j
  BY <1>2, AscendingList, AscendingOnce, FS_CardinalityType
<1>4. Keep(s, S) = u
  BY DEF Keep
<1>5. \A i \in 1..Len(at) : at[i] \in 1..Len(s)
  BY <1>2, <1>3 DEF Elements
<1>. HIDE DEF I, at
<1>6. Len(u) = Len(at) /\ \A k \in 1..Len(at) : u[k] = s[at[k]]
  BY <1>3
<1>. HIDE DEF u
<1>7. Distinct(u)
  BY <1>3, <1>5, <1>6, SMTT(30) DEF Distinct
<1>. QED BY <1>4, <1>7

LEMMA DistinctCount ==
  ASSUME NEW T, NEW s \in Seq(T), Distinct(s)
  PROVE  Cardinality(Elements(s)) = Len(s)
<1>. DEFINE f == [i \in 1..Len(s) |-> s[i]]
<1>1. Len(s) \in Nat /\ IsFiniteSet(1..Len(s)) /\ Cardinality(1..Len(s)) = Len(s)
  <2>1. Len(s) \in Nat
    OBVIOUS
  <2>2. Cardinality(1..Len(s)) = IF 1 > Len(s) THEN 0 ELSE Len(s) - 1 + 1
    BY <2>1, FS_Interval
  <2>. QED BY <2>1, <2>2, FS_Interval
<1>2. f \in Bijection(1..Len(s), Elements(s))
  BY DEF Bijection, Injection, Surjection, IsInjective, Distinct, Elements
<1>3. ExistsBijection(1..Len(s), Elements(s))
  BY <1>2 DEF ExistsBijection
<1>. QED BY <1>1, <1>3, FS_Bijection

LEMMA OrderAppend ==
  ASSUME NEW T, NEW s \in Seq(T), NEW y \in T, NEW k, InOrder(s, k),
         y = Refusal(k) => Draining(k) \notin Elements(s)
  PROVE  InOrder(Append(s, y), k)
<1>. DEFINE u == Append(s, y)
<1>1. /\ Len(u) = Len(s) + 1 /\ Len(s) \in Nat /\ u[Len(s) + 1] = y
      /\ \A i \in 1..Len(u) : i # Len(s) + 1 => i \in 1..Len(s) /\ u[i] = s[i]
  OBVIOUS
<1>2. \A i \in 1..Len(s) : y = Refusal(k) => s[i] # Draining(k)
  BY DEF Elements
<1>3. Draining(k) # Refusal(k)
  BY DEF Draining, Refusal
<1>. HIDE DEF u
<1>4. \A i, j \in 1..Len(u) : u[i] = Draining(k) /\ u[j] = Refusal(k) => j < i
  BY <1>1, <1>2, <1>3 DEF InOrder
<1>5. InOrder(u, k)
  BY <1>4 DEF InOrder
<1>. QED BY <1>5 DEF u

LEMMA OrderTail ==
  ASSUME NEW T, NEW s \in Seq(T), s # <<>>, NEW k, InOrder(s, k)
  PROVE  /\ InOrder(Tail(s), k)
         /\ Head(s) = Draining(k) => Refusal(k) \notin Elements(Tail(s))
<1>1. /\ Len(Tail(s)) \in Nat /\ Len(Tail(s)) = Len(s) - 1 /\ Len(s) \in Nat \ {0} /\ Head(s) = s[1]
      /\ \A i \in 1..Len(Tail(s)) : Tail(s)[i] = s[i + 1] /\ i + 1 \in 1..Len(s)
  BY TailSteps
<1>2. \A i, j \in 1..Len(Tail(s)) : Tail(s)[i] = Draining(k) /\ Tail(s)[j] = Refusal(k) => j < i
  BY <1>1 DEF InOrder
<1>3. \A j \in 1..Len(Tail(s)) : s[1] = Draining(k) => Tail(s)[j] # Refusal(k)
  BY <1>1 DEF InOrder
<1>. QED BY <1>1, <1>2, <1>3 DEF InOrder, Elements

LEMMA CounterFields ==
  ASSUME NEW m \in Counters
  PROVE  /\ m.topIn \in Seq(Requests) /\ m.topOut \in Seq(Answers)
         /\ m.bottomIn \in Seq(Requests) /\ m.bottomOut \in Seq(Requests)
         /\ m.ctrlIn \in Seq(Commands) /\ m.ctrlOut \in Seq(Reports)
         /\ m.count \in [Keys -> 0..Threshold]
         /\ m.latched \subseteq Keys /\ m.transactions \subseteq Requests
         /\ m.stalledWrites \in [Keys -> Seq(Requests)]
         /\ m.pendingNotifications \in Seq(Keys)
         /\ m.pendingRetries \in Seq(Requests) /\ m.pendingRemoteWrites \in Seq(Requests)
BY DEF Counters

LEMMA RequestRegion == \A q \in Requests : q.region \in Keys /\ q.write \in BOOLEAN
BY CounterAssumption

LEMMA AppendMore ==
  ASSUME NEW T, NEW s \in Seq(T), NEW y \in T
  PROVE  /\ Append(s, y) \in Seq(T)
         /\ Elements(Append(s, y)) = Elements(s) \cup {y}
         /\ \A x : Times(Append(s, y), x) = Times(s, x) + (IF y = x THEN 1 ELSE 0)
         /\ \A S : Count(Append(s, y), S) = Count(s, S) + (IF y \in S THEN 1 ELSE 0)
BY AppendList, CountAppend

(* The places of a request are counted, and a count of 0 says where it is  *)
(* not.                                                                    *)
Counted(m, q) ==
  /\ Times(m.topIn, q) \in Nat /\ Times(m.stalledWrites[q.region], q) \in Nat
  /\ Times(m.pendingRemoteWrites, q) \in Nat /\ Times(m.pendingRetries, q) \in Nat
  /\ Times(m.bottomOut, q) \in Nat /\ Times(m.bottomIn, q) \in Nat
  /\ Count(m.topOut, AnswersTo(q)) \in Nat
  /\ Times(m.bottomOut, q) = 0 <=> q \notin Elements(m.bottomOut)
  /\ Times(m.bottomIn, q) = 0 <=> q \notin Elements(m.bottomIn)

LEMMA PlaceCounts ==
  ASSUME NEW m \in Counters, NEW q \in Requests
  PROVE  Counted(m, q)
<1>1. m.stalledWrites[q.region] \in Seq(Requests)
  BY CounterFields, RequestRegion
<1>2. \A s \in Seq(Requests) : Times(s, q) \in Nat /\ (Times(s, q) = 0 <=> q \notin Elements(s))
  BY TimesType
<1>3. Count(m.topOut, AnswersTo(q)) \in Nat
  BY CounterFields, CountMarks
<1>. QED BY <1>1, <1>2, <1>3, CounterFields DEF Counted

-----------------------------------------------------------------------------
(* What the methods leave alone.                                           *)

SameFlow(m, n) ==
  /\ n.topIn = m.topIn /\ n.topOut = m.topOut
  /\ n.bottomIn = m.bottomIn /\ n.bottomOut = m.bottomOut
  /\ n.transactions = m.transactions /\ n.stalledWrites = m.stalledWrites
  /\ n.pendingRetries = m.pendingRetries /\ n.pendingRemoteWrites = m.pendingRemoteWrites

SameCtrl(m, n) == n.ctrlIn = m.ctrlIn /\ n.ctrlOut = m.ctrlOut
SameAsks(m, n) == n.latched = m.latched /\ n.pendingNotifications = m.pendingNotifications

(* NotifyRegion(m, k) *)
Notified(m, n, k) ==
  /\ n.latched = m.latched \cup {k}
  /\ n.pendingNotifications =
       IF k \in m.latched THEN m.pendingNotifications ELSE Append(m.pendingNotifications, k)

(* ResetRegion(m, k) *)
Rearmed(m, n, k) ==
  LET others == Keep(m.pendingNotifications, Keys \ {k})
  IN  /\ m.stalledWrites[k] = <<>> =>
           n.latched = m.latched \ {k} /\ n.pendingNotifications = others
      /\ m.stalledWrites[k] # <<>> =>
           n.latched = m.latched \cup {k} /\ n.pendingNotifications = Append(others, k)

LEMMA NotifyEffect ==
  ASSUME NEW m \in Counters, NEW k \in Keys, NEW n, n = NotifyRegion(m, k)
  PROVE  /\ n \in Counters /\ SameFlow(m, n) /\ SameCtrl(m, n) /\ n.count = m.count
         /\ Notified(m, n, k)
<1>1. CASE k \in m.latched
  <2>1. n = m
    BY <1>1 DEF NotifyRegion
  <2>2. m.latched = m.latched \cup {k}
    BY <1>1
  <2>. QED BY <2>1, <2>2, <1>1 DEF SameFlow, SameCtrl, Notified
<1>2. CASE k \notin m.latched
  <2>1. n = [m EXCEPT !.latched = @ \cup {k}, !.pendingNotifications = Append(@, k)]
    BY <1>2 DEF NotifyRegion
  <2>2. Append(m.pendingNotifications, k) \in Seq(Keys) /\ m.latched \cup {k} \in SUBSET Keys
    BY CounterFields
  <2>3. n \in Counters
    BY <2>1, <2>2 DEF Counters
  <2>. QED BY <2>1, <2>3, <1>2 DEF Counters, SameFlow, SameCtrl, Notified
<1>. QED BY <1>1, <1>2

LEMMA CountEffect ==
  ASSUME NEW m \in Counters, NEW k \in Keys, NEW n, n = CountAccepted(m, k)
  PROVE  /\ n \in Counters /\ SameFlow(m, n) /\ SameCtrl(m, n)
         /\ SameAsks(m, n) \/ Notified(m, n, k)
<1>. DEFINE c == [m.count EXCEPT ![k] = IF @ < Threshold THEN @ + 1 ELSE @]
            m1 == [m EXCEPT !.count = c]
<1>1. c \in [Keys -> 0..Threshold]
  <2>1. m.count \in [Keys -> 0..Threshold] /\ Threshold \in Nat
    BY CounterFields, CounterAssumption
  <2>2. (IF m.count[k] < Threshold THEN m.count[k] + 1 ELSE m.count[k]) \in 0..Threshold
    BY <2>1
  <2>. QED BY <2>1, <2>2
<1>2. m1 = [m EXCEPT !.count[k] = IF @ < Threshold THEN @ + 1 ELSE @]
  OBVIOUS
<1>. HIDE DEF c
<1>3. m1 \in Counters /\ SameFlow(m, m1) /\ SameCtrl(m, m1) /\ SameAsks(m, m1)
  BY <1>1 DEF Counters, SameFlow, SameCtrl, SameAsks
<1>4. n = m1 \/ n = NotifyRegion(m1, k)
  BY <1>2 DEF CountAccepted
<1>. HIDE DEF m1
<1>5. CASE n = m1
  BY <1>3, <1>5
<1>6. CASE n = NotifyRegion(m1, k)
  BY <1>3, <1>6, NotifyEffect DEF SameFlow, SameCtrl, SameAsks, Notified
<1>. QED BY <1>4, <1>5, <1>6

LEMMA ResetEffect ==
  ASSUME NEW m \in Counters, NEW k \in Keys, NEW n, n = ResetRegion(m, k)
  PROVE  n \in Counters /\ SameFlow(m, n) /\ SameCtrl(m, n) /\ Rearmed(m, n, k)
<1>. DEFINE others == Keep(m.pendingNotifications, Keys \ {k})
            c == [m.count EXCEPT ![k] = 0]
            m1 == [m EXCEPT !.count = c, !.latched = m.latched \ {k}, !.pendingNotifications = others]
<1>1. others \in Seq(Keys) /\ c \in [Keys -> 0..Threshold] /\ m.latched \ {k} \in SUBSET Keys
  BY CounterFields, KeepList, CounterAssumption
<1>2. m1 = [m EXCEPT !.count[k] = 0, !.latched = @ \ {k},
                     !.pendingNotifications = Keep(@, Keys \ {k})]
  OBVIOUS
<1>3. n = IF m.stalledWrites[k] = <<>> THEN m1 ELSE NotifyRegion(m1, k)
  BY <1>2 DEF ResetRegion
<1>. HIDE DEF others, c
<1>4. /\ m1 \in Counters /\ SameFlow(m, m1) /\ SameCtrl(m, m1)
      /\ m1.latched = m.latched \ {k} /\ m1.pendingNotifications = others
  BY <1>1 DEF Counters, SameFlow, SameCtrl
<1>. HIDE DEF m1
<1>5. CASE m.stalledWrites[k] = <<>>
  <2>1. Rearmed(m, m1, k)
    BY <1>4, <1>5 DEF Rearmed, others
  <2>. QED BY <1>3, <1>4, <1>5, <2>1
<1>6. CASE m.stalledWrites[k] # <<>>
  <2>1. /\ n \in Counters /\ SameFlow(m1, n) /\ SameCtrl(m1, n) /\ Notified(m1, n, k)
    BY <1>3, <1>4, <1>6, NotifyEffect
  <2>2. n.latched = m.latched \cup {k} /\ n.pendingNotifications = Append(others, k)
    BY <2>1, <1>4 DEF Notified
  <2>3. Rearmed(m, n, k)
    BY <2>2, <1>6 DEF Rearmed, others
  <2>. QED BY <2>1, <2>3, <1>4 DEF SameFlow, SameCtrl
<1>. QED BY <1>5, <1>6

(* Forward(m, req) *)
LEMMA ForwardEffect ==
  ASSUME NEW m \in Counters, NEW req \in Requests, NEW n, n = Forward(m, req)
  PROVE  /\ n \in Counters /\ SameCtrl(m, n)
         /\ n.bottomOut = Append(m.bottomOut, req) /\ n.transactions = m.transactions \cup {req}
         /\ n.topIn = m.topIn /\ n.topOut = m.topOut /\ n.bottomIn = m.bottomIn
         /\ n.stalledWrites = m.stalledWrites /\ n.pendingRetries = m.pendingRetries
         /\ n.pendingRemoteWrites = m.pendingRemoteWrites
         /\ SameAsks(m, n) \/ Notified(m, n, req.region)
<1>. DEFINE b == Append(m.bottomOut, req)
            t == m.transactions \cup {req}
            m1 == [m EXCEPT !.bottomOut = b, !.transactions = t]
<1>1. b \in Seq(Requests) /\ t \in SUBSET Requests /\ req.region \in Keys
  BY CounterFields, RequestRegion
<1>2. n = CountAccepted(m1, req.region)
  BY DEF Forward
<1>3. m1 \in Counters
  BY <1>1 DEF Counters
<1>4. SameFlow(m1, n) /\ SameCtrl(m1, n) /\ n \in Counters
      /\ (SameAsks(m1, n) \/ Notified(m1, n, req.region))
  BY <1>1, <1>2, <1>3, CountEffect
<1>5. /\ m1.bottomOut = b /\ m1.transactions = t /\ m1.topIn = m.topIn /\ m1.topOut = m.topOut
      /\ m1.bottomIn = m.bottomIn /\ m1.stalledWrites = m.stalledWrites
      /\ m1.pendingRetries = m.pendingRetries /\ m1.pendingRemoteWrites = m.pendingRemoteWrites
      /\ m1.ctrlIn = m.ctrlIn /\ m1.ctrlOut = m.ctrlOut /\ m1.latched = m.latched
      /\ m1.pendingNotifications = m.pendingNotifications
  BY DEF Counters
<1>. HIDE DEF m1
<1>. QED BY <1>4, <1>5 DEF SameFlow, SameCtrl, SameAsks, Notified

-----------------------------------------------------------------------------
(* How the parts of the invariant pass from m to n.                        *)

Notice(k) == [kind |-> "Notify", region |-> k]
Wakes(c, k) == c.kind \in {"Reset", "Replay"} /\ c.region = k
Minding(m, k) == k \in m.latched \/ m.stalledWrites[k] # <<>>

(* A region that is latched or holds writes asks the driver anew, or was   *)
(* so before, and nothing that takes care of it is lost.                   *)
Minds(m, n) ==
  /\ Asked(n)
  /\ \A k \in Keys : Minding(n, k) =>
       \/ k \in Elements(n.pendingNotifications)
       \/ /\ Minding(m, k)
          /\ k \in Elements(m.pendingNotifications) => Notice(k) \in Elements(n.ctrlOut)
          /\ Notice(k) \in Elements(m.ctrlOut) => Notice(k) \in Elements(n.ctrlOut)
          /\ \A c \in Elements(m.ctrlIn) : Wakes(c, k) => c \in Elements(n.ctrlIn)

LEMMA RememberedKept ==
  ASSUME NEW m, NEW n, NEW drv, NEW cmds, NEW rst, Remembered(m, drv, cmds, rst), Minds(m, n)
  PROVE  Asked(n) /\ Remembered(n, drv, cmds, rst)
<1>1. ASSUME NEW k \in Keys, Minding(n, k) PROVE Minded(n, drv, cmds, rst, k)
  <2>1. CASE k \in Elements(n.pendingNotifications)
    BY <2>1 DEF Minded
  <2>2. CASE /\ Minding(m, k)
             /\ k \in Elements(m.pendingNotifications) => Notice(k) \in Elements(n.ctrlOut)
             /\ Notice(k) \in Elements(m.ctrlOut) => Notice(k) \in Elements(n.ctrlOut)
             /\ \A c \in Elements(m.ctrlIn) : Wakes(c, k) => c \in Elements(n.ctrlIn)
    <3>1. Minded(m, drv, cmds, rst, k)
      BY <2>2 DEF Remembered, Minding
    <3>2. CASE \E c \in Elements(cmds) \cup Elements(m.ctrlIn) : Wakes(c, k)
      <4>1. \E c \in Elements(cmds) \cup Elements(n.ctrlIn) : Wakes(c, k)
        BY <3>2, <2>2
      <4>. QED BY <4>1 DEF Minded, Wakes
    <3>3. CASE ~\E c \in Elements(cmds) \cup Elements(m.ctrlIn) : Wakes(c, k)
      BY <3>1, <3>3, <2>2 DEF Minded, Wakes, Notice
    <3>. QED BY <3>2, <3>3
  <2>. QED BY <1>1, <2>1, <2>2 DEF Minds
<1>. QED BY <1>1 DEF Minds, Remembered, Minding

(* A part of a tick that leaves the notifications alone. *)
LEMMA QuietMinds ==
  ASSUME NEW m, NEW n, Asked(m), SameAsks(m, n),
         \A k \in Keys : n.stalledWrites[k] # <<>> => Minding(m, k),
         Elements(m.ctrlOut) \subseteq Elements(n.ctrlOut),
         \A c \in Elements(m.ctrlIn), k \in Keys : Wakes(c, k) => c \in Elements(n.ctrlIn)
  PROVE  Minds(m, n)
BY DEF Asked, SameAsks, Minds, Minding

(* NotifyRegion: k is latched, and asks unless it was latched before. *)
LEMMA NotifiedMinds ==
  ASSUME NEW m \in Counters, NEW n, NEW k \in Keys, Asked(m), Notified(m, n, k), SameCtrl(m, n),
         \A j \in Keys : j # k => (n.stalledWrites[j] # <<>> => m.stalledWrites[j] # <<>>)
  PROVE  Minds(m, n)
<1>1. m.pendingNotifications \in Seq(Keys)
  BY CounterFields
<1>2. CASE k \in m.latched
  BY <1>2 DEF Notified, Minds, Minding, Asked, SameCtrl
<1>3. CASE k \notin m.latched
  <2>1. k \notin Elements(m.pendingNotifications)
    BY <1>3 DEF Asked
  <2>2. /\ Elements(n.pendingNotifications) = Elements(m.pendingNotifications) \cup {k}
        /\ Distinct(n.pendingNotifications)
    BY <1>1, <1>3, <2>1, AppendList, DistinctAppend DEF Notified, Asked
  <2>3. Asked(n)
    BY <2>2 DEF Asked, Notified
  <2>. QED BY <2>2, <2>3 DEF Minds, Minding, Notified, SameCtrl
<1>. QED BY <1>2, <1>3

(* ResetRegion: k asks if it holds writes, and is not latched otherwise. *)
LEMMA RearmedMinds ==
  ASSUME NEW m \in Counters, NEW n, NEW k \in Keys, Asked(m), Rearmed(m, n, k),
         n.stalledWrites = m.stalledWrites, n.ctrlOut = m.ctrlOut,
         \A c \in Elements(m.ctrlIn) : c \in Elements(n.ctrlIn) \/ \A j \in Keys : Wakes(c, j) => j = k
  PROVE  Minds(m, n)
<1>. DEFINE others == Keep(m.pendingNotifications, Keys \ {k})
<1>1. m.pendingNotifications \in Seq(Keys)
  BY CounterFields
<1>2. /\ others \in Seq(Keys) /\ Distinct(others)
      /\ Elements(others) = Elements(m.pendingNotifications) \cap (Keys \ {k})
  BY <1>1, KeepList, DistinctKeep DEF Asked
<1>. HIDE DEF others
<1>3. Elements(m.pendingNotifications) \subseteq Keys
  BY <1>1 DEF Elements
<1>4. CASE m.stalledWrites[k] = <<>>
  <2>1. n.latched = m.latched \ {k} /\ n.pendingNotifications = others
    BY <1>4 DEF Rearmed, others
  <2>2. Asked(n)
    BY <1>2, <2>1 DEF Asked
  <2>. QED BY <1>2, <1>3, <1>4, <2>1, <2>2 DEF Minds, Minding
<1>5. CASE m.stalledWrites[k] # <<>>
  <2>1. n.latched = m.latched \cup {k} /\ n.pendingNotifications = Append(others, k)
    BY <1>5 DEF Rearmed, others
  <2>2. /\ Elements(n.pendingNotifications) = Elements(others) \cup {k}
        /\ Distinct(n.pendingNotifications)
    BY <1>2, <2>1, AppendList, DistinctAppend
  <2>3. Asked(n)
    BY <1>2, <2>1, <2>2 DEF Asked
  <2>. QED BY <1>2, <1>3, <2>1, <2>2, <2>3 DEF Minds, Minding
<1>. QED BY <1>4, <1>5

(* What the service of the regions sees of the counter. *)
LEMMA ServedKept ==
  ASSUME NEW m, NEW n, NEW drv, NEW cmds, Served(m, drv, cmds), n.ctrlIn = m.ctrlIn,
         \A k \in Keys : /\ Times(n.ctrlOut, Drained(k)) = Times(m.ctrlOut, Drained(k))
                         /\ Drained(k) \in Elements(n.ctrlOut) => Drained(k) \in Elements(m.ctrlOut)
                         /\ Settled(m, k) => Settled(n, k)
  PROVE  Served(n, drv, cmds)
BY DEF Served

LEMMA ServedFlow ==
  ASSUME NEW m, NEW n, NEW drv, NEW cmds, Served(m, drv, cmds), SameCtrl(m, n),
         \A k \in Keys : Settled(m, k) => Settled(n, k)
  PROVE  Served(n, drv, cmds)
BY ServedKept DEF SameCtrl

-----------------------------------------------------------------------------
(* The parts of a tick.                                                    *)

LEMMA GoodType ==
  ASSUME NEW m, NEW acc, NEW mem, NEW drv, NEW cmds, NEW rst, Good(m, acc, mem, drv, cmds, rst)
  PROVE  m \in Counters
BY DEF Good

LEMMA BottomResponseGood ==
  ASSUME NEW m, NEW acc, NEW mem, NEW drv, NEW cmds, NEW rst, Good(m, acc, mem, drv, cmds, rst),
         NEW n, n = ProcessBottomResponse(m)
  PROVE  Good(n, acc, mem, drv, cmds, rst)
<1>1. CASE m.bottomIn = <<>> \/ Full(m.topOut)
  BY <1>1 DEF ProcessBottomResponse
<1>2. CASE ~(m.bottomIn = <<>> \/ Full(m.topOut))
  <2>. DEFINE h == Head(m.bottomIn)
              answer == [kind |-> "Done", req |-> h]
  <2>1. /\ m \in Counters /\ h \in Requests /\ Tail(m.bottomIn) \in Seq(Requests)
        /\ Elements(m.bottomIn) = {h} \cup Elements(Tail(m.bottomIn))
        /\ \A x : Times(m.bottomIn, x) = Times(Tail(m.bottomIn), x) + (IF h = x THEN 1 ELSE 0)
    BY <1>2, GoodType, CounterFields, TailList
  <2>2. /\ answer \in Answers /\ \A q : answer \in AnswersTo(q) <=> h = q
    BY <2>1 DEF Answers, AnswersTo
  <2>3. /\ Append(m.topOut, answer) \in Seq(Answers)
        /\ \A S : Count(Append(m.topOut, answer), S) = Count(m.topOut, S) + (IF answer \in S THEN 1 ELSE 0)
    BY <2>1, <2>2, CounterFields, AppendMore
  <2>4. /\ n.bottomIn = Tail(m.bottomIn) /\ n.topOut = Append(m.topOut, answer)
        /\ n.transactions = m.transactions \ {h}
        /\ n.topIn = m.topIn /\ n.bottomOut = m.bottomOut /\ n.stalledWrites = m.stalledWrites
        /\ n.pendingRetries = m.pendingRetries /\ n.pendingRemoteWrites = m.pendingRemoteWrites
        /\ SameCtrl(m, n) /\ SameAsks(m, n) /\ n \in Counters
    BY <1>2, <2>1, <2>3 DEF ProcessBottomResponse, Counters, SameCtrl, SameAsks
  <2>. HIDE DEF h, answer
  <2>5. Placed(n, acc, mem)
    <3>1. ASSUME NEW q \in Requests
          PROVE  /\ Inside(n, q) = Inside(m, q)
                 /\ q \in n.transactions <=> Beyond(n, mem, q)
      <4>1. Counted(m, q) /\ Counted(n, q)
        BY <2>1, <2>4, PlaceCounts
      <4>2. /\ Times(m.bottomIn, q) = Times(n.bottomIn, q) + (IF h = q THEN 1 ELSE 0)
            /\ Count(n.topOut, AnswersTo(q)) = Count(m.topOut, AnswersTo(q)) + (IF h = q THEN 1 ELSE 0)
        BY <2>1, <2>2, <2>3, <2>4
      <4>3. Inside(n, q) = Inside(m, q)
        <5>1. /\ Times(n.topIn, q) = Times(m.topIn, q)
              /\ Times(n.stalledWrites[q.region], q) = Times(m.stalledWrites[q.region], q)
              /\ Times(n.pendingRemoteWrites, q) = Times(m.pendingRemoteWrites, q)
              /\ Times(n.pendingRetries, q) = Times(m.pendingRetries, q)
              /\ Times(n.bottomOut, q) = Times(m.bottomOut, q)
          BY <2>4
        <5>. QED BY <4>1, <4>2, <5>1 DEF Inside, Counted
      <4>4. Inside(m, q) + (IF q \in mem THEN 1 ELSE 0) = IF acc[q] = "Sent" THEN 1 ELSE 0
        BY DEF Good, Placed
      <4>5. h = q => ~Beyond(n, mem, q)
        <5>1. h = q => q \notin mem /\ Times(n.bottomIn, q) = 0 /\ Times(m.bottomOut, q) = 0
          BY <4>1, <4>2, <4>4 DEF Inside, Counted
        <5>. QED BY <5>1, <4>1, <2>4 DEF Beyond, Counted
      <4>6. h # q => (Beyond(n, mem, q) <=> Beyond(m, mem, q))
        BY <2>1, <2>4 DEF Beyond
      <4>7. q \in m.transactions <=> Beyond(m, mem, q)
        BY DEF Good, Placed
      <4>. QED BY <4>3, <4>5, <4>6, <4>7, <2>4
    <3>. QED BY <3>1, <2>4 DEF Good, Placed
  <2>6. Served(n, drv, cmds)
    BY <2>4, ServedFlow DEF Good, Settled
  <2>7. Minds(m, n)
    BY <2>4, QuietMinds DEF Good, SameCtrl, Minding
  <2>. QED BY <2>4, <2>5, <2>6, <2>7, RememberedKept DEF Good
<1>. QED BY <1>1, <1>2

(* A write is held. *)
LEMMA HoldGood ==
  ASSUME NEW m, NEW acc, NEW mem, NEW drv, NEW cmds, NEW rst, Good(m, acc, mem, drv, cmds, rst),
         m.topIn # <<>>, Head(m.topIn).write, NEW n, n = ProcessTopMessage(m)
  PROVE  Good(n, acc, mem, drv, cmds, rst)
<1>. DEFINE req == Head(m.topIn)
            k == req.region
            held == [m.stalledWrites EXCEPT ![k] = Append(@, req)]
            m1 == [m EXCEPT !.topIn = Tail(m.topIn), !.stalledWrites = held]
<1>1. /\ m \in Counters /\ req \in Requests /\ Tail(m.topIn) \in Seq(Requests)
      /\ \A x : Times(m.topIn, x) = Times(Tail(m.topIn), x) + (IF req = x THEN 1 ELSE 0)
  BY GoodType, CounterFields, TailList
<1>2. k \in Keys /\ m.stalledWrites \in [Keys -> Seq(Requests)]
  BY <1>1, CounterFields, RequestRegion
<1>3. /\ Append(m.stalledWrites[k], req) \in Seq(Requests)
      /\ Elements(Append(m.stalledWrites[k], req)) = Elements(m.stalledWrites[k]) \cup {req}
      /\ \A x : Times(Append(m.stalledWrites[k], req), x)
                  = Times(m.stalledWrites[k], x) + (IF req = x THEN 1 ELSE 0)
  BY <1>1, <1>2, AppendMore
<1>4. /\ held \in [Keys -> Seq(Requests)] /\ held[k] = Append(m.stalledWrites[k], req)
      /\ \A j \in Keys : j # k => held[j] = m.stalledWrites[j]
  BY <1>2, <1>3
<1>5. n = NotifyRegion(m1, k)
  <2>1. [[m EXCEPT !.topIn = Tail(@)] EXCEPT !.stalledWrites[k] = Append(@, req)] = m1
    BY <1>1 DEF Counters
  <2>. QED BY <2>1 DEF ProcessTopMessage
<1>. HIDE DEF req, held
<1>6. /\ m1 \in Counters /\ m1.topIn = Tail(m.topIn) /\ m1.stalledWrites = held
      /\ m1.topOut = m.topOut /\ m1.bottomIn = m.bottomIn /\ m1.bottomOut = m.bottomOut
      /\ m1.transactions = m.transactions /\ m1.pendingRetries = m.pendingRetries
      /\ m1.pendingRemoteWrites = m.pendingRemoteWrites /\ SameCtrl(m, m1) /\ SameAsks(m, m1)
  BY <1>1, <1>4 DEF Counters, SameCtrl, SameAsks
<1>. HIDE DEF m1
<1>7. n \in Counters /\ SameFlow(m1, n) /\ SameCtrl(m1, n) /\ Notified(m1, n, k)
  BY <1>2, <1>5, <1>6, NotifyEffect
<1>8. SameCtrl(m, n) /\ Notified(m, n, k)
  BY <1>6, <1>7 DEF SameCtrl, SameAsks, Notified
<1>9. Placed(n, acc, mem)
  <2>1. n.stalledWrites = held /\ n.topIn = Tail(m.topIn)
    BY <1>6, <1>7 DEF SameFlow
  <2>2. ASSUME NEW j \in Keys, NEW q \in Elements(n.stalledWrites[j]) PROVE q.region = j
    <3>1. CASE j = k
      <4>1. q \in Elements(m.stalledWrites[k]) \/ q = req
        BY <3>1, <2>1, <1>3, <1>4
      <4>. QED BY <4>1, <3>1, <1>2 DEF Good, Placed
    <3>2. CASE j # k
      BY <3>2, <2>1, <1>4 DEF Good, Placed
    <3>. QED BY <3>1, <3>2
  <2>3. ASSUME NEW q \in Requests
        PROVE  Inside(n, q) = Inside(m, q) /\ (Beyond(n, mem, q) <=> Beyond(m, mem, q))
    <3>1. Counted(m, q) /\ Counted(n, q) /\ q.region \in Keys
      BY <1>1, <1>7, PlaceCounts, RequestRegion
    <3>2. Times(held[q.region], q) = Times(m.stalledWrites[q.region], q) + (IF req = q THEN 1 ELSE 0)
      <4>1. CASE q.region = k
        BY <4>1, <1>3, <1>4
      <4>2. CASE q.region # k
        <5>1. req # q /\ held[q.region] = m.stalledWrites[q.region]
          BY <4>2, <3>1, <1>4
        <5>. QED BY <5>1, <3>1 DEF Counted
      <4>. QED BY <4>1, <4>2
    <3>3. Times(m.topIn, q) = Times(n.topIn, q) + (IF req = q THEN 1 ELSE 0)
      BY <1>1, <2>1
    <3>4. Inside(n, q) = Inside(m, q)
      <4>1. /\ Times(n.stalledWrites[q.region], q)
                 = Times(m.stalledWrites[q.region], q) + (IF req = q THEN 1 ELSE 0)
            /\ Times(n.pendingRemoteWrites, q) = Times(m.pendingRemoteWrites, q)
            /\ Times(n.pendingRetries, q) = Times(m.pendingRetries, q)
            /\ Times(n.bottomOut, q) = Times(m.bottomOut, q)
            /\ Times(n.bottomIn, q) = Times(m.bottomIn, q)
            /\ Count(n.topOut, AnswersTo(q)) = Count(m.topOut, AnswersTo(q))
        BY <1>6, <1>7, <2>1, <3>2 DEF SameFlow
      <4>2. CASE req = q
        BY <4>2, <3>1, <3>3, <4>1 DEF Inside, Counted
      <4>3. CASE req # q
        BY <4>3, <3>1, <3>3, <4>1 DEF Inside, Counted
      <4>. QED BY <4>2, <4>3
    <3>. QED BY <1>6, <1>7, <3>4 DEF SameFlow, Beyond
  <2>. QED BY <2>2, <2>3, <1>6, <1>7 DEF SameFlow, Good, Placed
<1>10. Served(n, drv, cmds)
  BY <1>6, <1>7, <1>8, ServedFlow DEF SameFlow, Good, Settled
<1>11. Minds(m, n)
  BY <1>1, <1>2, <1>4, <1>6, <1>7, <1>8, NotifiedMinds DEF SameFlow, Good
<1>. QED BY <1>7, <1>9, <1>10, <1>11, RememberedKept DEF Good

(* A request taken from its place in m, which leaves r, is forwarded. *)
LEMMA ForwardGood ==
  ASSUME NEW m, NEW acc, NEW mem, NEW drv, NEW cmds, NEW rst, Good(m, acc, mem, drv, cmds, rst),
         NEW r \in Counters, NEW req \in Requests, SameCtrl(m, r), SameAsks(m, r),
         r.bottomOut = m.bottomOut, r.bottomIn = m.bottomIn, r.transactions = m.transactions,
         r.stalledWrites = m.stalledWrites,
         Elements(r.pendingRemoteWrites) \subseteq Elements(m.pendingRemoteWrites),
         \A q \in Requests : Inside(m, q) = Inside(r, q) + (IF req = q THEN 1 ELSE 0),
         ~req.write \/ req \in Elements(m.pendingRemoteWrites),
         NEW n, n = Forward(r, req)
  PROVE  Good(n, acc, mem, drv, cmds, rst)
<1>1. /\ n \in Counters /\ SameCtrl(r, n)
      /\ n.bottomOut = Append(r.bottomOut, req) /\ n.transactions = r.transactions \cup {req}
      /\ n.topIn = r.topIn /\ n.topOut = r.topOut /\ n.bottomIn = r.bottomIn
      /\ n.stalledWrites = r.stalledWrites /\ n.pendingRetries = r.pendingRetries
      /\ n.pendingRemoteWrites = r.pendingRemoteWrites
      /\ SameAsks(r, n) \/ Notified(r, n, req.region)
  BY ForwardEffect
<1>2. /\ Elements(n.bottomOut) = Elements(m.bottomOut) \cup {req}
      /\ \A x : Times(n.bottomOut, x) = Times(r.bottomOut, x) + (IF req = x THEN 1 ELSE 0)
  <2>1. r.bottomOut \in Seq(Requests)
    BY CounterFields
  <2>. QED BY <1>1, <2>1, AppendMore
<1>3. Placed(n, acc, mem)
  <2>1. ASSUME NEW q \in Requests
        PROVE  Inside(n, q) = Inside(m, q) /\ (q \in n.transactions <=> Beyond(n, mem, q))
    <3>1. Counted(r, q) /\ Counted(n, q)
      BY <1>1, PlaceCounts
    <3>2. /\ Times(n.topIn, q) = Times(r.topIn, q)
          /\ Times(n.stalledWrites[q.region], q) = Times(r.stalledWrites[q.region], q)
          /\ Times(n.pendingRemoteWrites, q) = Times(r.pendingRemoteWrites, q)
          /\ Times(n.pendingRetries, q) = Times(r.pendingRetries, q)
          /\ Times(n.bottomIn, q) = Times(r.bottomIn, q)
          /\ Count(n.topOut, AnswersTo(q)) = Count(r.topOut, AnswersTo(q))
      BY <1>1
    <3>3. Inside(n, q) = Inside(r, q) + (IF req = q THEN 1 ELSE 0)
      <4>1. CASE req = q
        BY <4>1, <1>2, <3>1, <3>2 DEF Inside, Counted
      <4>2. CASE req # q
        BY <4>2, <1>2, <3>1, <3>2 DEF Inside, Counted
      <4>. QED BY <4>1, <4>2
    <3>4. q \in m.transactions <=> Beyond(m, mem, q)
      BY DEF Good, Placed
    <3>5. Beyond(n, mem, q) <=> Beyond(m, mem, q) \/ q = req
      BY <1>1, <1>2 DEF Beyond
    <3>. QED BY <1>1, <3>3, <3>4, <3>5
  <2>. QED BY <1>1, <2>1 DEF Good, Placed
<1>4. Served(n, drv, cmds)
  <2>1. \A k \in Keys : Settled(m, k) => Settled(n, k)
    BY <1>1 DEF Settled
  <2>2. SameCtrl(m, n)
    BY <1>1 DEF SameCtrl
  <2>. QED BY <2>1, <2>2, ServedFlow DEF Good
<1>5. Minds(m, n)
  <2>1. SameCtrl(m, n) /\ (SameAsks(m, n) \/ Notified(m, n, req.region))
    BY <1>1 DEF SameCtrl, SameAsks, Notified
  <2>2. n.stalledWrites = m.stalledWrites /\ m \in Counters /\ req.region \in Keys /\ Asked(m)
    BY <1>1, RequestRegion DEF Good
  <2>3. CASE SameAsks(m, n)
    BY <2>1, <2>2, <2>3, QuietMinds DEF SameCtrl, Minding
  <2>4. CASE Notified(m, n, req.region)
    BY <2>1, <2>2, <2>4, NotifiedMinds
  <2>. QED BY <2>1, <2>3, <2>4
<1>. QED BY <1>1, <1>3, <1>4, <1>5, RememberedKept DEF Good

LEMMA ReadGood ==
  ASSUME NEW m, NEW acc, NEW mem, NEW drv, NEW cmds, NEW rst, Good(m, acc, mem, drv, cmds, rst),
         m.topIn # <<>>, ~Head(m.topIn).write, CanForward(m), NEW n, n = ProcessTopMessage(m)
  PROVE  Good(n, acc, mem, drv, cmds, rst)
<1>. DEFINE req == Head(m.topIn)
            r == [m EXCEPT !.topIn = Tail(@)]
<1>1. /\ m \in Counters /\ req \in Requests /\ Tail(m.topIn) \in Seq(Requests)
      /\ \A x : Times(m.topIn, x) = Times(Tail(m.topIn), x) + (IF req = x THEN 1 ELSE 0)
  BY GoodType, CounterFields, TailList
<1>2. n = Forward(r, req)
  BY DEF ProcessTopMessage
<1>3. ~req.write
  OBVIOUS
<1>. HIDE DEF req
<1>4. /\ r \in Counters /\ r.topIn = Tail(m.topIn) /\ SameCtrl(m, r) /\ SameAsks(m, r)
      /\ r.bottomOut = m.bottomOut /\ r.bottomIn = m.bottomIn /\ r.transactions = m.transactions
      /\ r.stalledWrites = m.stalledWrites /\ r.pendingRetries = m.pendingRetries
      /\ r.pendingRemoteWrites = m.pendingRemoteWrites /\ r.topOut = m.topOut
  BY <1>1 DEF Counters, SameCtrl, SameAsks
<1>. HIDE DEF r
<1>5. ASSUME NEW q \in Requests PROVE Inside(m, q) = Inside(r, q) + (IF req = q THEN 1 ELSE 0)
  <2>1. Counted(m, q) /\ Counted(r, q)
    BY <1>1, <1>4, PlaceCounts
  <2>2. Times(m.topIn, q) = Times(r.topIn, q) + (IF req = q THEN 1 ELSE 0)
    BY <1>1, <1>4
  <2>3. /\ Times(r.stalledWrites[q.region], q) = Times(m.stalledWrites[q.region], q)
        /\ Times(r.pendingRemoteWrites, q) = Times(m.pendingRemoteWrites, q)
        /\ Times(r.pendingRetries, q) = Times(m.pendingRetries, q)
        /\ Times(r.bottomOut, q) = Times(m.bottomOut, q) /\ Times(r.bottomIn, q) = Times(m.bottomIn, q)
        /\ Count(r.topOut, AnswersTo(q)) = Count(m.topOut, AnswersTo(q))
    BY <1>4
  <2>4. CASE req = q
    <3>1. Times(m.topIn, q) = Times(r.topIn, q) + 1
      BY <2>2, <2>4
    <3>2. Inside(m, q) = Inside(r, q) + 1
      BY <2>1, <2>3, <3>1, SMTT(30) DEF Inside, Counted
    <3>. QED BY <2>4, <3>2
  <2>5. CASE req # q
    BY <2>1, <2>2, <2>3, <2>5 DEF Inside, Counted
  <2>. QED BY <2>4, <2>5
<1>. QED BY <1>1, <1>2, <1>3, <1>4, <1>5, ForwardGood

LEMMA TopMessageGood ==
  ASSUME NEW m, NEW acc, NEW mem, NEW drv, NEW cmds, NEW rst, Good(m, acc, mem, drv, cmds, rst)
  PROVE  Good(ProcessTopMessage(m), acc, mem, drv, cmds, rst)
<1>1. CASE m.topIn # <<>> /\ Head(m.topIn).write
  BY <1>1, HoldGood
<1>2. CASE m.topIn # <<>> /\ ~Head(m.topIn).write /\ CanForward(m)
  BY <1>2, ReadGood
<1>3. CASE m.topIn = <<>> \/ (~Head(m.topIn).write /\ ~CanForward(m))
  <2>1. ProcessTopMessage(m) = m
    BY <1>3 DEF ProcessTopMessage
  <2>. QED BY <2>1
<1>. QED BY <1>1, <1>2, <1>3

LEMMA RemoteWriteGood ==
  ASSUME NEW m, NEW acc, NEW mem, NEW drv, NEW cmds, NEW rst, Good(m, acc, mem, drv, cmds, rst)
  PROVE  Good(SendPendingRemoteWrite(m), acc, mem, drv, cmds, rst)
<1>. DEFINE req == Head(m.pendingRemoteWrites)
            r == [m EXCEPT !.pendingRemoteWrites = Tail(@)]
<1>1. CASE m.pendingRemoteWrites = <<>> \/ ~CanForward(m)
  <2>1. SendPendingRemoteWrite(m) = m
    BY <1>1 DEF SendPendingRemoteWrite
  <2>. QED BY <2>1
<1>2. CASE m.pendingRemoteWrites # <<>> /\ CanForward(m)
  <2>1. /\ m \in Counters /\ req \in Requests /\ Tail(m.pendingRemoteWrites) \in Seq(Requests)
        /\ Elements(m.pendingRemoteWrites) = {req} \cup Elements(Tail(m.pendingRemoteWrites))
        /\ \A x : Times(m.pendingRemoteWrites, x)
                    = Times(Tail(m.pendingRemoteWrites), x) + (IF req = x THEN 1 ELSE 0)
    BY <1>2, GoodType, CounterFields, TailList
  <2>2. SendPendingRemoteWrite(m) = Forward(r, req)
    BY <1>2 DEF SendPendingRemoteWrite
  <2>. HIDE DEF req
  <2>3. /\ r \in Counters /\ r.pendingRemoteWrites = Tail(m.pendingRemoteWrites)
        /\ SameCtrl(m, r) /\ SameAsks(m, r)
        /\ r.bottomOut = m.bottomOut /\ r.bottomIn = m.bottomIn /\ r.transactions = m.transactions
        /\ r.stalledWrites = m.stalledWrites /\ r.pendingRetries = m.pendingRetries
        /\ r.topIn = m.topIn /\ r.topOut = m.topOut
    BY <2>1 DEF Counters, SameCtrl, SameAsks
  <2>. HIDE DEF r
  <2>4. ASSUME NEW q \in Requests PROVE Inside(m, q) = Inside(r, q) + (IF req = q THEN 1 ELSE 0)
    <3>1. Counted(m, q) /\ Counted(r, q)
      BY <2>1, <2>3, PlaceCounts
    <3>2. Times(m.pendingRemoteWrites, q) = Times(r.pendingRemoteWrites, q) + (IF req = q THEN 1 ELSE 0)
      BY <2>1, <2>3
    <3>3. /\ Times(r.topIn, q) = Times(m.topIn, q)
          /\ Times(r.stalledWrites[q.region], q) = Times(m.stalledWrites[q.region], q)
          /\ Times(r.pendingRetries, q) = Times(m.pendingRetries, q)
          /\ Times(r.bottomOut, q) = Times(m.bottomOut, q) /\ Times(r.bottomIn, q) = Times(m.bottomIn, q)
          /\ Count(r.topOut, AnswersTo(q)) = Count(m.topOut, AnswersTo(q))
      BY <2>3
    <3>. QED BY <3>1, <3>2, <3>3 DEF Inside, Counted
  <2>5. /\ Elements(r.pendingRemoteWrites) \subseteq Elements(m.pendingRemoteWrites)
        /\ req \in Elements(m.pendingRemoteWrites)
    BY <2>1, <2>3
  <2>. QED BY <2>1, <2>2, <2>3, <2>4, <2>5, ForwardGood
<1>. QED BY <1>1, <1>2

LEMMA RetryGood ==
  ASSUME NEW m, NEW acc, NEW mem, NEW drv, NEW cmds, NEW rst, Good(m, acc, mem, drv, cmds, rst),
         NEW n, n = SendPendingRetry(m)
  PROVE  Good(n, acc, mem, drv, cmds, rst)
<1>1. CASE m.pendingRetries = <<>> \/ Full(m.topOut)
  BY <1>1 DEF SendPendingRetry
<1>2. CASE ~(m.pendingRetries = <<>> \/ Full(m.topOut))
  <2>. DEFINE h == Head(m.pendingRetries)
              answer == [kind |-> "Retry", req |-> h]
  <2>1. /\ m \in Counters /\ h \in Requests /\ Tail(m.pendingRetries) \in Seq(Requests)
        /\ \A x : Times(m.pendingRetries, x) = Times(Tail(m.pendingRetries), x) + (IF h = x THEN 1 ELSE 0)
    BY <1>2, GoodType, CounterFields, TailList
  <2>2. answer \in Answers /\ \A q : answer \in AnswersTo(q) <=> h = q
    BY <2>1 DEF Answers, AnswersTo
  <2>3. /\ Append(m.topOut, answer) \in Seq(Answers)
        /\ \A S : Count(Append(m.topOut, answer), S) = Count(m.topOut, S) + (IF answer \in S THEN 1 ELSE 0)
    BY <2>1, <2>2, CounterFields, AppendMore
  <2>4. /\ n.pendingRetries = Tail(m.pendingRetries) /\ n.topOut = Append(m.topOut, answer)
        /\ n.transactions = m.transactions /\ n.topIn = m.topIn
        /\ n.bottomIn = m.bottomIn /\ n.bottomOut = m.bottomOut
        /\ n.stalledWrites = m.stalledWrites /\ n.pendingRemoteWrites = m.pendingRemoteWrites
        /\ SameCtrl(m, n) /\ SameAsks(m, n) /\ n \in Counters
    BY <1>2, <2>1, <2>3 DEF SendPendingRetry, Counters, SameCtrl, SameAsks
  <2>. HIDE DEF h, answer
  <2>5. ASSUME NEW q \in Requests PROVE Inside(n, q) = Inside(m, q)
    <3>1. Counted(m, q) /\ Counted(n, q)
      BY <2>1, <2>4, PlaceCounts
    <3>2. /\ Times(m.pendingRetries, q) = Times(n.pendingRetries, q) + (IF h = q THEN 1 ELSE 0)
          /\ Count(n.topOut, AnswersTo(q)) = Count(m.topOut, AnswersTo(q)) + (IF h = q THEN 1 ELSE 0)
      BY <2>1, <2>2, <2>3, <2>4
    <3>3. /\ Times(n.topIn, q) = Times(m.topIn, q)
          /\ Times(n.stalledWrites[q.region], q) = Times(m.stalledWrites[q.region], q)
          /\ Times(n.pendingRemoteWrites, q) = Times(m.pendingRemoteWrites, q)
          /\ Times(n.bottomOut, q) = Times(m.bottomOut, q) /\ Times(n.bottomIn, q) = Times(m.bottomIn, q)
      BY <2>4
    <3>. QED BY <3>1, <3>2, <3>3 DEF Inside, Counted
  <2>6. Placed(n, acc, mem)
    BY <2>4, <2>5 DEF Good, Placed, Beyond
  <2>7. Served(n, drv, cmds)
    BY <2>4, ServedFlow DEF Good, Settled
  <2>8. Minds(m, n)
    BY <2>4, QuietMinds DEF Good, SameCtrl, Minding
  <2>. QED BY <2>4, <2>6, <2>7, <2>8, RememberedKept DEF Good
<1>. QED BY <1>1, <1>2

(* A region that asks goes out as a notification. *)
LEMMA NotificationGood ==
  ASSUME NEW m, NEW acc, NEW mem, NEW drv, NEW cmds, NEW rst, Good(m, acc, mem, drv, cmds, rst),
         NEW n, n = RetryNotification(m)
  PROVE  Good(n, acc, mem, drv, cmds, rst)
<1>1. CASE m.pendingNotifications = <<>> \/ Full(m.ctrlOut)
  BY <1>1 DEF RetryNotification
<1>2. CASE ~(m.pendingNotifications = <<>> \/ Full(m.ctrlOut))
  <2>. DEFINE h == Head(m.pendingNotifications)
  <2>1. /\ m \in Counters /\ h \in Keys /\ Tail(m.pendingNotifications) \in Seq(Keys)
        /\ Elements(m.pendingNotifications) = {h} \cup Elements(Tail(m.pendingNotifications))
        /\ m.ctrlOut \in Seq(Reports)
    BY <1>2, GoodType, CounterFields, TailList
  <2>2. Notice(h) \in Reports /\ \A k : Notice(h) # Drained(k)
    BY <2>1 DEF Reports, Notice, Drained
  <2>3. /\ Append(m.ctrlOut, Notice(h)) \in Seq(Reports)
        /\ Elements(Append(m.ctrlOut, Notice(h))) = Elements(m.ctrlOut) \cup {Notice(h)}
        /\ \A x : Times(Append(m.ctrlOut, Notice(h)), x)
                    = Times(m.ctrlOut, x) + (IF Notice(h) = x THEN 1 ELSE 0)
        /\ \A x : Times(m.ctrlOut, x) \in Nat
    BY <2>1, <2>2, AppendList
  <2>4. /\ n.pendingNotifications = Tail(m.pendingNotifications)
        /\ n.ctrlOut = Append(m.ctrlOut, Notice(h)) /\ n.ctrlIn = m.ctrlIn
        /\ n.latched = m.latched /\ SameFlow(m, n) /\ n \in Counters
    BY <1>2, <2>1, <2>3 DEF RetryNotification, Counters, SameFlow, Notice
  <2>. HIDE DEF h
  <2>5. Placed(n, acc, mem)
    BY <2>4 DEF Good, Placed, SameFlow, Inside, Beyond
  <2>6. Served(n, drv, cmds)
    <3>1. \A k \in Keys : /\ Times(n.ctrlOut, Drained(k)) = Times(m.ctrlOut, Drained(k))
                          /\ Drained(k) \in Elements(n.ctrlOut) => Drained(k) \in Elements(m.ctrlOut)
                          /\ Settled(m, k) => Settled(n, k)
      BY <2>2, <2>3, <2>4 DEF SameFlow, Settled
    <3>. QED BY <2>4, <3>1, ServedKept DEF Good
  <2>7. Minds(m, n)
    <3>1. Distinct(n.pendingNotifications)
      BY <1>2, <2>1, <2>4, CounterFields, DistinctTail DEF Good, Asked
    <3>2. Asked(n)
      BY <2>1, <2>4, <3>1 DEF Good, Asked
    <3>. QED BY <2>1, <2>3, <2>4, <3>2 DEF Minds, Minding, SameFlow
  <2>. QED BY <2>4, <2>5, <2>6, <2>7, RememberedKept DEF Good
<1>. QED BY <1>1, <1>2

(* A command other than a drain is taken from the port.  Only a refusal    *)
(* may set writes going.                                                   *)
LEMMA CommandServed ==
  ASSUME NEW m \in Counters, NEW n, NEW drv, NEW cmds, Served(m, drv, cmds), m.ctrlIn # <<>>,
         n.ctrlIn = Tail(m.ctrlIn), n.ctrlOut = m.ctrlOut,
         \A k \in Keys : Head(m.ctrlIn) # Draining(k),
         \A k \in Keys : Settled(m, k) => Settled(n, k) \/ Head(m.ctrlIn) = Refusal(k)
  PROVE  Served(n, drv, cmds)
<1>1. /\ m.ctrlIn \in Seq(Commands)
      /\ Elements(m.ctrlIn) = {Head(m.ctrlIn)} \cup Elements(Tail(m.ctrlIn))
      /\ \A x : Times(m.ctrlIn, x) = Times(Tail(m.ctrlIn), x) + (IF Head(m.ctrlIn) = x THEN 1 ELSE 0)
      /\ Tail(m.ctrlIn) \in Seq(Commands)
  BY CounterFields, TailList
<1>2. \A x : Times(Tail(m.ctrlIn), x) \in Nat
  BY <1>1, TimesType
<1>3. \A k \in Keys : InOrder(m.ctrlIn, k) => InOrder(Tail(m.ctrlIn), k)
  BY <1>1, OrderTail
<1>4. \A k \in Keys : Times(n.ctrlIn, Draining(k)) = Times(m.ctrlIn, Draining(k))
  BY <1>1, <1>2
<1>. QED BY <1>1, <1>3, <1>4 DEF Served

LEMMA DrainGood ==
  ASSUME NEW m, NEW acc, NEW mem, NEW drv, NEW cmds, NEW rst, Good(m, acc, mem, drv, cmds, rst),
         m.ctrlIn # <<>>, NEW d \in Keys, Head(m.ctrlIn) = Draining(d), ~HasOutstanding(m, d),
         NEW n, n = [m EXCEPT !.ctrlIn = Tail(@), !.ctrlOut = Append(@, Drained(d))]
  PROVE  Good(n, acc, mem, drv, cmds, rst)
<1>1. /\ m \in Counters /\ m.ctrlIn \in Seq(Commands) /\ Tail(m.ctrlIn) \in Seq(Commands)
      /\ Elements(m.ctrlIn) = {Draining(d)} \cup Elements(Tail(m.ctrlIn))
      /\ \A x : Times(m.ctrlIn, x) = Times(Tail(m.ctrlIn), x) + (IF Draining(d) = x THEN 1 ELSE 0)
  BY GoodType, CounterFields, TailList
<1>2. /\ Drained(d) \in Reports /\ \A k : Draining(d) = Draining(k) <=> d = k
      /\ \A k : Drained(d) = Drained(k) <=> d = k
      /\ \A k : ~Wakes(Draining(d), k) /\ Drained(d) # Notice(k) /\ Draining(d) # Refusal(k)
  BY DEF Reports, Draining, Drained, Wakes, Notice, Refusal
<1>3. /\ Append(m.ctrlOut, Drained(d)) \in Seq(Reports)
      /\ Elements(Append(m.ctrlOut, Drained(d))) = Elements(m.ctrlOut) \cup {Drained(d)}
      /\ \A x : Times(Append(m.ctrlOut, Drained(d)), x)
                  = Times(m.ctrlOut, x) + (IF Drained(d) = x THEN 1 ELSE 0)
      /\ \A x : Times(m.ctrlOut, x) \in Nat
  BY <1>1, <1>2, CounterFields, AppendList
<1>4. /\ n.ctrlIn = Tail(m.ctrlIn) /\ n.ctrlOut = Append(m.ctrlOut, Drained(d))
      /\ SameFlow(m, n) /\ SameAsks(m, n) /\ n \in Counters
  BY <1>1, <1>3 DEF Counters, SameFlow, SameAsks
<1>5. Placed(n, acc, mem)
  BY <1>4 DEF Good, Placed, SameFlow, Inside, Beyond
<1>6. Served(n, drv, cmds)
  <2>1. ASSUME NEW k \in Keys
        PROVE  Times(n.ctrlIn, Draining(k)) + Times(cmds, Draining(k)) + Times(n.ctrlOut, Drained(k))
                 = Times(m.ctrlIn, Draining(k)) + Times(cmds, Draining(k)) + Times(m.ctrlOut, Drained(k))
    <3>1. Times(n.ctrlIn, Draining(k)) \in Nat
      BY <1>1, <1>4, TimesType
    <3>2. /\ Times(m.ctrlIn, Draining(k)) = Times(n.ctrlIn, Draining(k)) + (IF d = k THEN 1 ELSE 0)
          /\ Times(n.ctrlOut, Drained(k)) = Times(m.ctrlOut, Drained(k)) + (IF d = k THEN 1 ELSE 0)
      BY <1>1, <1>2, <1>3, <1>4
    <3>3. CASE d = k
      <4>1. Times(m.ctrlIn, Draining(k)) = Times(n.ctrlIn, Draining(k)) + 1
        BY <3>2, <3>3
      <4>2. Times(n.ctrlOut, Drained(k)) = Times(m.ctrlOut, Drained(k)) + 1
        BY <3>2, <3>3
      <4>. DEFINE a == Times(n.ctrlIn, Draining(k))
                  b == Times(cmds, Draining(k))
                  c == Times(m.ctrlOut, Drained(k))
      <4>3. a \in Nat /\ c \in Nat /\ b \in Nat
        BY <3>1, <1>3, TimesType DEF Good
      <4>. QED BY <4>1, <4>2, <4>3
    <3>4. CASE d # k
      BY <3>1, <3>2, <3>4, <1>3
    <3>. QED BY <3>3, <3>4
  <2>2. ASSUME NEW k \in Keys
        PROVE  InOrder(n.ctrlIn, k) /\ (k = d => Refusal(k) \notin Elements(n.ctrlIn))
    <3>1. InOrder(m.ctrlIn, k)
      BY DEF Good, Served
    <3>. QED BY <3>1, <1>1, <1>4, OrderTail
  <2>3. Settled(m, d)
    BY DEF HasOutstanding, Settled
  <2>4. \A k \in Keys : Settled(n, k) <=> Settled(m, k)
    BY <1>4 DEF SameFlow, Settled
  <2>5. Refusal(d) \notin Elements(cmds)
    BY <1>1 DEF Good, Served
  <2>. QED BY <1>1, <1>2, <1>3, <1>4, <2>1, <2>2, <2>3, <2>4, <2>5 DEF Good, Served
<1>7. Minds(m, n)
  BY <1>1, <1>2, <1>3, <1>4, QuietMinds DEF Good, SameFlow, Minding
<1>. QED BY <1>4, <1>5, <1>6, <1>7, RememberedKept DEF Good

(* The command at the head of the port is taken, and nothing else done. *)
LEMMA TakeCommand ==
  ASSUME NEW m \in Counters, m.ctrlIn # <<>>, NEW rest, rest = [m EXCEPT !.ctrlIn = Tail(@)]
  PROVE  /\ rest \in Counters /\ SameFlow(m, rest) /\ SameAsks(m, rest)
         /\ rest.ctrlIn = Tail(m.ctrlIn) /\ rest.ctrlOut = m.ctrlOut /\ rest.count = m.count
         /\ Head(m.ctrlIn) \in Commands
         /\ \A c \in Elements(m.ctrlIn) : c = Head(m.ctrlIn) \/ c \in Elements(rest.ctrlIn)
<1>1. /\ m.ctrlIn \in Seq(Commands) /\ Tail(m.ctrlIn) \in Seq(Commands) /\ Head(m.ctrlIn) \in Commands
      /\ Elements(m.ctrlIn) = {Head(m.ctrlIn)} \cup Elements(Tail(m.ctrlIn))
  BY CounterFields, TailList
<1>. QED BY <1>1 DEF Counters, SameFlow, SameAsks

LEMMA ResetGood ==
  ASSUME NEW m, NEW acc, NEW mem, NEW drv, NEW cmds, NEW rst, Good(m, acc, mem, drv, cmds, rst),
         m.ctrlIn # <<>>, NEW k \in Keys, Head(m.ctrlIn) = [kind |-> "Reset", region |-> k],
         NEW n, n = ResetRegion([m EXCEPT !.ctrlIn = Tail(@)], k)
  PROVE  Good(n, acc, mem, drv, cmds, rst)
<1>. DEFINE rest == [m EXCEPT !.ctrlIn = Tail(@)]
<1>1. m \in Counters /\ n = ResetRegion(rest, k)
  BY GoodType
<1>2. /\ rest \in Counters /\ SameFlow(m, rest) /\ SameAsks(m, rest)
      /\ rest.ctrlIn = Tail(m.ctrlIn) /\ rest.ctrlOut = m.ctrlOut
      /\ \A c \in Elements(m.ctrlIn) : c = Head(m.ctrlIn) \/ c \in Elements(rest.ctrlIn)
  BY <1>1, TakeCommand
<1>. HIDE DEF rest
<1>3. n \in Counters /\ SameFlow(rest, n) /\ SameCtrl(rest, n) /\ Rearmed(rest, n, k)
  BY <1>1, <1>2, ResetEffect
<1>4. /\ SameFlow(m, n) /\ n.ctrlIn = Tail(m.ctrlIn) /\ n.ctrlOut = m.ctrlOut
      /\ Rearmed(m, n, k)
  BY <1>2, <1>3 DEF SameFlow, SameCtrl, SameAsks, Rearmed
<1>5. Placed(n, acc, mem)
  BY <1>4 DEF Good, Placed, SameFlow, Inside, Beyond
<1>6. Served(n, drv, cmds)
  <2>1. \A j \in Keys : Head(m.ctrlIn) # Draining(j) /\ (Settled(m, j) => Settled(n, j))
    BY <1>4 DEF Draining, SameFlow, Settled
  <2>. QED BY <1>1, <1>4, <2>1, CommandServed DEF Good
<1>7. Minds(m, n)
  <2>1. \A c \in Elements(m.ctrlIn) : c \in Elements(n.ctrlIn) \/ \A j \in Keys : Wakes(c, j) => j = k
    BY <1>2, <1>3 DEF SameCtrl, Wakes
  <2>. QED BY <1>1, <1>4, <2>1, RearmedMinds DEF SameFlow, Good
<1>. QED BY <1>3, <1>5, <1>6, <1>7, RememberedKept DEF Good

LEMMA ResetAllGood ==
  ASSUME NEW m, NEW acc, NEW mem, NEW drv, NEW cmds, NEW rst, Good(m, acc, mem, drv, cmds, rst),
         m.ctrlIn # <<>>, Head(m.ctrlIn) = [kind |-> "ResetAll"],
         NEW n, n = ResetAll([m EXCEPT !.ctrlIn = Tail(@)])
  PROVE  Good(n, acc, mem, drv, cmds, rst)
<1>. DEFINE rest == [m EXCEPT !.ctrlIn = Tail(@)]
            kept == {k \in Elements(m.pendingNotifications) : m.stalledWrites[k] # <<>>}
            asks == Keep(m.pendingNotifications, kept)
<1>1. m \in Counters /\ n = ResetAll(rest)
  BY GoodType
<1>2. /\ rest \in Counters /\ SameFlow(m, rest) /\ SameAsks(m, rest)
      /\ rest.ctrlIn = Tail(m.ctrlIn) /\ rest.ctrlOut = m.ctrlOut
      /\ \A c \in Elements(m.ctrlIn) : c = Head(m.ctrlIn) \/ c \in Elements(rest.ctrlIn)
  BY <1>1, TakeCommand
<1>3. n = [rest EXCEPT !.count = [k \in Keys |-> 0], !.latched = kept, !.pendingNotifications = asks]
  <2>1. {k \in Elements(rest.pendingNotifications) : rest.stalledWrites[k] # <<>>} = kept
    BY <1>2 DEF SameFlow, SameAsks
  <2>. QED BY <1>1, <1>2, <2>1 DEF ResetAll, SameAsks
<1>. HIDE DEF rest
<1>4. /\ asks \in Seq(Keys) /\ Elements(asks) = kept /\ Distinct(asks) /\ kept \in SUBSET Keys
  <2>1. m.pendingNotifications \in Seq(Keys)
    BY <1>1, CounterFields
  <2>2. Elements(m.pendingNotifications) \subseteq Keys
    BY <2>1 DEF Elements
  <2>3. asks \in Seq(Keys) /\ Elements(asks) = Elements(m.pendingNotifications) \cap kept
    BY <2>1, KeepList
  <2>4. Distinct(asks)
    BY <2>1, DistinctKeep DEF Good, Asked
  <2>. QED BY <2>2, <2>3, <2>4
<1>. HIDE DEF asks
<1>5. /\ n \in Counters /\ n.latched = kept /\ n.pendingNotifications = asks
      /\ n.ctrlIn = rest.ctrlIn /\ n.ctrlOut = rest.ctrlOut /\ SameFlow(rest, n)
  <2>1. [k \in Keys |-> 0] \in [Keys -> 0..Threshold]
    BY CounterAssumption
  <2>. QED BY <1>2, <1>3, <1>4, <2>1 DEF Counters, SameFlow
<1>6. SameFlow(m, n) /\ n.ctrlIn = Tail(m.ctrlIn) /\ n.ctrlOut = m.ctrlOut
  BY <1>2, <1>5 DEF SameFlow
<1>7. Placed(n, acc, mem)
  BY <1>6 DEF Good, Placed, SameFlow, Inside, Beyond
<1>8. Served(n, drv, cmds)
  <2>1. \A j \in Keys : Head(m.ctrlIn) # Draining(j) /\ (Settled(m, j) => Settled(n, j))
    BY <1>6 DEF Draining, SameFlow, Settled
  <2>. QED BY <1>1, <1>6, <2>1, CommandServed DEF Good
<1>9. Minds(m, n)
  <2>1. Asked(n)
    BY <1>4, <1>5 DEF Asked
  <2>2. \A c \in Elements(m.ctrlIn), k \in Keys : Wakes(c, k) => c \in Elements(n.ctrlIn)
    BY <1>2, <1>5 DEF Wakes
  <2>. QED BY <1>4, <1>5, <1>6, <2>1, <2>2 DEF Minds, Minding, SameFlow
<1>. QED BY <1>5, <1>7, <1>8, <1>9, RememberedKept DEF Good

(* The writes of region k leave it, for the host if they were refused and  *)
(* to be retried otherwise.                                                *)
Released(m, n, k, refused) ==
  /\ n.stalledWrites = [m.stalledWrites EXCEPT ![k] = <<>>]
  /\ refused => /\ n.pendingRemoteWrites = m.pendingRemoteWrites \o m.stalledWrites[k]
                /\ n.pendingRetries = m.pendingRetries
  /\ ~refused => /\ n.pendingRetries = m.pendingRetries \o m.stalledWrites[k]
                 /\ n.pendingRemoteWrites = m.pendingRemoteWrites
  /\ n.topIn = m.topIn /\ n.topOut = m.topOut /\ n.bottomIn = m.bottomIn
  /\ n.bottomOut = m.bottomOut /\ n.transactions = m.transactions
  /\ n.latched = m.latched \ {k}
  /\ n.pendingNotifications = Keep(m.pendingNotifications, Keys \ {k})

LEMMA ReleaseEffect ==
  ASSUME NEW m \in Counters, NEW k \in Keys, NEW refused \in BOOLEAN,
         NEW n, n = ReleaseRange(m, k, refused)
  PROVE  n \in Counters /\ SameCtrl(m, n) /\ Released(m, n, k, refused)
<1>. DEFINE writes == m.stalledWrites[k]
            held == [m.stalledWrites EXCEPT ![k] = <<>>]
            m0 == [m EXCEPT !.stalledWrites = held]
            m1 == ResetRegion(m0, k)
            remote == m.pendingRemoteWrites \o writes
            retries == m.pendingRetries \o writes
<1>1. /\ m.stalledWrites \in [Keys -> Seq(Requests)] /\ writes \in Seq(Requests)
      /\ m.pendingRemoteWrites \in Seq(Requests) /\ m.pendingRetries \in Seq(Requests)
  BY CounterFields
<1>2. held \in [Keys -> Seq(Requests)] /\ held[k] = <<>>
  BY <1>1
<1>3. remote \in Seq(Requests) /\ retries \in Seq(Requests)
  BY <1>1
<1>4. m0 = [m EXCEPT !.stalledWrites[k] = <<>>]
  OBVIOUS
<1>5. n = IF refused THEN [m1 EXCEPT !.pendingRemoteWrites = @ \o writes]
                     ELSE [m1 EXCEPT !.pendingRetries = @ \o writes]
  BY <1>4 DEF ReleaseRange
<1>. HIDE DEF writes, held
<1>6. m0 \in Counters /\ m0.stalledWrites = held /\ m0.topIn = m.topIn /\ m0.topOut = m.topOut
      /\ m0.bottomIn = m.bottomIn /\ m0.bottomOut = m.bottomOut /\ m0.transactions = m.transactions
      /\ m0.pendingRemoteWrites = m.pendingRemoteWrites /\ m0.pendingRetries = m.pendingRetries
      /\ SameCtrl(m, m0) /\ SameAsks(m, m0)
  BY <1>2 DEF Counters, SameCtrl, SameAsks
<1>. HIDE DEF m0
<1>7. m1 \in Counters /\ SameFlow(m0, m1) /\ SameCtrl(m0, m1) /\ Rearmed(m0, m1, k)
  BY <1>6, ResetEffect
<1>. HIDE DEF m1
<1>8. /\ m1.stalledWrites = held /\ m1.topIn = m.topIn /\ m1.topOut = m.topOut
      /\ m1.bottomIn = m.bottomIn /\ m1.bottomOut = m.bottomOut /\ m1.transactions = m.transactions
      /\ m1.pendingRemoteWrites = m.pendingRemoteWrites /\ m1.pendingRetries = m.pendingRetries
      /\ SameCtrl(m, m1) /\ m1.latched = m.latched \ {k}
      /\ m1.pendingNotifications = Keep(m.pendingNotifications, Keys \ {k})
  BY <1>2, <1>6, <1>7 DEF SameFlow, SameCtrl, SameAsks, Rearmed
<1>9. CASE refused
  <2>1. n = [m1 EXCEPT !.pendingRemoteWrites = remote]
    BY <1>5, <1>8, <1>9
  <2>. HIDE DEF remote
  <2>2. /\ n \in Counters /\ n.stalledWrites = held /\ n.topIn = m.topIn /\ n.topOut = m.topOut
        /\ n.bottomIn = m.bottomIn /\ n.bottomOut = m.bottomOut /\ n.transactions = m.transactions
        /\ n.pendingRemoteWrites = remote /\ n.pendingRetries = m.pendingRetries
        /\ SameCtrl(m, n) /\ n.latched = m.latched \ {k}
        /\ n.pendingNotifications = Keep(m.pendingNotifications, Keys \ {k})
    BY <2>1, <1>3, <1>7, <1>8 DEF Counters, SameCtrl
  <2>. QED BY <2>2, <1>9 DEF Released, held, remote, writes
<1>10. CASE ~refused
  <2>1. n = [m1 EXCEPT !.pendingRetries = retries]
    BY <1>5, <1>8, <1>10
  <2>. HIDE DEF retries
  <2>2. /\ n \in Counters /\ n.stalledWrites = held /\ n.topIn = m.topIn /\ n.topOut = m.topOut
        /\ n.bottomIn = m.bottomIn /\ n.bottomOut = m.bottomOut /\ n.transactions = m.transactions
        /\ n.pendingRemoteWrites = m.pendingRemoteWrites /\ n.pendingRetries = retries
        /\ SameCtrl(m, n) /\ n.latched = m.latched \ {k}
        /\ n.pendingNotifications = Keep(m.pendingNotifications, Keys \ {k})
    BY <2>1, <1>3, <1>7, <1>8 DEF Counters, SameCtrl
  <2>. QED BY <2>2, <1>10 DEF Released, held, retries, writes
<1>. QED BY <1>9, <1>10

Elsewhere(m, q) ==
  Times(m.topIn, q) + Times(m.bottomOut, q) + Times(m.bottomIn, q) + Count(m.topOut, AnswersTo(q))

LEMMA InsideParts ==
  ASSUME NEW m \in Counters, NEW q \in Requests
  PROVE  Inside(m, q) =
           Elsewhere(m, q)
             + (Times(m.stalledWrites[q.region], q) + Times(m.pendingRemoteWrites, q)
                  + Times(m.pendingRetries, q))
<1>1. Counted(m, q)
  BY PlaceCounts
<1>. QED BY <1>1 DEF Inside, Elsewhere, Counted

LEMMA ReplayGood ==
  ASSUME NEW m, NEW acc, NEW mem, NEW drv, NEW cmds, NEW rst, Good(m, acc, mem, drv, cmds, rst),
         m.ctrlIn # <<>>, NEW k \in Keys, NEW refused \in BOOLEAN,
         Head(m.ctrlIn) = [kind |-> "Replay", region |-> k, refused |-> refused],
         NEW n, n = ReleaseRange([m EXCEPT !.ctrlIn = Tail(@)], k, refused)
  PROVE  Good(n, acc, mem, drv, cmds, rst)
<1>. DEFINE rest == [m EXCEPT !.ctrlIn = Tail(@)]
<1>1. m \in Counters /\ n = ReleaseRange(rest, k, refused)
  BY GoodType
<1>2. /\ rest \in Counters /\ SameFlow(m, rest) /\ SameAsks(m, rest)
      /\ rest.ctrlIn = Tail(m.ctrlIn) /\ rest.ctrlOut = m.ctrlOut
      /\ \A c \in Elements(m.ctrlIn) : c = Head(m.ctrlIn) \/ c \in Elements(rest.ctrlIn)
  BY <1>1, TakeCommand
<1>. HIDE DEF rest
<1>3. n \in Counters /\ SameCtrl(rest, n) /\ Released(rest, n, k, refused)
  BY <1>1, <1>2, ReleaseEffect
<1>4. n.ctrlIn = Tail(m.ctrlIn) /\ n.ctrlOut = m.ctrlOut /\ Released(m, n, k, refused)
  BY <1>2, <1>3 DEF SameFlow, SameCtrl, SameAsks, Released
<1>5. /\ m.stalledWrites \in [Keys -> Seq(Requests)] /\ m.stalledWrites[k] \in Seq(Requests)
      /\ n.stalledWrites[k] = <<>>
      /\ \A j \in Keys : j # k => n.stalledWrites[j] = m.stalledWrites[j]
      /\ m.pendingRemoteWrites \in Seq(Requests) /\ m.pendingRetries \in Seq(Requests)
  BY <1>1, <1>4, CounterFields DEF Released
<1>6. Placed(n, acc, mem)
  <2>1. \A j \in Keys : \A q \in Elements(n.stalledWrites[j]) : q.region = j
    BY <1>5, EmptyList DEF Good, Placed
  <2>2. ASSUME NEW q \in Requests PROVE Inside(n, q) = Inside(m, q)
    <3>1. Counted(m, q) /\ Counted(n, q) /\ q.region \in Keys
      BY <1>1, <1>3, PlaceCounts, RequestRegion
    <3>2. /\ Times(n.topIn, q) = Times(m.topIn, q)
          /\ Times(n.bottomOut, q) = Times(m.bottomOut, q) /\ Times(n.bottomIn, q) = Times(m.bottomIn, q)
          /\ Count(n.topOut, AnswersTo(q)) = Count(m.topOut, AnswersTo(q))
      BY <1>4 DEF Released
    <3>3. Times(n.pendingRemoteWrites, q) + Times(n.pendingRetries, q)
            = Times(m.pendingRemoteWrites, q) + Times(m.pendingRetries, q) + Times(m.stalledWrites[k], q)
      <4>1. /\ Times(m.pendingRemoteWrites \o m.stalledWrites[k], q)
                 = Times(m.pendingRemoteWrites, q) + Times(m.stalledWrites[k], q)
            /\ Times(m.pendingRetries \o m.stalledWrites[k], q)
                 = Times(m.pendingRetries, q) + Times(m.stalledWrites[k], q)
        BY <1>5, TimesConcat
      <4>2. Times(m.stalledWrites[k], q) \in Nat
        BY <1>5, TimesType
      <4>3. CASE refused
        <5>1. /\ n.pendingRemoteWrites = m.pendingRemoteWrites \o m.stalledWrites[k]
              /\ n.pendingRetries = m.pendingRetries
          BY <4>3, <1>4 DEF Released
        <5>2. /\ Times(n.pendingRemoteWrites, q)
                   = Times(m.pendingRemoteWrites, q) + Times(m.stalledWrites[k], q)
              /\ Times(n.pendingRetries, q) = Times(m.pendingRetries, q)
          BY <5>1, <4>1, Zenon
        <5>. QED BY <5>2, <4>2, <3>1 DEF Counted
      <4>4. CASE ~refused
        <5>1. /\ n.pendingRetries = m.pendingRetries \o m.stalledWrites[k]
              /\ n.pendingRemoteWrites = m.pendingRemoteWrites
          BY <4>4, <1>4 DEF Released
        <5>2. /\ Times(n.pendingRetries, q) = Times(m.pendingRetries, q) + Times(m.stalledWrites[k], q)
              /\ Times(n.pendingRemoteWrites, q) = Times(m.pendingRemoteWrites, q)
          BY <5>1, <4>1, Zenon
        <5>. QED BY <5>2, <4>2, <3>1 DEF Counted
      <4>. QED BY <4>3, <4>4
    <3>4. Times(n.stalledWrites[q.region], q) + Times(m.stalledWrites[k], q)
            = Times(m.stalledWrites[q.region], q)
      <4>1. CASE q.region = k
        <5>1. Times(n.stalledWrites[q.region], q) = 0
          BY <4>1, <1>5, EmptyList
        <5>. QED BY <5>1, <4>1, <3>1 DEF Counted
      <4>2. CASE q.region # k
        <5>1. q \notin Elements(m.stalledWrites[k])
          BY <4>2 DEF Good, Placed
        <5>2. Times(m.stalledWrites[k], q) = 0
          BY <5>1, <1>5, TimesType
        <5>3. n.stalledWrites[q.region] = m.stalledWrites[q.region]
          BY <4>2, <3>1, <1>5
        <5>. QED BY <5>2, <5>3, <3>1 DEF Counted
      <4>. QED BY <4>1, <4>2
    <3>5. Times(m.stalledWrites[k], q) \in Nat
      BY <1>5, TimesType
    <3>. DEFINE a == Times(n.stalledWrites[q.region], q)
                b == Times(n.pendingRemoteWrites, q)
                c == Times(n.pendingRetries, q)
                d == Times(m.stalledWrites[q.region], q)
                e == Times(m.pendingRemoteWrites, q)
                f == Times(m.pendingRetries, q)
                held == Times(m.stalledWrites[k], q)
    <3>6. /\ a \in Nat /\ b \in Nat /\ c \in Nat /\ d \in Nat /\ e \in Nat /\ f \in Nat
          /\ held \in Nat /\ b + c = e + f + held /\ a + held = d
      BY <3>1, <3>3, <3>4, <3>5 DEF Counted
    <3>. HIDE DEF a, b, c, d, e, f, held
    <3>7. a + b + c = d + e + f
      BY <3>6, SMTT(60)
    <3>8. Elsewhere(n, q) = Elsewhere(m, q)
      BY <3>2 DEF Elsewhere
    <3>. QED BY <3>7, <3>8, <1>1, <1>3, InsideParts DEF a, b, c, d, e, f
  <2>3. n.bottomOut = m.bottomOut /\ n.bottomIn = m.bottomIn /\ n.transactions = m.transactions
    BY <1>4 DEF Released
  <2>. QED BY <2>1, <2>2, <2>3 DEF Good, Placed, Beyond
<1>7. Served(n, drv, cmds)
  <2>1. refused => Head(m.ctrlIn) = Refusal(k)
    BY DEF Refusal
  <2>2. CASE refused
    <3>1. Elements(n.pendingRemoteWrites) = Elements(m.pendingRemoteWrites) \cup Elements(m.stalledWrites[k])
      <4>1. n.pendingRemoteWrites = m.pendingRemoteWrites \o m.stalledWrites[k]
        BY <2>2, <1>4 DEF Released
      <4>2. Elements(m.pendingRemoteWrites \o m.stalledWrites[k])
              = Elements(m.pendingRemoteWrites) \cup Elements(m.stalledWrites[k])
        BY <1>5, ElementsConcat
      <4>. QED BY <4>1, <4>2, Zenon
    <3>2. ASSUME NEW j \in Keys, Settled(m, j), j # k PROVE Settled(n, j)
      <4>1. \A q \in Elements(m.stalledWrites[k]) : q.region # j
        BY <3>2 DEF Good, Placed
      <4>. QED BY <3>1, <3>2, <4>1, <1>4 DEF Settled, Released
    <3>3. \A j \in Keys : Head(m.ctrlIn) # Draining(j)
      BY DEF Draining
    <3>. QED BY <2>1, <2>2, <3>2, <3>3, <1>1, <1>4, CommandServed DEF Good
  <2>3. CASE ~refused
    <3>1. n.pendingRemoteWrites = m.pendingRemoteWrites /\ n.transactions = m.transactions
      BY <2>3, <1>4 DEF Released
    <3>2. \A j \in Keys : Head(m.ctrlIn) # Draining(j) /\ (Settled(m, j) => Settled(n, j))
      BY <3>1 DEF Draining, Settled
    <3>. QED BY <3>2, <1>1, <1>4, CommandServed DEF Good
  <2>. QED BY <2>2, <2>3
<1>8. Minds(m, n)
  <2>. DEFINE others == Keep(m.pendingNotifications, Keys \ {k})
  <2>1. /\ others \in Seq(Keys) /\ Distinct(others)
        /\ Elements(others) = Elements(m.pendingNotifications) \cap (Keys \ {k})
    BY <1>1, CounterFields, KeepList, DistinctKeep DEF Good, Asked
  <2>2. n.latched = m.latched \ {k} /\ n.pendingNotifications = others
    BY <1>4 DEF Released
  <2>. HIDE DEF others
  <2>3. Asked(n)
    BY <2>1, <2>2 DEF Good, Asked
  <2>4. \A c \in Elements(m.ctrlIn) : c \in Elements(n.ctrlIn) \/ \A j \in Keys : Wakes(c, j) => j = k
    BY <1>2, <1>4 DEF Wakes
  <2>. QED BY <1>4, <1>5, <2>1, <2>2, <2>3, <2>4 DEF Minds, Minding
<1>. QED BY <1>3, <1>6, <1>7, <1>8, RememberedKept DEF Good

LEMMA CtrlMessageGood ==
  ASSUME NEW m, NEW acc, NEW mem, NEW drv, NEW cmds, NEW rst, Good(m, acc, mem, drv, cmds, rst)
  PROVE  Good(ProcessCtrlMessage(m), acc, mem, drv, cmds, rst)
<1>. DEFINE c == Head(m.ctrlIn)
            rest == [m EXCEPT !.ctrlIn = Tail(@)]
<1>1. CASE m.ctrlIn = <<>>
  BY <1>1 DEF ProcessCtrlMessage
<1>2. CASE m.ctrlIn # <<>>
  <2>1. c \in Commands /\ m \in Counters
    BY <1>2, GoodType, TakeCommand
  <2>2. CASE c.kind = "ResetAll"
    <3>1. c = [kind |-> "ResetAll"]
      BY <2>1, <2>2 DEF Commands
    <3>2. ProcessCtrlMessage(m) = ResetAll(rest)
      BY <1>2, <3>1 DEF ProcessCtrlMessage
    <3>. QED BY <1>2, <3>1, <3>2, ResetAllGood
  <2>3. CASE c.kind = "Reset"
    <3>1. c.region \in Keys /\ c = [kind |-> "Reset", region |-> c.region]
      BY <2>1, <2>3 DEF Commands
    <3>2. ProcessCtrlMessage(m) = ResetRegion(rest, c.region)
      BY <1>2, <2>3 DEF ProcessCtrlMessage
    <3>. QED BY <1>2, <3>1, <3>2, ResetGood
  <2>4. CASE c.kind = "Replay"
    <3>1. /\ c.region \in Keys /\ c.refused \in BOOLEAN
          /\ c = [kind |-> "Replay", region |-> c.region, refused |-> c.refused]
      BY <2>1, <2>4 DEF Commands
    <3>2. ProcessCtrlMessage(m) = ReleaseRange(rest, c.region, c.refused)
      BY <1>2, <2>4 DEF ProcessCtrlMessage
    <3>. QED BY <1>2, <3>1, <3>2, ReplayGood
  <2>5. CASE c.kind = "Drain"
    <3>1. c.region \in Keys /\ c = Draining(c.region)
      BY <2>1, <2>5 DEF Commands, Draining
    <3>2. CASE HasOutstanding(m, c.region) \/ Full(m.ctrlOut)
      <4>1. ProcessCtrlMessage(m) = m
        BY <1>2, <2>5, <3>2 DEF ProcessCtrlMessage
      <4>. QED BY <4>1
    <3>3. CASE ~(HasOutstanding(m, c.region) \/ Full(m.ctrlOut))
      <4>1. ProcessCtrlMessage(m) = [rest EXCEPT !.ctrlOut = Append(@, Drained(c.region))]
        BY <1>2, <2>5, <3>3 DEF ProcessCtrlMessage, Drained
      <4>2. [rest EXCEPT !.ctrlOut = Append(@, Drained(c.region))]
              = [m EXCEPT !.ctrlIn = Tail(@), !.ctrlOut = Append(@, Drained(c.region))]
        BY <2>1 DEF Counters
      <4>. QED BY <1>2, <3>1, <3>3, <4>1, <4>2, DrainGood
    <3>. QED BY <3>2, <3>3
  <2>6. c.kind \in {"ResetAll", "Reset", "Replay", "Drain"}
    BY <2>1 DEF Commands
  <2>. QED BY <2>2, <2>3, <2>4, <2>5, <2>6
<1>. QED BY <1>1, <1>2

-----------------------------------------------------------------------------
(* A tick.  The turns of a cycle are a function defined by recursion: that *)
(* there is one is shown by its least argument without, and that it keeps  *)
(* the invariant in the same way.                                          *)

Turn(m) == ProcessTopMessage(ProcessBottomResponse(m))

LEMMA TurnsExist ==
  ASSUME NEW m
  PROVE  \E f : f = [i \in 0..ReqPerCycle |-> IF i = 0 THEN m ELSE Turn(f[i - 1])]
<1>. DEFINE Turns(f, n) == f = [i \in 0..n |-> IF i = 0 THEN m ELSE Turn(f[i - 1])]
            Bad == {n \in 0..ReqPerCycle : ~\E f : Turns(f, n)}
<1>1. ReqPerCycle \in Nat
  BY CounterAssumption
<1>2. ASSUME Bad # {} PROVE FALSE
  <2>1. IsFiniteSet(Bad) /\ Bad \in SUBSET Int
    <3>1. IsFiniteSet(0..ReqPerCycle)
      BY <1>1, FS_Interval
    <3>. QED BY <3>1, <1>1, FS_Subset
  <2>2. PICK n \in Bad : \A k \in Bad : n <= k
    BY <2>1, <1>2, LeastElement
  <2>3. CASE n = 0
    <3>1. Turns([i \in 0..0 |-> m], 0)
      OBVIOUS
    <3>. QED BY <3>1, <2>2, <2>3
  <2>4. CASE n # 0
    <3>1. n \in Nat /\ n - 1 \in 0..ReqPerCycle /\ ~(n <= n - 1)
      BY <2>4, <1>1
    <3>2. n - 1 \notin Bad
      BY <3>1, <2>2
    <3>3. PICK f : Turns(f, n - 1)
      BY <3>1, <3>2
    <3>. DEFINE g == [i \in 0..n |-> IF i = n THEN Turn(f[n - 1]) ELSE f[i]]
    <3>4. Turns(g, n)
      <4>1. ASSUME NEW i \in 0..n PROVE g[i] = IF i = 0 THEN m ELSE Turn(g[i - 1])
        <5>1. CASE i = n
          BY <5>1, <2>4, <3>1
        <5>2. CASE i # n
          <6>1. i \in 0..(n - 1)
            BY <5>2, <3>1
          <6>2. f[i] = IF i = 0 THEN m ELSE Turn(f[i - 1])
            BY <6>1, <3>3
          <6>3. g[i] = f[i] /\ (i # 0 => g[i - 1] = f[i - 1])
            BY <6>1, <5>2, <3>1
          <6>. QED BY <6>2, <6>3
        <5>. QED BY <5>1, <5>2
      <4>2. g = [i \in 0..n |-> g[i]]
        OBVIOUS
      <4>. HIDE DEF g
      <4>3. [i \in 0..n |-> g[i]] = [i \in 0..n |-> IF i = 0 THEN m ELSE Turn(g[i - 1])]
        BY <4>1
      <4>. QED BY <4>2, <4>3
    <3>. QED BY <3>4, <2>2
  <2>. QED BY <2>3, <2>4
<1>3. ReqPerCycle \in 0..ReqPerCycle
  BY <1>1
<1>. QED BY <1>2, <1>3

LEMMA RequestsGood ==
  ASSUME NEW m, NEW acc, NEW mem, NEW drv, NEW cmds, NEW rst, Good(m, acc, mem, drv, cmds, rst)
  PROVE  Good(ProcessRequests(m), acc, mem, drv, cmds, rst)
<1>. DEFINE f == CHOOSE g : g = [i \in 0..ReqPerCycle |-> IF i = 0 THEN m ELSE Turn(g[i - 1])]
            Bad == {i \in 0..ReqPerCycle : ~Good(f[i], acc, mem, drv, cmds, rst)}
<1>1. f = [i \in 0..ReqPerCycle |-> IF i = 0 THEN m ELSE Turn(f[i - 1])]
  BY TurnsExist
<1>2. ProcessRequests(m) = f[ReqPerCycle]
  BY DEF ProcessRequests, Turn
<1>. HIDE DEF f
<1>3. ReqPerCycle \in Nat
  BY CounterAssumption
<1>4. f[0] = m /\ \A i \in 1..ReqPerCycle : f[i] = Turn(f[i - 1])
  BY <1>1, <1>3
<1>5. ASSUME Bad # {} PROVE FALSE
  <2>1. IsFiniteSet(Bad) /\ Bad \in SUBSET Int
    <3>1. IsFiniteSet(0..ReqPerCycle)
      BY <1>3, FS_Interval
    <3>. QED BY <3>1, <1>3, FS_Subset
  <2>2. PICK n \in Bad : \A k \in Bad : n <= k
    BY <2>1, <1>5, LeastElement
  <2>3. n # 0
    BY <1>4, <2>2
  <2>4. n \in 1..ReqPerCycle /\ n - 1 \in 0..ReqPerCycle /\ ~(n <= n - 1)
    BY <2>3, <1>3
  <2>5. Good(f[n - 1], acc, mem, drv, cmds, rst)
    BY <2>2, <2>4
  <2>6. Good(Turn(f[n - 1]), acc, mem, drv, cmds, rst)
    BY <2>5, BottomResponseGood, TopMessageGood DEF Turn
  <2>. QED BY <2>2, <2>4, <2>6, <1>4
<1>6. ReqPerCycle \in 0..ReqPerCycle
  BY <1>3
<1>. QED BY <1>2, <1>5, <1>6

LEMMA TickedGood ==
  ASSUME NEW m, NEW acc, NEW mem, NEW drv, NEW cmds, NEW rst, Good(m, acc, mem, drv, cmds, rst)
  PROVE  Good(Ticked(m), acc, mem, drv, cmds, rst)
<1>. DEFINE m1 == ProcessRequests(m)
            m2 == ProcessCtrlMessage(m1)
            m3 == RetryNotification(m2)
            m4 == SendPendingRetry(m3)
<1>1. Good(m1, acc, mem, drv, cmds, rst)
  BY RequestsGood
<1>. HIDE DEF m1
<1>2. Good(m2, acc, mem, drv, cmds, rst)
  BY <1>1, CtrlMessageGood
<1>. HIDE DEF m2
<1>3. Good(m3, acc, mem, drv, cmds, rst)
  BY <1>2, NotificationGood
<1>. HIDE DEF m3
<1>4. Good(m4, acc, mem, drv, cmds, rst)
  BY <1>3, RetryGood
<1>. HIDE DEF m4
<1>5. Good(SendPendingRemoteWrite(m4), acc, mem, drv, cmds, rst)
  BY <1>4, RemoteWriteGood
<1>6. Ticked(m) = SendPendingRemoteWrite(m4)
  BY DEF Ticked, m1, m2, m3, m4
<1>. QED BY <1>5, <1>6

-----------------------------------------------------------------------------
(* The steps of the system.                                                *)

Inv == TypeOK /\ Good(ac, access, memory, driver, commands, resets)

LEMMA CommandTypes ==
  ASSUME NEW k \in Keys
  PROVE  /\ Draining(k) \in Commands /\ [kind |-> "Reset", region |-> k] \in Commands
         /\ [kind |-> "ResetAll"] \in Commands
         /\ \A b \in BOOLEAN : [kind |-> "Replay", region |-> k, refused |-> b] \in Commands
BY DEF Commands, Draining

LEMMA TypeStep ==
  ASSUME Inv, [Next]_vars
  PROVE  TypeOK'
<1>. USE DEF Inv
<1>1. ac \in Counters /\ commands \in Seq(Commands)
  BY DEF TypeOK
<1>2. CASE Tick
  BY <1>2, TickedGood DEF Tick, TypeOK, Good
<1>3. ASSUME NEW q \in Requests, Translate(q) PROVE TypeOK'
  BY <1>3 DEF Translate, TypeOK
<1>4. ASSUME NEW q \in Requests, Issue(q) PROVE TypeOK'
  <2>1. Append(ac.topIn, q) \in Seq(Requests)
    BY <1>1, CounterFields
  <2>2. ac' \in Counters
    BY <1>1, <1>4, <2>1 DEF Issue, Counters
  <2>3. access' \in [Requests -> {"Idle", "Routed", "Sent", "Done"}]
    BY <1>4 DEF Issue, TypeOK
  <2>. QED BY <1>4, <2>2, <2>3 DEF Issue, TypeOK
<1>5. CASE Respond
  <2>1. /\ Head(ac.topOut) \in Answers /\ Tail(ac.topOut) \in Seq(Answers)
    BY <1>1, <1>5, CounterFields, TailList DEF Respond
  <2>2. ac' \in Counters
    BY <1>1, <1>5, <2>1 DEF Respond, Counters
  <2>3. access' \in [Requests -> {"Idle", "Routed", "Sent", "Done"}]
    BY <1>5, <2>1 DEF Respond, TypeOK, Answers
  <2>. QED BY <1>5, <2>2, <2>3 DEF Respond, TypeOK
<1>6. ASSUME NEW q \in Requests, Again(q) PROVE TypeOK'
  BY <1>6 DEF Again, TypeOK
<1>7. CASE Arrive
  <2>1. Head(ac.bottomOut) \in Requests /\ Tail(ac.bottomOut) \in Seq(Requests)
    BY <1>1, <1>7, CounterFields, TailList DEF Arrive
  <2>2. ac' \in Counters
    BY <1>1, <1>7, <2>1 DEF Arrive, Counters
  <2>. QED BY <1>7, <2>1, <2>2 DEF Arrive, TypeOK
<1>8. ASSUME NEW q \in Requests, Perform(q) PROVE TypeOK'
  <2>1. Append(ac.bottomIn, q) \in Seq(Requests)
    BY <1>1, CounterFields
  <2>2. ac' \in Counters
    BY <1>1, <1>8, <2>1 DEF Perform, Counters
  <2>. QED BY <1>8, <2>2 DEF Perform, TypeOK
<1>9. CASE Report
  <2>. DEFINE report == Head(ac.ctrlOut)
  <2>1. /\ report \in Reports /\ Tail(ac.ctrlOut) \in Seq(Reports)
    BY <1>1, <1>9, CounterFields, TailList DEF Report
  <2>2. ac' \in Counters
    BY <1>1, <1>9, <2>1 DEF Report, Counters
  <2>3. report.kind \in {"Notify", "Drained"} /\ report.region \in Keys
    BY <2>1 DEF Reports
  <2>4. driver' = [driver EXCEPT ![report.region] =
                     CASE report.kind = "Notify" /\ @ = "Idle"      -> "Serving"
                       [] report.kind = "Notify" /\ @ # "Idle"      -> @
                       [] report.kind = "Drained"                   -> "Copying"]
    BY <1>9 DEF Report
  <2>. HIDE DEF report
  <2>5. driver' \in [Keys -> {"Idle", "Serving", "Draining", "Copying", "Evicting"}]
    BY <2>3, <2>4 DEF TypeOK
  <2>. QED BY <1>9, <2>2, <2>5 DEF Report, TypeOK
<1>10. ASSUME NEW k \in Keys, ServeResident(k) \/ Refuse(k) \/ RefuseNeighbour(k) PROVE TypeOK'
  <2>1. \E c \in Commands : commands' = Append(commands, c)
    BY <1>10, CommandTypes DEF ServeResident, Refuse, RefuseNeighbour, Command
  <2>2. driver' = [driver EXCEPT ![k] = "Idle"] \/ driver' = driver
    BY <1>10 DEF ServeResident, Refuse, RefuseNeighbour
  <2>3. commands' \in Seq(Commands)
    BY <1>1, <2>1
  <2>. QED BY <1>10, <2>2, <2>3 DEF ServeResident, Refuse, RefuseNeighbour, TypeOK
<1>11. ASSUME NEW k \in Keys, StartMigration(k) PROVE TypeOK'
  <2>1. commands' = Append(commands, Draining(k)) /\ Draining(k) \in Commands
    BY <1>11, CommandTypes DEF StartMigration, Command, Draining
  <2>2. commands' \in Seq(Commands)
    BY <1>1, <2>1
  <2>. QED BY <1>11, <2>2 DEF StartMigration, TypeOK
<1>12. ASSUME NEW k \in Keys, FinishMigration(k) PROVE TypeOK'
  <2>1. \E c \in Commands : commands' = Append(commands, c)
    BY <1>12, CommandTypes DEF FinishMigration, Command
  <2>2. commands' \in Seq(Commands)
    BY <1>1, <2>1
  <2>. QED BY <1>12, <2>2 DEF FinishMigration, TypeOK
<1>13. ASSUME NEW k \in Keys, BeginEviction(k) \/ FinalizeEviction(k) PROVE TypeOK'
  BY <1>13 DEF BeginEviction, FinalizeEviction, TypeOK
<1>14. CASE KernelBoundary
  <2>1. [kind |-> "ResetAll"] \in Commands
    BY DEF Commands
  <2>. QED BY <1>1, <1>14, <2>1 DEF KernelBoundary, Command, TypeOK
<1>15. CASE SendCommand \/ RelayReplayAgain
  <2>1. Head(commands) \in Commands /\ Tail(commands) \in Seq(Commands)
    BY <1>1, <1>15, TailList DEF SendCommand, RelayReplayAgain
  <2>2. Append(ac.ctrlIn, Head(commands)) \in Seq(Commands)
    BY <1>1, <2>1, CounterFields
  <2>3. ac' \in Counters
    BY <1>1, <1>15, <2>2 DEF SendCommand, RelayReplayAgain, Counters
  <2>. QED BY <1>15, <2>1, <2>3 DEF SendCommand, RelayReplayAgain, TypeOK
<1>16. ASSUME NEW k \in Keys, SendReset(k) PROVE TypeOK'
  <2>1. Append(ac.ctrlIn, [kind |-> "Reset", region |-> k]) \in Seq(Commands)
    BY <1>1, CommandTypes, CounterFields
  <2>2. ac' \in Counters
    BY <1>1, <1>16, <2>1 DEF SendReset, Counters
  <2>. QED BY <1>16, <2>2 DEF SendReset, TypeOK
<1>17. CASE UNCHANGED vars
  BY <1>17 DEF vars, TypeOK
<1>. QED BY <1>2, <1>3, <1>4, <1>5, <1>6, <1>7, <1>8, <1>9, <1>10, <1>11, <1>12, <1>13, <1>14, <1>15,
            <1>16, <1>17 DEF Next

(* Where the requests are. *)
LEMMA PlacedStep ==
  ASSUME Inv, TypeOK', [Next]_vars
  PROVE  Placed(ac, access, memory)'
<1>. USE DEF Inv
<1>1. /\ ac \in Counters /\ ac' \in Counters /\ memory \subseteq Requests
      /\ access \in [Requests -> {"Idle", "Routed", "Sent", "Done"}]
  BY DEF TypeOK
<1>2. /\ \A k \in Keys : \A q \in Elements(ac.stalledWrites[k]) : q.region = k
      /\ \A q \in Requests :
           /\ Inside(ac, q) + (IF q \in memory THEN 1 ELSE 0) = IF access[q] = "Sent" THEN 1 ELSE 0
           /\ q \in ac.transactions <=> Beyond(ac, memory, q)
           /\ Counted(ac, q) /\ Counted(ac', q)
  BY <1>1, PlaceCounts DEF Good, Placed
<1>3. ASSUME \A q \in Requests : Inside(ac', q) = Inside(ac, q),
             \A q \in Requests : access'[q] = "Sent" <=> access[q] = "Sent",
             UNCHANGED <<ac.stalledWrites, ac.transactions, ac.bottomOut, ac.bottomIn, memory>>
      PROVE  Placed(ac, access, memory)'
  BY <1>2, <1>3 DEF Placed, Beyond
<1>4. CASE Tick
  BY <1>4, TickedGood DEF Tick, Good
<1>5. ASSUME SameFlow(ac, ac'), UNCHANGED <<access, memory>> PROVE Placed(ac, access, memory)'
  <2>1. \A q \in Requests : Inside(ac', q) = Inside(ac, q)
    BY <1>5 DEF SameFlow, Inside
  <2>. QED BY <1>3, <1>5, <2>1 DEF SameFlow
<1>6. ASSUME NEW q \in Requests, Translate(q) \/ Again(q) PROVE Placed(ac, access, memory)'
  <2>1. \A r \in Requests : access'[r] = "Sent" <=> access[r] = "Sent"
    BY <1>1, <1>6 DEF Translate, Again
  <2>. QED BY <1>3, <1>6, <2>1 DEF Translate, Again
<1>7. ASSUME NEW q \in Requests, Issue(q) PROVE Placed(ac, access, memory)'
  <2>1. /\ ac'.topIn = Append(ac.topIn, q) /\ ac'.topOut = ac.topOut
        /\ ac'.bottomIn = ac.bottomIn /\ ac'.bottomOut = ac.bottomOut
        /\ ac'.transactions = ac.transactions /\ ac'.stalledWrites = ac.stalledWrites
        /\ ac'.pendingRetries = ac.pendingRetries /\ ac'.pendingRemoteWrites = ac.pendingRemoteWrites
        /\ memory' = memory /\ access[q] = "Routed" /\ access' = [access EXCEPT ![q] = "Sent"]
    BY <1>1, <1>7 DEF Issue, Counters
  <2>2. \A x : Times(ac'.topIn, x) = Times(ac.topIn, x) + (IF q = x THEN 1 ELSE 0)
    BY <1>1, <2>1, CounterFields, AppendMore
  <2>3. \A r \in Requests : Inside(ac', r) = Inside(ac, r) + (IF q = r THEN 1 ELSE 0)
    <3>. TAKE r \in Requests
    <3>1. /\ Times(ac'.stalledWrites[r.region], r) = Times(ac.stalledWrites[r.region], r)
          /\ Times(ac'.pendingRemoteWrites, r) = Times(ac.pendingRemoteWrites, r)
          /\ Times(ac'.pendingRetries, r) = Times(ac.pendingRetries, r)
          /\ Times(ac'.bottomOut, r) = Times(ac.bottomOut, r) /\ Times(ac'.bottomIn, r) = Times(ac.bottomIn, r)
          /\ Count(ac'.topOut, AnswersTo(r)) = Count(ac.topOut, AnswersTo(r))
          /\ Times(ac'.topIn, r) = Times(ac.topIn, r) + (IF q = r THEN 1 ELSE 0)
      BY <2>1, <2>2
    <3>. QED BY <1>2, <3>1 DEF Inside, Counted
  <2>4. ASSUME NEW r \in Requests
        PROVE  Inside(ac', r) + (IF r \in memory THEN 1 ELSE 0) = IF access'[r] = "Sent" THEN 1 ELSE 0
    <3>1. CASE r = q
      <4>1. Inside(ac', r) = Inside(ac, r) + 1 /\ access'[r] = "Sent" /\ access[r] # "Sent"
        BY <1>1, <2>1, <2>3, <3>1
      <4>2. Inside(ac, r) \in Nat
        BY <1>2 DEF Inside, Counted
      <4>. QED BY <1>2, <4>1, <4>2
    <3>2. CASE r # q
      <4>1. Inside(ac, r) \in Nat
        BY <1>2 DEF Inside, Counted
      <4>2. Inside(ac', r) = Inside(ac, r) /\ access'[r] = access[r]
        BY <1>1, <2>1, <2>3, <3>2, <4>1
      <4>. QED BY <1>2, <4>2
    <3>. QED BY <3>1, <3>2
  <2>. QED BY <1>2, <2>1, <2>4 DEF Placed, Beyond
<1>8. CASE Respond
  <2>. DEFINE answer == Head(ac.topOut)
              q == answer.req
  <2>1. /\ answer \in Answers /\ ac'.topOut = Tail(ac.topOut) /\ ac'.topIn = ac.topIn
        /\ ac'.bottomIn = ac.bottomIn /\ ac'.bottomOut = ac.bottomOut
        /\ ac'.transactions = ac.transactions /\ ac'.stalledWrites = ac.stalledWrites
        /\ ac'.pendingRetries = ac.pendingRetries /\ ac'.pendingRemoteWrites = ac.pendingRemoteWrites
        /\ memory' = memory
        /\ \A S : Count(ac.topOut, S) = Count(Tail(ac.topOut), S) + (IF answer \in S THEN 1 ELSE 0)
    <3>1. ac.topOut \in Seq(Answers) /\ ac.topOut # <<>>
      BY <1>1, <1>8, CounterFields DEF Respond
    <3>. QED BY <1>1, <1>8, <3>1, TailList, SMTT(30) DEF Respond, Counters
  <2>2. q \in Requests /\ \A r : answer \in AnswersTo(r) <=> q = r
    BY <2>1 DEF Answers, AnswersTo
  <2>3. /\ access'[q] # "Sent" /\ \A r \in Requests : r # q => access'[r] = access[r]
    BY <1>1, <1>8, <2>2 DEF Respond
  <2>. HIDE DEF answer, q
  <2>4. \A r \in Requests : Inside(ac, r) = Inside(ac', r) + (IF q = r THEN 1 ELSE 0)
    <3>. TAKE r \in Requests
    <3>1. /\ Times(ac'.stalledWrites[r.region], r) = Times(ac.stalledWrites[r.region], r)
          /\ Times(ac'.pendingRemoteWrites, r) = Times(ac.pendingRemoteWrites, r)
          /\ Times(ac'.pendingRetries, r) = Times(ac.pendingRetries, r)
          /\ Times(ac'.bottomOut, r) = Times(ac.bottomOut, r) /\ Times(ac'.bottomIn, r) = Times(ac.bottomIn, r)
          /\ Count(ac.topOut, AnswersTo(r)) = Count(ac'.topOut, AnswersTo(r)) + (IF q = r THEN 1 ELSE 0)
          /\ Times(ac'.topIn, r) = Times(ac.topIn, r)
      BY <2>1, <2>2
    <3>. QED BY <1>2, <3>1 DEF Inside, Counted
  <2>5. ASSUME NEW r \in Requests
        PROVE  Inside(ac', r) + (IF r \in memory THEN 1 ELSE 0) = IF access'[r] = "Sent" THEN 1 ELSE 0
    <3>1. Inside(ac', r) \in Nat
      BY <1>2 DEF Inside, Counted
    <3>2. CASE r = q
      <4>1. Inside(ac, r) = Inside(ac', r) + 1 /\ access'[r] # "Sent"
        BY <2>3, <2>4, <3>2
      <4>. QED BY <1>2, <3>1, <4>1
    <3>3. CASE r # q
      <4>1. Inside(ac', r) = Inside(ac, r) /\ access'[r] = access[r]
        BY <2>3, <2>4, <3>1, <3>3
      <4>. QED BY <1>2, <4>1
    <3>. QED BY <3>2, <3>3
  <2>. QED BY <1>2, <2>1, <2>5 DEF Placed, Beyond
<1>9. CASE Arrive
  <2>. DEFINE h == Head(ac.bottomOut)
  <2>1. ac.bottomOut \in Seq(Requests) /\ ac.bottomOut # <<>>
    BY <1>1, <1>9, CounterFields DEF Arrive
  <2>2. /\ h \in Requests /\ Elements(ac.bottomOut) = {h} \cup Elements(Tail(ac.bottomOut))
        /\ \A x : Times(ac.bottomOut, x) = Times(Tail(ac.bottomOut), x) + (IF h = x THEN 1 ELSE 0)
    BY <2>1, TailList
  <2>3. /\ ac'.bottomOut = Tail(ac.bottomOut) /\ ac'.topIn = ac.topIn /\ ac'.topOut = ac.topOut
        /\ ac'.bottomIn = ac.bottomIn
        /\ ac'.transactions = ac.transactions /\ ac'.stalledWrites = ac.stalledWrites
        /\ ac'.pendingRetries = ac.pendingRetries /\ ac'.pendingRemoteWrites = ac.pendingRemoteWrites
        /\ memory' = memory \cup {h} /\ access' = access
    BY <1>1, <1>9 DEF Arrive, Counters
  <2>. HIDE DEF h
  <2>4. ASSUME NEW r \in Requests
        PROVE  /\ Inside(ac, r) = Inside(ac', r) + (IF h = r THEN 1 ELSE 0)
               /\ Inside(ac', r) \in Nat /\ (h = r => Inside(ac, r) > 0)
    <3>1. /\ Times(ac'.stalledWrites[r.region], r) = Times(ac.stalledWrites[r.region], r)
          /\ Times(ac'.pendingRemoteWrites, r) = Times(ac.pendingRemoteWrites, r)
          /\ Times(ac'.pendingRetries, r) = Times(ac.pendingRetries, r)
          /\ Times(ac'.bottomIn, r) = Times(ac.bottomIn, r)
          /\ Count(ac'.topOut, AnswersTo(r)) = Count(ac.topOut, AnswersTo(r))
          /\ Times(ac'.topIn, r) = Times(ac.topIn, r)
      BY <2>3
    <3>2. Times(ac.bottomOut, r) = Times(ac'.bottomOut, r) + (IF h = r THEN 1 ELSE 0)
      BY <2>2, <2>3
    <3>3. Inside(ac', r) \in Nat
      BY <1>2 DEF Inside, Counted
    <3>4. CASE h = r
      <4>1. Times(ac.bottomOut, r) = Times(ac'.bottomOut, r) + 1
        BY <3>2, <3>4
      <4>2. Inside(ac, r) = Inside(ac', r) + 1
        BY <1>2, <3>1, <4>1 DEF Inside, Counted
      <4>. QED BY <3>3, <3>4, <4>2
    <3>5. CASE h # r
      <4>1. Times(ac.bottomOut, r) = Times(ac'.bottomOut, r)
        BY <1>2, <3>2, <3>5 DEF Counted
      <4>2. Inside(ac, r) = Inside(ac', r)
        BY <3>1, <4>1 DEF Inside
      <4>. QED BY <3>3, <3>5, <4>2
    <3>. QED BY <3>4, <3>5
  <2>5. h \notin memory
    BY <1>2, <2>2, <2>4
  <2>6. ASSUME NEW r \in Requests
        PROVE  /\ Inside(ac', r) + (IF r \in memory' THEN 1 ELSE 0) = IF access'[r] = "Sent" THEN 1 ELSE 0
               /\ r \in ac'.transactions <=> Beyond(ac', memory', r)
    <3>1. Beyond(ac', memory', r) <=> Beyond(ac, memory, r)
      BY <2>2, <2>3 DEF Beyond
    <3>2. CASE h = r
      BY <1>2, <2>3, <2>4, <2>5, <3>1, <3>2
    <3>3. CASE h # r
      BY <1>2, <2>3, <2>4, <3>1, <3>3
    <3>. QED BY <3>2, <3>3
  <2>. QED BY <1>2, <2>3, <2>6 DEF Placed
<1>10. ASSUME NEW q \in Requests, Perform(q) PROVE Placed(ac, access, memory)'
  <2>1. /\ ac'.bottomIn = Append(ac.bottomIn, q) /\ ac'.topIn = ac.topIn /\ ac'.topOut = ac.topOut
        /\ ac'.bottomOut = ac.bottomOut
        /\ ac'.transactions = ac.transactions /\ ac'.stalledWrites = ac.stalledWrites
        /\ ac'.pendingRetries = ac.pendingRetries /\ ac'.pendingRemoteWrites = ac.pendingRemoteWrites
        /\ q \in memory /\ memory' = memory \ {q} /\ access' = access
    BY <1>1, <1>10 DEF Perform, Counters
  <2>2. /\ Elements(ac'.bottomIn) = Elements(ac.bottomIn) \cup {q}
        /\ \A x : Times(ac'.bottomIn, x) = Times(ac.bottomIn, x) + (IF q = x THEN 1 ELSE 0)
    BY <1>1, <2>1, CounterFields, AppendMore
  <2>3. ASSUME NEW r \in Requests PROVE Inside(ac', r) = Inside(ac, r) + (IF q = r THEN 1 ELSE 0)
    <3>1. /\ Times(ac'.stalledWrites[r.region], r) = Times(ac.stalledWrites[r.region], r)
          /\ Times(ac'.pendingRemoteWrites, r) = Times(ac.pendingRemoteWrites, r)
          /\ Times(ac'.pendingRetries, r) = Times(ac.pendingRetries, r)
          /\ Times(ac'.bottomOut, r) = Times(ac.bottomOut, r)
          /\ Count(ac'.topOut, AnswersTo(r)) = Count(ac.topOut, AnswersTo(r))
          /\ Times(ac'.topIn, r) = Times(ac.topIn, r)
      BY <2>1
    <3>2. Times(ac'.bottomIn, r) = Times(ac.bottomIn, r) + (IF q = r THEN 1 ELSE 0)
      BY <2>2
    <3>3. CASE q = r
      <4>1. Times(ac'.bottomIn, r) = Times(ac.bottomIn, r) + 1
        BY <3>2, <3>3
      <4>2. Inside(ac', r) = Inside(ac, r) + 1
        BY <1>2, <3>1, <4>1 DEF Inside, Counted
      <4>. QED BY <3>3, <4>2
    <3>4. CASE q # r
      BY <1>2, <3>1, <3>2, <3>4 DEF Inside, Counted
    <3>. QED BY <3>3, <3>4
  <2>4. ASSUME NEW r \in Requests
        PROVE  /\ Inside(ac', r) + (IF r \in memory' THEN 1 ELSE 0) = IF access'[r] = "Sent" THEN 1 ELSE 0
               /\ r \in ac'.transactions <=> Beyond(ac', memory', r)
    <3>1. Beyond(ac', memory', r) <=> Beyond(ac, memory, r)
      BY <2>1, <2>2 DEF Beyond
    <3>2. Inside(ac, r) \in Nat
      BY <1>2 DEF Inside, Counted
    <3>3. CASE q = r
      BY <1>2, <2>1, <2>3, <3>1, <3>2, <3>3
    <3>4. CASE q # r
      BY <1>2, <2>1, <2>3, <3>1, <3>2, <3>4
    <3>. QED BY <3>3, <3>4
  <2>. QED BY <1>2, <2>1, <2>4 DEF Placed
<1>11. CASE Report \/ SendCommand \/ RelayReplayAgain \/ \E k \in Keys : SendReset(k)
  <2>1. SameFlow(ac, ac') /\ UNCHANGED <<access, memory>>
    BY <1>1, <1>11 DEF Report, SendCommand, RelayReplayAgain, SendReset, SameFlow, Counters
  <2>. QED BY <1>5, <2>1
<1>12. CASE \/ KernelBoundary \/ UNCHANGED vars
            \/ \E k \in Keys : ServeResident(k) \/ Refuse(k) \/ RefuseNeighbour(k)
            \/ \E k \in Keys : StartMigration(k) \/ FinishMigration(k)
            \/ \E k \in Keys : BeginEviction(k) \/ FinalizeEviction(k)
  <2>1. UNCHANGED <<ac, access, memory>>
    BY <1>12 DEF KernelBoundary, vars, ServeResident, Refuse, RefuseNeighbour, StartMigration,
                 FinishMigration, BeginEviction, FinalizeEviction
  <2>. QED BY <1>5, <2>1 DEF SameFlow
<1>. QED BY <1>4, <1>6, <1>7, <1>8, <1>9, <1>10, <1>11, <1>12 DEF Next

(* A region that neither drains nor is copied has no drain on its way. *)
LEMMA NoDrain ==
  ASSUME NEW m \in Counters, NEW drv, NEW cmds \in Seq(Commands), Served(m, drv, cmds),
         NEW k \in Keys, drv[k] # "Draining"
  PROVE  /\ Draining(k) \notin Elements(m.ctrlIn) /\ Draining(k) \notin Elements(cmds)
         /\ Drained(k) \notin Elements(m.ctrlOut)
<1>1. /\ Times(m.ctrlIn, Draining(k)) \in Nat /\ Times(cmds, Draining(k)) \in Nat
      /\ Times(m.ctrlOut, Drained(k)) \in Nat
  BY CounterFields, TimesType
<1>2. Times(m.ctrlIn, Draining(k)) + Times(cmds, Draining(k)) + Times(m.ctrlOut, Drained(k)) = 0
  BY DEF Served
<1>3. /\ Times(m.ctrlIn, Draining(k)) = 0 /\ Times(cmds, Draining(k)) = 0
      /\ Times(m.ctrlOut, Drained(k)) = 0
  BY <1>1, <1>2
<1>. QED BY <1>3, CounterFields, TimesType

(* The driver goes on, without a drain, and may add a command. *)
LEMMA DriverServed ==
  ASSUME NEW m \in Counters, NEW drv, NEW cmds \in Seq(Commands), Served(m, drv, cmds), NEW new,
         \A k \in Keys : /\ new[k] = "Draining" <=> drv[k] = "Draining"
                         /\ new[k] = "Copying" => drv[k] = "Copying"
  PROVE  /\ Served(m, new, cmds)
         /\ \A c \in Commands :
              /\ \A k \in Keys : c # Draining(k)
              /\ \A k \in Keys : c = Refusal(k) => new[k] \notin {"Draining", "Copying"}
              => Served(m, new, Append(cmds, c))
<1>1. Served(m, new, cmds)
  BY DEF Served
<1>2. ASSUME NEW c \in Commands, \A k \in Keys : c # Draining(k),
             \A k \in Keys : c = Refusal(k) => new[k] \notin {"Draining", "Copying"}
      PROVE  Served(m, new, Append(cmds, c))
  <2>1. /\ Elements(Append(cmds, c)) = Elements(cmds) \cup {c}
        /\ \A x : Times(Append(cmds, c), x) = Times(cmds, x) + (IF c = x THEN 1 ELSE 0)
        /\ \A x : Times(cmds, x) \in Nat
    BY AppendList
  <2>2. ASSUME NEW k \in Keys
        PROVE  /\ Times(Append(cmds, c), Draining(k)) = Times(cmds, Draining(k))
               /\ InOrder(Append(cmds, c), k)
               /\ c = Refusal(k) => /\ Draining(k) \notin Elements(m.ctrlIn)
                                    /\ Drained(k) \notin Elements(m.ctrlOut) /\ new[k] # "Copying"
    <3>1. Times(Append(cmds, c), Draining(k)) = Times(cmds, Draining(k))
      BY <1>2, <2>1
    <3>2. c = Refusal(k) => /\ Draining(k) \notin Elements(m.ctrlIn) /\ Draining(k) \notin Elements(cmds)
                            /\ Drained(k) \notin Elements(m.ctrlOut) /\ new[k] # "Copying"
      BY <1>1, <1>2, NoDrain
    <3>3. InOrder(cmds, k)
      BY DEF Served
    <3>. QED BY <3>1, <3>2, <3>3, OrderAppend
  <2>. QED BY <1>1, <2>1, <2>2 DEF Served
<1>. QED BY <1>1, <1>2

LEMMA ReportServed ==
  ASSUME Inv, Report
  PROVE  Served(ac, driver, commands)'
<1>. DEFINE report == Head(ac.ctrlOut)
            r == report.region
<1>. USE DEF Inv
<1>1. /\ ac \in Counters /\ ac.ctrlOut \in Seq(Reports) /\ ac.ctrlOut # <<>>
      /\ driver \in [Keys -> {"Idle", "Serving", "Draining", "Copying", "Evicting"}]
  BY CounterFields DEF TypeOK, Report
<1>2. /\ report \in Reports /\ Tail(ac.ctrlOut) \in Seq(Reports)
      /\ Elements(ac.ctrlOut) = {report} \cup Elements(Tail(ac.ctrlOut))
      /\ \A x : Times(ac.ctrlOut, x) = Times(Tail(ac.ctrlOut), x) + (IF report = x THEN 1 ELSE 0)
  BY <1>1, TailList
<1>3. /\ ac'.ctrlOut = Tail(ac.ctrlOut) /\ ac'.ctrlIn = ac.ctrlIn
      /\ ac'.transactions = ac.transactions /\ ac'.pendingRemoteWrites = ac.pendingRemoteWrites
      /\ commands' = commands
  BY <1>1 DEF Report, Counters
<1>4. driver' = [driver EXCEPT ![r] = CASE report.kind = "Notify" /\ @ = "Idle" -> "Serving"
                                        [] report.kind = "Notify" /\ @ # "Idle" -> @
                                        [] report.kind = "Drained"              -> "Copying"]
  BY DEF Report
<1>5. r \in Keys /\ (report = Drained(r) \/ report.kind = "Notify")
  BY <1>2 DEF Reports, Drained
<1>. HIDE DEF report
<1>6. \A k : Settled(ac', k) <=> Settled(ac, k)
  BY <1>3 DEF Settled
<1>7. ASSUME NEW k \in Keys
      PROVE  /\ Times(ac.ctrlIn, Draining(k)) \in Nat /\ Times(commands, Draining(k)) \in Nat
             /\ Times(ac'.ctrlOut, Drained(k)) \in Nat
             /\ Times(ac.ctrlOut, Drained(k)) =
                  Times(ac'.ctrlOut, Drained(k)) + (IF report = Drained(k) THEN 1 ELSE 0)
  BY <1>1, <1>2, <1>3, CounterFields, TimesType DEF TypeOK
<1>8. ASSUME NEW k \in Keys
      PROVE  /\ report = Drained(k) => driver[k] = "Draining" /\ driver'[k] = "Copying"
             /\ report # Drained(k) => /\ driver'[k] = "Draining" <=> driver[k] = "Draining"
                                       /\ driver'[k] = "Copying" <=> driver[k] = "Copying"
  <2>1. CASE report = Drained(k)
    <3>1. k = r /\ report.kind = "Drained"
      BY <2>1 DEF Drained
    <3>2. driver'[k] = "Copying"
      BY <1>1, <1>4, <1>5, <3>1
    <3>3. driver[k] = "Draining"
      BY <1>7, <2>1 DEF Good, Served
    <3>. QED BY <2>1, <3>2, <3>3
  <2>2. CASE report # Drained(k)
    BY <1>1, <1>4, <1>5, <2>2
  <2>. QED BY <2>1, <2>2
<1>9. ASSUME NEW k \in Keys
      PROVE  Times(ac.ctrlIn, Draining(k)) + Times(commands, Draining(k)) + Times(ac'.ctrlOut, Drained(k))
               = IF driver'[k] = "Draining" THEN 1 ELSE 0
  <2>1. Times(ac.ctrlIn, Draining(k)) + Times(commands, Draining(k)) + Times(ac.ctrlOut, Drained(k))
          = IF driver[k] = "Draining" THEN 1 ELSE 0
    BY DEF Good, Served
  <2>2. CASE report = Drained(k)
    <3>1. Times(ac.ctrlOut, Drained(k)) = Times(ac'.ctrlOut, Drained(k)) + 1
      BY <1>7, <2>2
    <3>. QED BY <1>7, <1>8, <2>1, <2>2, <3>1
  <2>3. CASE report # Drained(k)
    <3>1. Times(ac.ctrlOut, Drained(k)) = Times(ac'.ctrlOut, Drained(k))
      BY <1>7, <2>3
    <3>. QED BY <1>8, <2>1, <2>3, <3>1
  <2>. QED BY <2>2, <2>3
<1>10. ASSUME NEW k \in Keys, Drained(k) \in Elements(ac'.ctrlOut) \/ driver'[k] = "Copying"
       PROVE  Drained(k) \in Elements(ac.ctrlOut) \/ driver[k] = "Copying"
  BY <1>2, <1>3, <1>8, <1>10
<1>. QED BY <1>3, <1>6, <1>9, <1>10 DEF Good, Served

(* The first command goes out; again means that it stays. *)
LEMMA SendServed ==
  ASSUME NEW m \in Counters, NEW drv, NEW cmds \in Seq(Commands), Served(m, drv, cmds), cmds # <<>>,
         NEW n, n.ctrlIn = Append(m.ctrlIn, Head(cmds)), n.ctrlOut = m.ctrlOut,
         \A k \in Keys : Settled(m, k) => Settled(n, k)
  PROVE  /\ Served(n, drv, Tail(cmds))
         /\ (\A k \in Keys : Head(cmds) # Draining(k)) => Served(n, drv, cmds)
<1>. DEFINE h == Head(cmds)
<1>1. /\ h \in Commands /\ Tail(cmds) \in Seq(Commands) /\ Elements(cmds) = {h} \cup Elements(Tail(cmds))
      /\ \A x : Times(cmds, x) = Times(Tail(cmds), x) + (IF h = x THEN 1 ELSE 0)
      /\ m.ctrlIn \in Seq(Commands)
  BY TailList, CounterFields
<1>2. /\ Elements(n.ctrlIn) = Elements(m.ctrlIn) \cup {h}
      /\ \A x : Times(n.ctrlIn, x) = Times(m.ctrlIn, x) + (IF h = x THEN 1 ELSE 0)
  BY <1>1, AppendList
<1>3. \A x : Times(m.ctrlIn, x) \in Nat /\ Times(Tail(cmds), x) \in Nat
  BY <1>1, TimesType
<1>4. ASSUME NEW k \in Keys
      PROVE  /\ InOrder(n.ctrlIn, k) /\ InOrder(Tail(cmds), k)
             /\ h = Draining(k) => Refusal(k) \notin Elements(Tail(cmds))
  <2>1. InOrder(cmds, k) /\ InOrder(m.ctrlIn, k)
    BY DEF Served
  <2>2. h = Refusal(k) => Draining(k) \notin Elements(m.ctrlIn)
    BY <1>1 DEF Served
  <2>. QED BY <1>1, <2>1, <2>2, OrderAppend, OrderTail
<1>. HIDE DEF h
<1>5. Served(n, drv, Tail(cmds))
  <2>1. ASSUME NEW k \in Keys
        PROVE  Times(n.ctrlIn, Draining(k)) + Times(Tail(cmds), Draining(k))
                 = Times(m.ctrlIn, Draining(k)) + Times(cmds, Draining(k))
    BY <1>1, <1>2, <1>3
  <2>. QED BY <1>1, <1>2, <1>4, <2>1 DEF Served
<1>6. ASSUME \A k \in Keys : h # Draining(k) PROVE Served(n, drv, cmds)
  <2>1. \A k \in Keys : Times(n.ctrlIn, Draining(k)) = Times(m.ctrlIn, Draining(k))
    BY <1>2, <1>3, <1>6
  <2>. QED BY <1>1, <1>2, <1>4, <1>6, <2>1 DEF Served
<1>. QED BY <1>5, <1>6 DEF h

LEMMA ServedStep ==
  ASSUME Inv, TypeOK', [Next]_vars
  PROVE  Served(ac, driver, commands)'
<1>. USE DEF Inv
<1>1. /\ ac \in Counters /\ commands \in Seq(Commands) /\ Served(ac, driver, commands)
      /\ driver \in [Keys -> {"Idle", "Serving", "Draining", "Copying", "Evicting"}]
  BY DEF TypeOK, Good
<1>2. CASE Tick
  BY <1>2, TickedGood DEF Tick, Good
<1>3. ASSUME SameCtrl(ac, ac'), UNCHANGED <<ac.transactions, ac.pendingRemoteWrites, driver, commands>>
      PROVE  Served(ac, driver, commands)'
  <2>1. \A k \in Keys : Settled(ac, k) => Settled(ac', k)
    BY <1>3 DEF Settled
  <2>. QED BY <1>1, <1>3, <2>1, ServedFlow
<1>4. CASE Respond \/ Arrive \/ \E q \in Requests : Translate(q) \/ Issue(q) \/ Again(q) \/ Perform(q)
  <2>1. SameCtrl(ac, ac') /\ UNCHANGED <<ac.transactions, ac.pendingRemoteWrites, driver, commands>>
    BY <1>1, <1>4 DEF Respond, Arrive, Translate, Issue, Again, Perform, SameCtrl, Counters
  <2>. QED BY <1>3, <2>1
<1>5. CASE Report
  BY <1>5, ReportServed
<1>6. ASSUME NEW k \in Keys, ServeResident(k) \/ Refuse(k) \/ RefuseNeighbour(k) \/ FinishMigration(k)
      PROVE  Served(ac, driver, commands)'
  <2>1. PICK b \in BOOLEAN :
          /\ commands' = Append(commands, [kind |-> "Replay", region |-> k, refused |-> b])
          /\ b => driver'[k] \notin {"Draining", "Copying"}
    BY <1>1, <1>6 DEF ServeResident, Refuse, RefuseNeighbour, FinishMigration, Command
  <2>. DEFINE c == [kind |-> "Replay", region |-> k, refused |-> b]
  <2>2. /\ c \in Commands /\ \A j \in Keys : c # Draining(j)
        /\ \A j \in Keys : c = Refusal(j) => j = k /\ b
    BY CommandTypes DEF Draining, Refusal
  <2>3. \A j \in Keys : /\ driver'[j] = "Draining" <=> driver[j] = "Draining"
                        /\ driver'[j] = "Copying" => driver[j] = "Copying"
    BY <1>1, <1>6 DEF ServeResident, Refuse, RefuseNeighbour, FinishMigration
  <2>. HIDE DEF c
  <2>4. \A j \in Keys : c = Refusal(j) => driver'[j] \notin {"Draining", "Copying"}
    BY <2>1, <2>2
  <2>5. Served(ac, driver', Append(commands, c))
    BY <1>1, <2>2, <2>3, <2>4, DriverServed
  <2>6. ac' = ac
    BY <1>6 DEF ServeResident, Refuse, RefuseNeighbour, FinishMigration
  <2>. QED BY <2>1, <2>5, <2>6 DEF c
<1>7. ASSUME NEW k \in Keys, StartMigration(k) PROVE Served(ac, driver, commands)'
  <2>1. /\ commands' = Append(commands, Draining(k)) /\ ac' = ac
        /\ driver' = [driver EXCEPT ![k] = "Draining"] /\ driver[k] \notin {"Draining", "Copying"}
    BY <1>7 DEF StartMigration, Command, Draining
  <2>2. Draining(k) \in Commands /\ \A j : Draining(k) # Refusal(j) /\ (Draining(k) = Draining(j) <=> k = j)
    BY CommandTypes DEF Draining, Refusal
  <2>3. /\ Elements(commands') = Elements(commands) \cup {Draining(k)}
        /\ \A x : Times(commands', x) = Times(commands, x) + (IF Draining(k) = x THEN 1 ELSE 0)
    BY <1>1, <2>1, <2>2, AppendList
  <2>4. /\ Draining(k) \notin Elements(ac.ctrlIn) /\ Draining(k) \notin Elements(commands)
        /\ Drained(k) \notin Elements(ac.ctrlOut)
    BY <1>1, <2>1, NoDrain
  <2>5. \A j \in Keys : InOrder(commands', j)
    BY <1>1, <2>1, <2>2, OrderAppend DEF Served
  <2>6. ASSUME NEW j \in Keys
        PROVE  Times(ac.ctrlIn, Draining(j)) + Times(commands', Draining(j)) + Times(ac.ctrlOut, Drained(j))
                 = IF driver'[j] = "Draining" THEN 1 ELSE 0
    <3>1. /\ Times(ac.ctrlIn, Draining(j)) \in Nat /\ Times(commands, Draining(j)) \in Nat
          /\ Times(ac.ctrlOut, Drained(j)) \in Nat
      BY <1>1, CounterFields, TimesType
    <3>2. Times(ac.ctrlIn, Draining(j)) + Times(commands, Draining(j)) + Times(ac.ctrlOut, Drained(j))
            = IF driver[j] = "Draining" THEN 1 ELSE 0
      BY <1>1 DEF Served
    <3>3. CASE j = k
      <4>1. Times(commands', Draining(j)) = Times(commands, Draining(j)) + 1
        BY <2>2, <2>3, <3>3
      <4>2. driver'[j] = "Draining" /\ driver[j] # "Draining"
        BY <1>1, <2>1, <3>3
      <4>. QED BY <3>1, <3>2, <4>1, <4>2
    <3>4. CASE j # k
      <4>1. Times(commands', Draining(j)) = Times(commands, Draining(j)) /\ driver'[j] = driver[j]
        BY <1>1, <2>1, <2>2, <2>3, <3>1, <3>4
      <4>. QED BY <3>2, <4>1
    <3>. QED BY <3>3, <3>4
  <2>7. \A j \in Keys : driver'[j] = "Copying" => driver[j] = "Copying"
    BY <1>1, <2>1
  <2>. QED BY <1>1, <2>1, <2>2, <2>3, <2>4, <2>5, <2>6, <2>7 DEF Served
<1>8. ASSUME NEW k \in Keys, BeginEviction(k) \/ FinalizeEviction(k) PROVE Served(ac, driver, commands)'
  <2>1. ac' = ac /\ commands' = commands
    BY <1>8 DEF BeginEviction, FinalizeEviction
  <2>2. \A j \in Keys : /\ driver'[j] = "Draining" <=> driver[j] = "Draining"
                        /\ driver'[j] = "Copying" => driver[j] = "Copying"
    BY <1>1, <1>8 DEF BeginEviction, FinalizeEviction
  <2>. QED BY <1>1, <2>1, <2>2, DriverServed
<1>9. CASE KernelBoundary
  <2>. DEFINE c == [kind |-> "ResetAll"]
  <2>1. commands' = Append(commands, c) /\ ac' = ac /\ driver' = driver
    BY <1>9 DEF KernelBoundary, Command
  <2>2. c \in Commands /\ \A j \in Keys : c # Draining(j) /\ c # Refusal(j)
    BY DEF Commands, Draining, Refusal
  <2>. HIDE DEF c
  <2>3. Served(ac, driver, Append(commands, c))
    BY <1>1, <2>2, DriverServed
  <2>. QED BY <2>1, <2>3
<1>10. CASE SendCommand \/ RelayReplayAgain
  <2>1. /\ ac'.ctrlIn = Append(ac.ctrlIn, Head(commands)) /\ ac'.ctrlOut = ac.ctrlOut
        /\ ac'.transactions = ac.transactions /\ ac'.pendingRemoteWrites = ac.pendingRemoteWrites
        /\ driver' = driver /\ commands # <<>>
    BY <1>1, <1>10 DEF SendCommand, RelayReplayAgain, Counters
  <2>2. \A k \in Keys : Settled(ac, k) => Settled(ac', k)
    BY <2>1 DEF Settled
  <2>3. /\ Served(ac', driver, Tail(commands))
        /\ (\A k \in Keys : Head(commands) # Draining(k)) => Served(ac', driver, commands)
    BY <1>1, <2>1, <2>2, SendServed
  <2>4. \/ commands' = Tail(commands)
        \/ commands' = commands /\ \A k \in Keys : Head(commands) # Draining(k)
    BY <1>10 DEF SendCommand, RelayReplayAgain, Draining
  <2>. QED BY <2>1, <2>3, <2>4
<1>11. ASSUME NEW k \in Keys, SendReset(k) PROVE Served(ac, driver, commands)'
  <2>. DEFINE c == [kind |-> "Reset", region |-> k]
  <2>1. /\ ac'.ctrlIn = Append(ac.ctrlIn, c) /\ ac'.ctrlOut = ac.ctrlOut
        /\ ac'.transactions = ac.transactions /\ ac'.pendingRemoteWrites = ac.pendingRemoteWrites
        /\ driver' = driver /\ commands' = commands
    BY <1>1, <1>11 DEF SendReset, Counters
  <2>2. c \in Commands /\ \A j : c # Draining(j) /\ c # Refusal(j)
    BY CommandTypes DEF Draining, Refusal
  <2>. HIDE DEF c
  <2>3. /\ Elements(ac'.ctrlIn) = Elements(ac.ctrlIn) \cup {c}
        /\ \A x : Times(ac'.ctrlIn, x) = Times(ac.ctrlIn, x) + (IF c = x THEN 1 ELSE 0)
        /\ \A x : Times(ac.ctrlIn, x) \in Nat
        /\ ac.ctrlIn \in Seq(Commands)
    BY <1>1, <2>1, <2>2, CounterFields, AppendList
  <2>4. \A j \in Keys : /\ Times(ac'.ctrlIn, Draining(j)) = Times(ac.ctrlIn, Draining(j))
                        /\ InOrder(ac'.ctrlIn, j)
                        /\ Settled(ac', j) <=> Settled(ac, j)
    <3>1. \A j \in Keys : InOrder(ac'.ctrlIn, j)
      BY <1>1, <2>1, <2>2, <2>3, OrderAppend DEF Served
    <3>. QED BY <2>1, <2>2, <2>3, <3>1 DEF Settled
  <2>. QED BY <1>1, <2>1, <2>2, <2>3, <2>4 DEF Served
<1>12. CASE UNCHANGED vars
  BY <1>1, <1>12 DEF vars
<1>. QED BY <1>2, <1>4, <1>5, <1>6, <1>7, <1>8, <1>9, <1>10, <1>11, <1>12 DEF Next

(* Who takes care of the regions. *)
LEMMA RememberedStep ==
  ASSUME Inv, TypeOK', [Next]_vars
  PROVE  Asked(ac)' /\ Remembered(ac, driver, commands, resets)'
<1>. USE DEF Inv
<1>1. /\ ac \in Counters /\ commands \in Seq(Commands) /\ Asked(ac)
      /\ Remembered(ac, driver, commands, resets)
      /\ driver \in [Keys -> {"Idle", "Serving", "Draining", "Copying", "Evicting"}]
  BY DEF TypeOK, Good
<1>2. CASE Tick
  BY <1>2, TickedGood DEF Tick, Good
<1>3. ASSUME SameAsks(ac, ac'), ac'.stalledWrites = ac.stalledWrites,
             \A k \in Keys : Minded(ac, driver, commands, resets, k) =>
                               Minded(ac', driver', commands', resets', k)
      PROVE  Asked(ac)' /\ Remembered(ac, driver, commands, resets)'
  BY <1>1, <1>3 DEF SameAsks, Asked, Remembered
<1>4. CASE \/ Respond \/ Arrive \/ UNCHANGED vars
           \/ \E q \in Requests : Translate(q) \/ Issue(q) \/ Again(q) \/ Perform(q)
  <2>1. /\ SameCtrl(ac, ac') /\ SameAsks(ac, ac') /\ ac'.stalledWrites = ac.stalledWrites
        /\ UNCHANGED <<driver, commands, resets>>
    BY <1>1, <1>4 DEF Respond, Arrive, vars, Translate, Issue, Again, Perform, SameCtrl, SameAsks, Counters
  <2>. QED BY <1>3, <2>1 DEF SameCtrl, SameAsks, Minded
<1>5. CASE Report
  <2>. DEFINE report == Head(ac.ctrlOut)
              r == report.region
  <2>1. /\ ac.ctrlOut \in Seq(Reports) /\ ac.ctrlOut # <<>>
    BY <1>1, <1>5, CounterFields DEF Report
  <2>2. report \in Reports /\ Elements(ac.ctrlOut) = {report} \cup Elements(Tail(ac.ctrlOut))
    BY <2>1, TailList
  <2>3. /\ ac'.ctrlOut = Tail(ac.ctrlOut) /\ ac'.ctrlIn = ac.ctrlIn /\ SameAsks(ac, ac')
        /\ ac'.stalledWrites = ac.stalledWrites /\ commands' = commands /\ resets' = resets
    BY <1>1, <1>5 DEF Report, Counters, SameAsks
  <2>4. driver' = [driver EXCEPT ![r] = CASE report.kind = "Notify" /\ @ = "Idle" -> "Serving"
                                          [] report.kind = "Notify" /\ @ # "Idle" -> @
                                          [] report.kind = "Drained"              -> "Copying"]
    BY <1>5 DEF Report
  <2>5. r \in Keys /\ report.kind \in {"Notify", "Drained"} /\ \A k : report = Notice(k) => r = k
    BY <2>2 DEF Reports, Notice
  <2>. HIDE DEF report
  <2>6. driver'[r] # "Idle" /\ \A k \in Keys : k # r => driver'[k] = driver[k]
    BY <1>1, <2>4, <2>5
  <2>7. \A k \in Keys : Minded(ac, driver, commands, resets, k) =>
                          Minded(ac', driver', commands', resets', k)
    BY <2>2, <2>3, <2>5, <2>6 DEF SameAsks, Minded, Notice
  <2>. QED BY <1>3, <2>3, <2>7
<1>6. ASSUME NEW k \in Keys, ServeResident(k) \/ Refuse(k) \/ RefuseNeighbour(k) \/ FinishMigration(k)
      PROVE  Asked(ac)' /\ Remembered(ac, driver, commands, resets)'
  <2>1. PICK b \in BOOLEAN : commands' = Append(commands, [kind |-> "Replay", region |-> k, refused |-> b])
    BY <1>6 DEF ServeResident, Refuse, RefuseNeighbour, FinishMigration, Command
  <2>. DEFINE c == [kind |-> "Replay", region |-> k, refused |-> b]
  <2>2. c \in Commands /\ Wakes(c, k)
    BY CommandTypes DEF Wakes
  <2>3. /\ ac' = ac /\ resets \subseteq resets'
        /\ \A j \in Keys : j # k => driver'[j] = driver[j]
    BY <1>1, <1>6 DEF ServeResident, Refuse, RefuseNeighbour, FinishMigration
  <2>. HIDE DEF c
  <2>4. Elements(commands') = Elements(commands) \cup {c}
    BY <1>1, <2>1, <2>2, AppendList DEF c
  <2>5. \A j \in Keys : Minded(ac, driver, commands, resets, j) =>
                          Minded(ac', driver', commands', resets', j)
    BY <2>2, <2>3, <2>4 DEF Minded, Wakes
  <2>. QED BY <1>3, <2>3, <2>5 DEF SameAsks
<1>7. ASSUME NEW k \in Keys, StartMigration(k) \/ BeginEviction(k) \/ FinalizeEviction(k)
      PROVE  Asked(ac)' /\ Remembered(ac, driver, commands, resets)'
  <2>1. /\ ac' = ac /\ resets \subseteq resets' /\ (driver'[k] # "Idle" \/ k \in resets')
        /\ \A j \in Keys : j # k => driver'[j] = driver[j]
    BY <1>1, <1>7 DEF StartMigration, BeginEviction, FinalizeEviction
  <2>2. Elements(commands) \subseteq Elements(commands')
    <3>1. commands' = commands \/ commands' = Append(commands, Draining(k))
      BY <1>7 DEF StartMigration, BeginEviction, FinalizeEviction, Command, Draining
    <3>2. Elements(Append(commands, Draining(k))) = Elements(commands) \cup {Draining(k)}
      BY <1>1, CommandTypes, AppendList
    <3>. QED BY <3>1, <3>2
  <2>3. \A j \in Keys : Minded(ac, driver, commands, resets, j) =>
                          Minded(ac', driver', commands', resets', j)
    BY <2>1, <2>2 DEF Minded
  <2>. QED BY <1>3, <2>1, <2>3 DEF SameAsks
<1>8. CASE KernelBoundary
  <2>1. commands' = Append(commands, [kind |-> "ResetAll"]) /\ [kind |-> "ResetAll"] \in Commands
        /\ UNCHANGED <<ac, driver, resets>>
    BY <1>8 DEF KernelBoundary, Command, Commands
  <2>2. Elements(commands) \subseteq Elements(commands')
    BY <1>1, <2>1, AppendList
  <2>. QED BY <1>3, <2>1, <2>2 DEF SameAsks, Minded
<1>9. CASE SendCommand \/ RelayReplayAgain
  <2>1. /\ ac'.ctrlIn = Append(ac.ctrlIn, Head(commands)) /\ ac'.ctrlOut = ac.ctrlOut /\ SameAsks(ac, ac')
        /\ ac'.stalledWrites = ac.stalledWrites /\ UNCHANGED <<driver, resets>> /\ commands # <<>>
    BY <1>1, <1>9 DEF SendCommand, RelayReplayAgain, SameAsks, Counters
  <2>2. Head(commands) \in Commands /\ Elements(commands) = {Head(commands)} \cup Elements(Tail(commands))
    BY <1>1, <2>1, TailList
  <2>3. Elements(ac'.ctrlIn) = Elements(ac.ctrlIn) \cup {Head(commands)}
    BY <1>1, <2>1, <2>2, CounterFields, AppendList
  <2>4. commands' = commands \/ commands' = Tail(commands)
    BY <1>9 DEF SendCommand, RelayReplayAgain
  <2>5. Elements(commands) \cup Elements(ac.ctrlIn) \subseteq Elements(commands') \cup Elements(ac'.ctrlIn)
    BY <2>2, <2>3, <2>4
  <2>6. \A j \in Keys : Minded(ac, driver, commands, resets, j) =>
                          Minded(ac', driver', commands', resets', j)
    BY <2>1, <2>5 DEF SameAsks, Minded
  <2>. QED BY <1>3, <2>1, <2>6
<1>10. ASSUME NEW k \in Keys, SendReset(k) PROVE Asked(ac)' /\ Remembered(ac, driver, commands, resets)'
  <2>. DEFINE c == [kind |-> "Reset", region |-> k]
  <2>1. /\ ac'.ctrlIn = Append(ac.ctrlIn, c) /\ ac'.ctrlOut = ac.ctrlOut /\ SameAsks(ac, ac')
        /\ ac'.stalledWrites = ac.stalledWrites /\ UNCHANGED <<driver, commands>>
        /\ resets' = resets \ {k}
    BY <1>1, <1>10 DEF SendReset, SameAsks, Counters
  <2>2. c \in Commands /\ Wakes(c, k)
    BY CommandTypes DEF Wakes
  <2>. HIDE DEF c
  <2>3. Elements(ac'.ctrlIn) = Elements(ac.ctrlIn) \cup {c}
    BY <1>1, <2>1, <2>2, CounterFields, AppendList
  <2>4. \A j \in Keys : Minded(ac, driver, commands, resets, j) =>
                          Minded(ac', driver', commands', resets', j)
    BY <2>1, <2>2, <2>3 DEF SameAsks, Minded, Wakes
  <2>. QED BY <1>3, <2>1, <2>4
<1>. QED BY <1>2, <1>4, <1>5, <1>6, <1>7, <1>8, <1>9, <1>10 DEF Next

-----------------------------------------------------------------------------
(* The invariant holds, and with it the properties.                        *)

LEMMA InvInit ==
  ASSUME Init
  PROVE  Inv
<1>1. /\ <<>> \in Seq(Requests) /\ <<>> \in Seq(Answers) /\ <<>> \in Seq(Commands)
      /\ <<>> \in Seq(Reports) /\ <<>> \in Seq(Keys)
  OBVIOUS
<1>2. InitialCounter \in Counters
  <2>1. [k \in Keys |-> 0] \in [Keys -> 0..Threshold] /\ [k \in Keys |-> <<>>] \in [Keys -> Seq(Requests)]
    BY <1>1, CounterAssumption
  <2>. QED BY <1>1, <2>1 DEF InitialCounter, Counters
<1>3. TypeOK
  BY <1>1, <1>2 DEF Init, TypeOK
<1>4. /\ ac.topIn = <<>> /\ ac.topOut = <<>> /\ ac.bottomIn = <<>> /\ ac.bottomOut = <<>>
      /\ ac.ctrlIn = <<>> /\ ac.ctrlOut = <<>> /\ ac.latched = {} /\ ac.transactions = {}
      /\ ac.stalledWrites = [k \in Keys |-> <<>>] /\ ac.pendingNotifications = <<>>
      /\ ac.pendingRetries = <<>> /\ ac.pendingRemoteWrites = <<>>
      /\ access = [q \in Requests |-> "Idle"] /\ memory = {} /\ commands = <<>>
      /\ driver = [k \in Keys |-> "Idle"]
  BY DEF Init, InitialCounter
<1>5. Elements(<<>>) = {} /\ Len(<<>>) = 0 /\ 1..0 = {}
  BY EmptyList
<1>6. Placed(ac, access, memory)
  <2>1. ASSUME NEW q \in Requests PROVE Inside(ac, q) = 0
    <3>1. \A x : Times(<<>>, x) = 0
      BY EmptyList
    <3>2. Count(<<>>, AnswersTo(q)) = 0
      <4>1. {i \in 1..Len(<<>>) : <<>>[i] \in AnswersTo(q)} = {}
        BY <1>5
      <4>. QED BY <4>1, FS_EmptySet DEF Count
    <3>3. ac.stalledWrites[q.region] = <<>>
      BY <1>4, RequestRegion
    <3>. QED BY <1>4, <3>1, <3>2, <3>3 DEF Inside
  <2>. QED BY <1>4, <1>5, <2>1 DEF Placed, Beyond
<1>7. Served(ac, driver, commands)
  BY <1>4, <1>5, EmptyList DEF Served, InOrder
<1>8. Asked(ac) /\ Remembered(ac, driver, commands, resets)
  BY <1>4, <1>5 DEF Asked, Distinct, Remembered
<1>. QED BY <1>3, <1>6, <1>7, <1>8 DEF Inv, TypeOK, Good

LEMMA InvStep ==
  ASSUME Inv, [Next]_vars
  PROVE  Inv'
<1>1. TypeOK'
  BY TypeStep
<1>2. Placed(ac, access, memory)' /\ Served(ac, driver, commands)'
      /\ Asked(ac)' /\ Remembered(ac, driver, commands, resets)'
  BY <1>1, PlacedStep, ServedStep, RememberedStep
<1>. QED BY <1>1, <1>2 DEF Inv, TypeOK, Good

LEMMA InvAlways == Spec => []Inv
<1>1. Init => Inv
  BY InvInit
<1>2. Inv /\ [Next]_vars => Inv'
  BY InvStep
<1>. QED BY <1>1, <1>2, PTL DEF Spec

(* The ports, the lists and the tables of the counter, and what surrounds  *)
(* it, keep their types.                                                   *)
THEOREM TypesKept == Spec => []TypeOK
<1>1. Inv => TypeOK
  BY DEF Inv
<1>. QED BY <1>1, InvAlways, PTL

(* A request that was sent is in exactly one place until it is answered,   *)
(* and has a transaction while it is beyond the counter: holding writes,   *)
(* releasing, refusing and retrying them loses none and doubles none.      *)
THEOREM RequestsKept == Spec => []EachRequestOnce
<1>1. ASSUME Inv PROVE EachRequestOnce
  <2>1. ASSUME NEW q \in Requests
        PROVE  Copies(q) = Inside(ac, q) + (IF q \in memory THEN 1 ELSE 0)
    <3>1. Cardinality({q} \cap memory) = IF q \in memory THEN 1 ELSE 0
      <4>1. {q} \cap memory = IF q \in memory THEN {q} ELSE {}
        OBVIOUS
      <4>. QED BY <4>1, FS_Singleton, FS_EmptySet
    <3>2. Cardinality({i \in 1..Len(ac.topOut) : ac.topOut[i].req = q}) = Count(ac.topOut, AnswersTo(q))
      <4>1. ac.topOut \in Seq(Answers)
        BY <1>1, CounterFields DEF Inv, TypeOK
      <4>2. \A i \in 1..Len(ac.topOut) : ac.topOut[i] \in AnswersTo(q) <=> ac.topOut[i].req = q
        BY <4>1 DEF AnswersTo
      <4>3. {i \in 1..Len(ac.topOut) : ac.topOut[i] \in AnswersTo(q)}
              = {i \in 1..Len(ac.topOut) : ac.topOut[i].req = q}
        BY <4>2
      <4>. QED BY <4>3 DEF Count
    <3>3. Copies(q) = Times(ac.topIn, q) + Times(ac.stalledWrites[q.region], q)
                        + Times(ac.pendingRemoteWrites, q) + Times(ac.pendingRetries, q)
                        + Times(ac.bottomOut, q) + Times(ac.bottomIn, q)
                        + Cardinality({q} \cap memory)
                        + Cardinality({i \in 1..Len(ac.topOut) : ac.topOut[i].req = q})
      BY DEF Copies, Times
    <3>4. Counted(ac, q)
      BY <1>1, PlaceCounts DEF Inv, TypeOK
    <3>. QED BY <3>1, <3>2, <3>3, <3>4 DEF Inside, Counted
  <2>. QED BY <1>1, <2>1 DEF Inv, Good, Placed, Beyond, EachRequestOnce
<1>. QED BY <1>1, InvAlways, PTL

(* The notifications that wait to be sent are of latched regions, one of   *)
(* each, through resets, kernel boundaries and releases.                   *)
THEOREM NotificationsOnce == Spec => []AskedOnce
<1>1. Inv => AskedOnce
  BY CounterFields, DistinctCount DEF Inv, TypeOK, Good, Asked, AskedOnce
<1>. QED BY <1>1, InvAlways, PTL

(* The copy of a region that a migration takes is authoritative: from the  *)
(* answer to the drain to the end of the copy no write to it is on its way *)
(* to the host.                                                            *)
THEOREM SnapshotsAuthoritative == Spec => []SnapshotAuthoritative
<1>1. Inv => SnapshotAuthoritative
  BY DEF Inv, Good, Served, Settled, SnapshotAuthoritative
<1>. QED BY <1>1, InvAlways, PTL

(* No held write is forgotten: through swallowed notifications, evictions, *)
(* resets and kernel boundaries somebody still has its region.             *)
THEOREM HeldNotForgotten == Spec => []HeldIsCaredFor
<1>1. Inv => HeldIsCaredFor
  BY DEF Inv, Good, Remembered, Minded, Cared, HeldIsCaredFor
<1>. QED BY <1>1, InvAlways, PTL
================================================================================
