----------------------- MODULE TranslationPathProofs -----------------------
(***************************************************************************)
(* Nothing that is asked of the translation path is lost or asked twice,   *)
(* whoever waits for a fault is cared for, and the second TLB is clean     *)
(* while a region leaves the GPU: for every program, number of cores,      *)
(* geometry of the TLBs, and number of evictions.                          *)
(***************************************************************************)
EXTENDS TranslationPath, GMMUProofs

(* What TLB n is asked: a first TLB by its own translator only. *)
ReqsOf(n) == IF n = L2 THEN Misses2 ELSE {a \in Accesses : a.core = n}

(* How many answers to a request are on their way to its translator. *)
Coming(list, a) == Cardinality({i \in 1..Len(list) : list[i].req = a})

AccessType ==
  /\ DOMAIN access \in Programs
  /\ access \in [DOMAIN access -> {"Idle", "Translating", "Resolved", "Local", "Remote", "Done"}]

GPUSound ==
  /\ DOMAIN tlb = TLBNames /\ \A n \in TLBNames : Sound(tlb[n], ReqsOf(n))
  /\ answers \in [Cores -> Seq([req : Accesses, mapping : Mappings])]
  /\ \A c \in Cores : answers[c] \in Seq([req : ReqsOf(c), mapping : Mappings])
  /\ gmmu \in GMMUs

DriverType ==
  /\ commands \in Seq(UVMCommands)
  /\ flush \in [region : Regions, issued : BOOLEAN] \cup {None}
  /\ draining \subseteq Cores
  /\ table \in [Regions -> PTEs]
  /\ service \in [Regions -> {"Idle", "Admitting", "Replacing", "Publishing",
                              "Invalidating", "Flushing", "WritingBack"}]
  /\ faulted \subseteq Regions
  /\ evictions \in 0..MaxEvictions

Once == EachMissOnce /\ EachAccessOnce

Inv == AccessType /\ GPUSound /\ DriverType /\ Once

-----------------------------------------------------------------------------
LEMMA Names ==
  /\ L2 \in TLBNames /\ L2 \notin Cores /\ TLBNames = Cores \cup {L2}
  /\ ReqsOf(L2) = Misses2
  /\ \A c \in Cores : c \in TLBNames /\ c # L2 /\ ReqsOf(c) = {a \in Accesses : a.core = c}
  /\ \A n \in TLBNames : n # L2 => n \in Cores
  /\ \A a \in Accesses : a.core \in Cores /\ a.page \in Pages /\ a \in ReqsOf(a.core)
  /\ \A c \in Cores, p \in Pages : [core |-> c, page |-> p] \in Misses2
  /\ \A q \in Misses2 : q.core \in Cores /\ q.page \in Pages
  /\ \A n \in TLBNames : \A q \in ReqsOf(n) : q.page \in Pages
<1>1. /\ L2 \in TLBNames /\ L2 \notin Cores /\ TLBNames = Cores \cup {L2}
      /\ \A a \in Accesses : a.core \in Cores /\ a.page \in Pages
  BY PathAssumption DEF Accesses
<1>2. \A q \in Misses2 : q.core \in Cores /\ q.page \in Pages
  BY DEF Misses2
<1>3. \A c \in Cores, p \in Pages : [core |-> c, page |-> p] \in Misses2
  BY DEF Misses2
<1>4. ReqsOf(L2) = Misses2
  BY DEF ReqsOf
<1>5. \A c \in Cores : c \in TLBNames /\ c # L2 /\ ReqsOf(c) = {a \in Accesses : a.core = c}
  BY <1>1 DEF ReqsOf
<1>6. \A n \in TLBNames : n # L2 => n \in Cores
  BY <1>1
<1>7. \A a \in Accesses : a \in ReqsOf(a.core)
  BY <1>1, <1>5
<1>8. \A n \in TLBNames : \A q \in ReqsOf(n) : q.page \in Pages
  BY <1>1, <1>2, <1>4, <1>5, <1>6
<1>. QED BY <1>1, <1>2, <1>3, <1>4, <1>5, <1>6, <1>7, <1>8

(* One TLB, or two, change. *)
LEMMA OneTLB ==
  ASSUME GPUSound, NEW n \in TLBNames, NEW u, Sound(u, ReqsOf(n)), tlb' = [tlb EXCEPT ![n] = u]
  PROVE  /\ DOMAIN tlb' = TLBNames /\ \A m \in TLBNames : tlb'[m] = IF m = n THEN u ELSE tlb[m]
         /\ \A m \in TLBNames : Sound(tlb'[m], ReqsOf(m))
<1>1. DOMAIN tlb' = TLBNames /\ \A m \in TLBNames : tlb'[m] = IF m = n THEN u ELSE tlb[m]
  BY DEF GPUSound
<1>2. \A m \in TLBNames : Sound(tlb[m], ReqsOf(m))
  BY DEF GPUSound
<1>. QED BY <1>1, <1>2

LEMMA TwoTLBs ==
  ASSUME GPUSound, NEW n \in TLBNames, NEW k \in TLBNames, n # k, NEW u, Sound(u, ReqsOf(n)),
         NEW v, Sound(v, ReqsOf(k)), tlb' = [tlb EXCEPT ![n] = u, ![k] = v]
  PROVE  /\ DOMAIN tlb' = TLBNames
         /\ \A m \in TLBNames : tlb'[m] = IF m = n THEN u ELSE IF m = k THEN v ELSE tlb[m]
         /\ \A m \in TLBNames : Sound(tlb'[m], ReqsOf(m))
<1>1. /\ DOMAIN tlb' = TLBNames
      /\ \A m \in TLBNames : tlb'[m] = IF m = n THEN u ELSE IF m = k THEN v ELSE tlb[m]
  BY DEF GPUSound
<1>2. \A m \in TLBNames : Sound(tlb[m], ReqsOf(m))
  BY DEF GPUSound
<1>. QED BY <1>1, <1>2

(* The invariant gives the types. *)
LEMMA InvTypes == AccessType /\ GPUSound /\ DriverType => TypeOK /\ SetsConsistent
<1>. SUFFICES ASSUME AccessType, GPUSound, DriverType PROVE TypeOK /\ SetsConsistent
  OBVIOUS
<1>1. \A n \in TLBNames : tlb[n] \in TLBs(ReqsOf(n)) /\ Consistent(tlb[n])
  BY DEF GPUSound, Sound
<1>2. tlb[L2] \in TLBs(Misses2)
  BY <1>1, Names
<1>3. ASSUME NEW c \in Cores
      PROVE  tlb[c] \in TLBs(Accesses)
  <2>1. ReqsOf(c) \subseteq Accesses /\ tlb[c] \in TLBs(ReqsOf(c))
    BY <1>1, Names
  <2>2. \A s : s \in Seq(ReqsOf(c)) => s \in Seq(Accesses)
    BY <2>1, SeqMonotonic
  <2>3. Entries(ReqsOf(c)) \subseteq Entries(Accesses) /\ Responses(ReqsOf(c)) \subseteq Responses(Accesses)
    BY <2>2 DEF Entries, Responses
  <2>4. tlb[c].mshr \in [Pages -> Entries(Accesses)]
    BY <2>1, <2>3, Fields
  <2>5. tlb[c] \in TLBs(Accesses)
    BY <2>1, <2>2, <2>3, <2>4 DEF TLBs
  <2>. QED BY <2>5
<1>. QED BY <1>1, <1>2, <1>3 DEF TypeOK, SetsConsistent, GPUSound, DriverType, AccessType

-----------------------------------------------------------------------------
(* What is on its way, and what a step does to it.                         *)

(* The same account as that of EachMissOnce and EachAccessOnce. *)
LEMMA Accounts ==
  /\ EachMissOnce <=>
       /\ \A c \in Cores, p \in Pages :
            Held(tlb[L2], [core |-> c, page |-> p]) + Returned(tlb[c], p)
              = IF Open(tlb[c], p) THEN 1 ELSE 0
       /\ \A p \in Pages :
            Walked(gmmu, p) + Returned(tlb[L2], p) = IF Open(tlb[L2], p) THEN 1 ELSE 0
  /\ EachAccessOnce <=>
       \A a \in DOMAIN access :
         Held(tlb[a.core], a) + Coming(answers[a.core], a)
           = IF access[a] \in {"Translating", "Resolved"} THEN 1 ELSE 0
BY DEF EachMissOnce, EachAccessOnce, Walked, Coming

LEMMA AccountsNext ==
  /\ EachMissOnce' <=>
       /\ \A c \in Cores, p \in Pages :
            Held(tlb'[L2], [core |-> c, page |-> p]) + Returned(tlb'[c], p)
              = IF Open(tlb'[c], p) THEN 1 ELSE 0
       /\ \A p \in Pages :
            Walked(gmmu', p) + Returned(tlb'[L2], p) = IF Open(tlb'[L2], p) THEN 1 ELSE 0
  /\ EachAccessOnce' <=>
       \A a \in DOMAIN access' :
         Held(tlb'[a.core], a) + Coming(answers'[a.core], a)
           = IF access'[a] \in {"Translating", "Resolved"} THEN 1 ELSE 0
BY DEF EachMissOnce, EachAccessOnce, Walked, Coming

LEMMA ComingType ==
  ASSUME NEW T, NEW list \in Seq(T), NEW a
  PROVE  Coming(list, a) \in Nat
<1>. DEFINE I == {i \in 1..Len(list) : list[i].req = a}
<1>1. IsFiniteSet(1..Len(list)) /\ I \in SUBSET (1..Len(list))
  BY FS_Interval
<1>2. IsFiniteSet(I)
  BY <1>1, FS_Subset
<1>3. Cardinality(I) \in Nat
  BY <1>2, FS_CardinalityType
<1>. QED BY <1>3 DEF Coming

LEMMA Numbers ==
  ASSUME GPUSound
  PROVE  /\ \A n \in TLBNames, p \in Pages : Returned(tlb[n], p) \in Nat
         /\ \A n \in TLBNames : \A q \in ReqsOf(n) : Held(tlb[n], q) \in Nat
         /\ \A p \in Pages : Walked(gmmu, p) \in Nat
         /\ \A c \in Cores, a \in Accesses : Coming(answers[c], a) \in Nat
<1>1. \A n \in TLBNames : tlb[n] \in TLBs(ReqsOf(n))
  BY DEF GPUSound, Sound
<1>2. \A n \in TLBNames, p \in Pages : Returned(tlb[n], p) \in Nat
  BY <1>1, ReturnedType
<1>3. \A n \in TLBNames : \A q \in ReqsOf(n) : Held(tlb[n], q) \in Nat
  BY <1>1, Names, HeldParts
<1>4. \A p \in Pages : Walked(gmmu, p) \in Nat
  BY WalkedParts DEF GPUSound
<1>5. \A c \in Cores, a \in Accesses : Coming(answers[c], a) \in Nat
  BY ComingType DEF GPUSound
<1>. QED BY <1>2, <1>3, <1>4, <1>5

LEMMA AccessesOf ==
  ASSUME AccessType
  PROVE  DOMAIN access \subseteq Accesses
BY DEF AccessType, Accesses

(* The GMMU has a translation of a page once at most. *)
LEMMA WalkedOnce ==
  ASSUME GPUSound, Once
  PROVE  \A p \in Pages : Walked(gmmu, p) <= 1
<1>. TAKE p \in Pages
<1>1. Walked(gmmu, p) + Returned(tlb[L2], p) = IF Open(tlb[L2], p) THEN 1 ELSE 0
  BY Accounts DEF Once
<1>2. Walked(gmmu, p) \in Nat /\ Returned(tlb[L2], p) \in Nat
  BY Names, Numbers
<1>. QED BY <1>1, <1>2

(* A step of the GMMU alone. *)
LEMMA GMMUAlone ==
  ASSUME GPUSound, Once, UNCHANGED <<access, answers, tlb>>, gmmu' \in GMMUs, SameWalked(gmmu, gmmu')
  PROVE  GPUSound' /\ Once'
<1>1. GPUSound'
  BY DEF GPUSound
<1>2. \A p \in Pages : Walked(gmmu', p) = Walked(gmmu, p)
  BY DEF SameWalked
<1>3. EachMissOnce' /\ EachAccessOnce'
  BY <1>2, Accounts, AccountsNext DEF Once
<1>. QED BY <1>1, <1>3 DEF Once

(* A TLB that works on its own. *)
LEMMA TLBAlone ==
  ASSUME AccessType, GPUSound, Once, NEW n \in TLBNames, NEW u, Sound(u, ReqsOf(n)),
         SameHeld(tlb[n], u, ReqsOf(n)), SameOpen(tlb[n], u), u.bottomIn = tlb[n].bottomIn,
         tlb' = [tlb EXCEPT ![n] = u], UNCHANGED <<access, answers>>,
         gmmu' \in GMMUs, SameWalked(gmmu, gmmu')
  PROVE  GPUSound' /\ Once'
<1>1. /\ DOMAIN tlb' = TLBNames /\ \A m \in TLBNames : tlb'[m] = IF m = n THEN u ELSE tlb[m]
      /\ \A m \in TLBNames : Sound(tlb'[m], ReqsOf(m))
  BY OneTLB
<1>2. GPUSound'
  BY <1>1 DEF GPUSound
<1>3. \A m \in TLBNames, p \in Pages : /\ Open(tlb'[m], p) <=> Open(tlb[m], p)
                                       /\ Returned(tlb'[m], p) = Returned(tlb[m], p)
  BY <1>1 DEF SameOpen, Returned
<1>4. \A m \in TLBNames : \A q \in ReqsOf(m) : Held(tlb'[m], q) = Held(tlb[m], q)
  BY <1>1 DEF SameHeld
<1>5. \A p \in Pages : Walked(gmmu', p) = Walked(gmmu, p)
  BY DEF SameWalked
<1>6. EachMissOnce'
  BY <1>3, <1>4, <1>5, Names, Accounts, AccountsNext DEF Once
<1>7. EachAccessOnce'
  BY <1>4, Names, AccessesOf, Accounts, AccountsNext DEF Once
<1>. QED BY <1>2, <1>6, <1>7 DEF Once

(* An answer: one request less here, one answer more there. *)
LEMMA AnswerSecond ==
  ASSUME AccessType, GPUSound, Once, NEW u, Sound(u, ReqsOf(L2)), NEW q \in ReqsOf(L2),
         TakesHeld(tlb[L2], u, ReqsOf(L2), q), SameOpen(tlb[L2], u), u.bottomIn = tlb[L2].bottomIn,
         NEW mapping \in Mappings, Answer(L2, q, mapping, u), UNCHANGED <<access, gmmu>>
  PROVE  GPUSound' /\ Once'
<1>. DEFINE c == q.core
            p == q.page
            answer == [page |-> p, mapping |-> mapping]
            v == Delivered(tlb[c], answer)
<1>1. c \in Cores /\ p \in Pages /\ c \in TLBNames /\ c # L2 /\ L2 \in TLBNames
      /\ q = [core |-> c, page |-> p]
  BY Names DEF Misses2
<1>2. UNCHANGED answers /\ tlb' = [tlb EXCEPT ![L2] = u, ![c] = v]
  <2>1. /\ UNCHANGED answers
        /\ tlb' = [tlb EXCEPT ![L2] = u, ![c].bottomIn = Append(@, answer)]
    BY DEF Answer
  <2>. QED BY <1>1, <2>1 DEF GPUSound, Delivered
<1>3. answer \in Answered /\ answer.page = p
  BY <1>1 DEF Answered
<1>. HIDE DEF answer, c, p
<1>4. /\ Sound(tlb[c], ReqsOf(c)) /\ \A x \in ReqsOf(c) : x.page \in Pages
      /\ v = Delivered(tlb[c], answer)
  BY <1>1, Names DEF GPUSound
<1>. HIDE DEF v
<1>5. /\ Sound(v, ReqsOf(c)) /\ SameHeld(tlb[c], v, ReqsOf(c)) /\ SameOpen(tlb[c], v)
      /\ \A x \in Pages : Returned(v, x) = Returned(tlb[c], x) + (IF x = p THEN 1 ELSE 0)
  BY <1>3, <1>4, DeliverSound
<1>6. /\ DOMAIN tlb' = TLBNames
      /\ \A m \in TLBNames : tlb'[m] = IF m = L2 THEN u ELSE IF m = c THEN v ELSE tlb[m]
      /\ \A m \in TLBNames : Sound(tlb'[m], ReqsOf(m))
  BY <1>1, <1>2, <1>5, TwoTLBs
<1>7. GPUSound'
  BY <1>2, <1>6 DEF GPUSound
<1>8. \A m \in TLBNames, x \in Pages : Open(tlb'[m], x) <=> Open(tlb[m], x)
  BY <1>1, <1>5, <1>6 DEF SameOpen
<1>9. \A m \in TLBNames, x \in Pages :
        Returned(tlb'[m], x) = Returned(tlb[m], x) + (IF m = c /\ x = p THEN 1 ELSE 0)
  <2>1. \A x \in Pages : Returned(tlb'[L2], x) = Returned(tlb[L2], x)
    BY <1>1, <1>6 DEF Returned
  <2>. QED BY <1>1, <1>5, <1>6, <2>1, Numbers
<1>10. \A d \in Cores, x \in Pages :
         Held(tlb'[L2], [core |-> d, page |-> x])
           = Held(tlb[L2], [core |-> d, page |-> x]) - (IF d = c /\ x = p THEN 1 ELSE 0)
  BY <1>1, <1>6, Names DEF TakesHeld
<1>11. \A m \in Cores : \A a \in ReqsOf(m) : Held(tlb'[m], a) = Held(tlb[m], a)
  BY <1>1, <1>5, <1>6, Names DEF SameHeld
<1>12. EachMissOnce'
  <2>1. ASSUME NEW d \in Cores, NEW x \in Pages
        PROVE  Held(tlb'[L2], [core |-> d, page |-> x]) + Returned(tlb'[d], x)
                 = IF Open(tlb'[d], x) THEN 1 ELSE 0
    <3>1. Held(tlb[L2], [core |-> d, page |-> x]) \in Nat /\ Returned(tlb[d], x) \in Nat
      BY Names, Numbers
    <3>2. Held(tlb[L2], [core |-> d, page |-> x]) + Returned(tlb[d], x)
            = IF Open(tlb[d], x) THEN 1 ELSE 0
      BY Accounts DEF Once
    <3>3. d \in TLBNames
      BY Names
    <3>. QED BY <1>8, <1>9, <1>10, <3>1, <3>2, <3>3
  <2>2. ASSUME NEW x \in Pages
        PROVE  Walked(gmmu', x) + Returned(tlb'[L2], x) = IF Open(tlb'[L2], x) THEN 1 ELSE 0
    <3>1. Returned(tlb'[L2], x) = Returned(tlb[L2], x)
      BY <1>1, <1>6 DEF Returned
    <3>. QED BY <1>1, <1>8, <3>1, Accounts DEF Once
  <2>. QED BY <2>1, <2>2, AccountsNext
<1>13. EachAccessOnce'
  BY <1>2, <1>11, Names, AccessesOf, Accounts, AccountsNext DEF Once
<1>. QED BY <1>7, <1>12, <1>13 DEF Once

(* Answers to a translator, and one that it takes. *)
LEMMA ComingAppend ==
  ASSUME NEW R, NEW list \in Seq([req : R, mapping : Mappings]), NEW q \in R, NEW mapping \in Mappings, NEW a
  PROVE  LET new == Append(list, [req |-> q, mapping |-> mapping])
         IN  /\ new \in Seq([req : R, mapping : Mappings])
             /\ Coming(new, a) = Coming(list, a) + (IF a = q THEN 1 ELSE 0)
<1>. DEFINE T == [req : R, mapping : Mappings]
            S == {x \in T : x.req = a}
            answer == [req |-> q, mapping |-> mapping]
            new == Append(list, answer)
<1>1. answer \in T /\ (answer \in S <=> a = q)
  OBVIOUS
<1>2. list \in Seq(T)
  OBVIOUS
<1>. HIDE DEF answer, T
<1>3. new \in Seq(T)
  BY <1>1, <1>2
<1>4. {i \in 1..Len(list) : list[i].req = a} = {i \in 1..Len(list) : list[i] \in S}
  BY <1>2
<1>. HIDE DEF new
<1>5. {i \in 1..Len(new) : new[i].req = a} = {i \in 1..Len(new) : new[i] \in S}
  BY <1>3
<1>. HIDE DEF S
<1>6. Count(new, S) = Count(list, S) + (IF answer \in S THEN 1 ELSE 0)
  BY <1>1, <1>2, CountAppend DEF new
<1>7. Coming(new, a) = Coming(list, a) + (IF a = q THEN 1 ELSE 0)
  BY <1>1, <1>4, <1>5, <1>6 DEF Count, Coming
<1>. QED BY <1>3, <1>7 DEF new, T, answer

LEMMA ComingTail ==
  ASSUME NEW R, NEW list \in Seq([req : R, mapping : Mappings]), list # <<>>, NEW a
  PROVE  /\ Head(list) \in [req : R, mapping : Mappings]
         /\ Tail(list) \in Seq([req : R, mapping : Mappings])
         /\ Coming(list, a) = Coming(Tail(list), a) + (IF a = Head(list).req THEN 1 ELSE 0)
<1>. DEFINE T == [req : R, mapping : Mappings]
            S == {x \in T : x.req = a}
            h == Head(list)
            rest == Tail(list)
<1>1. list \in Seq(T)
  OBVIOUS
<1>. HIDE DEF T
<1>2. h \in T /\ rest \in Seq(T) /\ Count(list, S) = Count(rest, S) + (IF h \in S THEN 1 ELSE 0)
  BY <1>1, CountTail
<1>3. {i \in 1..Len(list) : list[i].req = a} = {i \in 1..Len(list) : list[i] \in S}
  BY <1>1
<1>. HIDE DEF h, rest
<1>4. {i \in 1..Len(rest) : rest[i].req = a} = {i \in 1..Len(rest) : rest[i] \in S}
  BY <1>2
<1>5. h \in S <=> a = h.req
  BY <1>2
<1>. HIDE DEF S
<1>6. Coming(list, a) = Coming(rest, a) + (IF a = h.req THEN 1 ELSE 0)
  BY <1>2, <1>3, <1>4, <1>5 DEF Count, Coming
<1>. QED BY <1>2, <1>6 DEF h, rest, T

LEMMA AnswerFirst ==
  ASSUME AccessType, GPUSound, Once, NEW c \in Cores, NEW u, Sound(u, ReqsOf(c)), NEW q \in ReqsOf(c),
         TakesHeld(tlb[c], u, ReqsOf(c), q), SameOpen(tlb[c], u), u.bottomIn = tlb[c].bottomIn,
         NEW mapping \in Mappings, Answer(c, q, mapping, u), UNCHANGED <<access, gmmu>>
  PROVE  GPUSound' /\ Once'
<1>. DEFINE answer == [req |-> q, mapping |-> mapping]
            new == Append(answers[c], answer)
<1>1. c \in TLBNames /\ c # L2 /\ L2 \in TLBNames /\ q \in Accesses /\ q.core = c
  BY Names
<1>2. answers' = [answers EXCEPT ![c] = new] /\ tlb' = [tlb EXCEPT ![c] = u]
  BY <1>1 DEF Answer
<1>3. /\ new \in Seq([req : ReqsOf(c), mapping : Mappings])
      /\ \A a : Coming(new, a) = Coming(answers[c], a) + (IF a = q THEN 1 ELSE 0)
  <2>1. answers[c] \in Seq([req : ReqsOf(c), mapping : Mappings])
    BY DEF GPUSound
  <2>. QED BY <2>1, ComingAppend
<1>4. new \in Seq([req : Accesses, mapping : Mappings])
  <2>1. answer \in [req : Accesses, mapping : Mappings]
    BY <1>1
  <2>2. answers[c] \in Seq([req : Accesses, mapping : Mappings])
    BY DEF GPUSound
  <2>. HIDE DEF answer
  <2>. QED BY <2>1, <2>2, AppendList
<1>. HIDE DEF new, answer
<1>5. /\ answers' \in [Cores -> Seq([req : Accesses, mapping : Mappings])]
      /\ \A d \in Cores : answers'[d] = IF d = c THEN new ELSE answers[d]
  BY <1>2, <1>4 DEF GPUSound
<1>6. /\ DOMAIN tlb' = TLBNames /\ \A m \in TLBNames : tlb'[m] = IF m = c THEN u ELSE tlb[m]
      /\ \A m \in TLBNames : Sound(tlb'[m], ReqsOf(m))
  BY <1>1, <1>2, OneTLB
<1>7. GPUSound'
  <2>1. \A d \in Cores : answers'[d] \in Seq([req : ReqsOf(d), mapping : Mappings])
    BY <1>3, <1>5 DEF GPUSound
  <2>. QED BY <1>5, <1>6, <2>1 DEF GPUSound
<1>8. \A m \in TLBNames, p \in Pages : /\ Open(tlb'[m], p) <=> Open(tlb[m], p)
                                       /\ Returned(tlb'[m], p) = Returned(tlb[m], p)
  BY <1>6 DEF SameOpen, Returned
<1>9. tlb'[L2] = tlb[L2]
  BY <1>1, <1>6
<1>10. EachMissOnce'
  BY <1>8, <1>9, Names, Accounts, AccountsNext DEF Once
<1>11. EachAccessOnce'
  <2>1. ASSUME NEW a \in DOMAIN access
        PROVE  Held(tlb'[a.core], a) + Coming(answers'[a.core], a)
                 = Held(tlb[a.core], a) + Coming(answers[a.core], a)
    <3>1. a \in Accesses /\ a.core \in Cores /\ a.core \in TLBNames /\ a \in ReqsOf(a.core)
      BY Names, AccessesOf
    <3>2. Held(tlb[a.core], a) \in Nat /\ Coming(answers[a.core], a) \in Nat
      BY <3>1, Numbers
    <3>3. CASE a.core = c
      <4>1. a \in ReqsOf(c) /\ tlb'[a.core] = u /\ answers'[a.core] = new
        BY <1>5, <1>6, <3>1, <3>3
      <4>2. Held(u, a) = Held(tlb[c], a) - (IF a = q THEN 1 ELSE 0)
        BY <4>1 DEF TakesHeld
      <4>. QED BY <1>3, <3>2, <3>3, <4>1, <4>2
    <3>4. CASE a.core # c
      BY <1>5, <1>6, <3>1, <3>4
    <3>. QED BY <3>3, <3>4
  <2>. QED BY <2>1, Accounts, AccountsNext DEF Once
<1>. QED BY <1>7, <1>10, <1>11 DEF Once

LEMMA AskTLB ==
  ASSUME GPUSound, NEW n \in TLBNames, NEW q \in ReqsOf(n), NEW v, v = Asking(tlb[n], q)
  PROVE  /\ Sound(v, ReqsOf(n)) /\ SameOpen(tlb[n], v) /\ v.bottomIn = tlb[n].bottomIn
         /\ \A x \in ReqsOf(n) : Held(v, x) = Held(tlb[n], x) + (IF x = q THEN 1 ELSE 0)
<1>1. Sound(tlb[n], ReqsOf(n)) /\ \A x \in ReqsOf(n) : x.page \in Pages
  BY Names DEF GPUSound
<1>. QED BY <1>1, AskSound

(* A miss: an entry more here, a request more below. *)
LEMMA AskSecond ==
  ASSUME AccessType, GPUSound, Once, NEW c \in Cores, NEW u, Sound(u, ReqsOf(c)),
         SameHeld(tlb[c], u, ReqsOf(c)), u.bottomIn = tlb[c].bottomIn,
         NEW p \in Pages, ~Open(tlb[c], p), \A x \in Pages : Open(u, x) <=> Open(tlb[c], x) \/ x = p,
         Ask(c, p, u), UNCHANGED <<access, answers>>
  PROVE  GPUSound' /\ Once'
<1>. DEFINE q == [core |-> c, page |-> p]
            v == Asking(tlb[L2], q)
<1>1. c \in TLBNames /\ c # L2 /\ L2 \in TLBNames /\ q \in ReqsOf(L2)
  BY Names
<1>2. UNCHANGED gmmu /\ tlb' = [tlb EXCEPT ![c] = u, ![L2] = v]
  <2>1. UNCHANGED gmmu /\ tlb' = [tlb EXCEPT ![c] = u, ![L2].topIn = Append(@, q)]
    BY <1>1 DEF Ask
  <2>. QED BY <1>1, <2>1 DEF GPUSound, Asking
<1>3. \A d \in Cores, x \in Pages : [core |-> d, page |-> x] = q <=> d = c /\ x = p
  OBVIOUS
<1>. HIDE DEF q
<1>4. v = Asking(tlb[L2], q)
  OBVIOUS
<1>. HIDE DEF v
<1>5. /\ Sound(v, ReqsOf(L2)) /\ SameOpen(tlb[L2], v) /\ v.bottomIn = tlb[L2].bottomIn
      /\ \A x \in ReqsOf(L2) : Held(v, x) = Held(tlb[L2], x) + (IF x = q THEN 1 ELSE 0)
  BY <1>1, <1>4, AskTLB
<1>6. /\ DOMAIN tlb' = TLBNames
      /\ \A m \in TLBNames : tlb'[m] = IF m = c THEN u ELSE IF m = L2 THEN v ELSE tlb[m]
      /\ \A m \in TLBNames : Sound(tlb'[m], ReqsOf(m))
  BY <1>1, <1>2, <1>5, TwoTLBs
<1>7. GPUSound'
  BY <1>2, <1>6 DEF GPUSound
<1>8. \A m \in TLBNames, x \in Pages : Returned(tlb'[m], x) = Returned(tlb[m], x)
  BY <1>5, <1>6 DEF Returned
<1>9. \A d \in Cores, x \in Pages : Open(tlb'[d], x) <=> Open(tlb[d], x) \/ (d = c /\ x = p)
  BY <1>1, <1>6, Names
<1>10. \A x \in Pages : Open(tlb'[L2], x) <=> Open(tlb[L2], x)
  BY <1>1, <1>5, <1>6 DEF SameOpen
<1>11. \A m \in Cores : \A a \in ReqsOf(m) : Held(tlb'[m], a) = Held(tlb[m], a)
  BY <1>1, <1>6, Names DEF SameHeld
<1>12. EachMissOnce'
  <2>1. ASSUME NEW d \in Cores, NEW x \in Pages
        PROVE  Held(tlb'[L2], [core |-> d, page |-> x]) + Returned(tlb'[d], x)
                 = IF Open(tlb'[d], x) THEN 1 ELSE 0
    <3>. DEFINE m == [core |-> d, page |-> x]
    <3>1. m \in ReqsOf(L2) /\ d \in TLBNames
      BY Names
    <3>2. m = q <=> d = c /\ x = p
      BY <1>3
    <3>3. Held(tlb[L2], m) + Returned(tlb[d], x) = IF Open(tlb[d], x) THEN 1 ELSE 0
      BY Accounts DEF Once
    <3>. HIDE DEF m
    <3>4. Held(tlb[L2], m) \in Nat /\ Returned(tlb[d], x) \in Nat
      BY <1>1, <3>1, Numbers
    <3>5. Held(tlb'[L2], m) = Held(tlb[L2], m) + (IF d = c /\ x = p THEN 1 ELSE 0)
      BY <1>1, <1>5, <1>6, <3>1, <3>2
    <3>6. Held(tlb'[L2], m) + Returned(tlb'[d], x) = IF Open(tlb'[d], x) THEN 1 ELSE 0
      <4>1. CASE d = c /\ x = p
        BY <1>8, <1>9, <3>1, <3>3, <3>4, <3>5, <4>1
      <4>2. CASE ~(d = c /\ x = p)
        BY <1>8, <1>9, <3>1, <3>3, <3>4, <3>5, <4>2
      <4>. QED BY <4>1, <4>2
    <3>. QED BY <3>6 DEF m
  <2>2. ASSUME NEW x \in Pages
        PROVE  Walked(gmmu', x) + Returned(tlb'[L2], x) = IF Open(tlb'[L2], x) THEN 1 ELSE 0
    BY <1>1, <1>2, <1>8, <1>10, Accounts DEF Once
  <2>. QED BY <2>1, <2>2, AccountsNext
<1>13. EachAccessOnce'
  BY <1>2, <1>11, Names, AccessesOf, Accounts, AccountsNext, ZenonT(60) DEF Once
<1>. QED BY <1>7, <1>12, <1>13 DEF Once

LEMMA AskWalker ==
  ASSUME AccessType, GPUSound, Once, NEW u, Sound(u, ReqsOf(L2)),
         SameHeld(tlb[L2], u, ReqsOf(L2)), u.bottomIn = tlb[L2].bottomIn,
         NEW p \in Pages, ~Open(tlb[L2], p), \A x \in Pages : Open(u, x) <=> Open(tlb[L2], x) \/ x = p,
         Ask(L2, p, u), UNCHANGED <<access, answers>>
  PROVE  GPUSound' /\ Once'
<1>1. L2 \in TLBNames /\ gmmu \in GMMUs
  BY Names DEF GPUSound
<1>2. gmmu' = Walking(gmmu, p) /\ tlb' = [tlb EXCEPT ![L2] = u]
  BY DEF Ask, Walking
<1>3. gmmu' \in GMMUs /\ \A x \in Pages : Walked(gmmu', x) = Walked(gmmu, x) + (IF x = p THEN 1 ELSE 0)
  BY <1>1, <1>2, AskGMMU
<1>4. /\ DOMAIN tlb' = TLBNames /\ \A m \in TLBNames : tlb'[m] = IF m = L2 THEN u ELSE tlb[m]
      /\ \A m \in TLBNames : Sound(tlb'[m], ReqsOf(m))
  BY <1>1, <1>2, OneTLB
<1>5. GPUSound'
  BY <1>3, <1>4 DEF GPUSound
<1>6. \A m \in TLBNames, x \in Pages : Returned(tlb'[m], x) = Returned(tlb[m], x)
  BY <1>4 DEF Returned
<1>7. \A c \in Cores : tlb'[c] = tlb[c]
  BY <1>4, Names
<1>8. \A q \in ReqsOf(L2) : Held(tlb'[L2], q) = Held(tlb[L2], q)
  BY <1>1, <1>4 DEF SameHeld
<1>9. EachMissOnce'
  <2>1. ASSUME NEW d \in Cores, NEW x \in Pages
        PROVE  Held(tlb'[L2], [core |-> d, page |-> x]) + Returned(tlb'[d], x)
                 = IF Open(tlb'[d], x) THEN 1 ELSE 0
    BY <1>7, <1>8, Names, Accounts DEF Once
  <2>2. ASSUME NEW x \in Pages
        PROVE  Walked(gmmu', x) + Returned(tlb'[L2], x) = IF Open(tlb'[L2], x) THEN 1 ELSE 0
    <3>1. Walked(gmmu, x) + Returned(tlb[L2], x) = IF Open(tlb[L2], x) THEN 1 ELSE 0
      BY Accounts DEF Once
    <3>2. Walked(gmmu, x) \in Nat /\ Returned(tlb[L2], x) \in Nat
      BY <1>1, Numbers
    <3>3. Open(tlb'[L2], x) <=> Open(tlb[L2], x) \/ x = p
      BY <1>1, <1>4
    <3>. QED BY <1>1, <1>3, <1>6, <3>1, <3>2, <3>3
  <2>. QED BY <2>1, <2>2, AccountsNext
<1>10. EachAccessOnce'
  BY <1>7, Names, AccessesOf, Accounts, AccountsNext DEF Once
<1>. QED BY <1>5, <1>9, <1>10 DEF Once

(* A fill: an answer less, and the entry is closed. *)
LEMMA FillTLB ==
  ASSUME AccessType, GPUSound, Once, NEW n \in TLBNames, ParseFill(n)
  PROVE  GPUSound' /\ Once'
<1>. DEFINE t == tlb[n]
            u == ParseBottom(t)
            p == Head(t.bottomIn).page
<1>1. /\ CanParseBottom(t) /\ tlb' = [tlb EXCEPT ![n] = u] /\ UNCHANGED <<access, answers, gmmu>>
  BY DEF ParseFill, GPUSound
<1>2. Sound(t, ReqsOf(n)) /\ (\A x \in ReqsOf(n) : x.page \in Pages) /\ t \in TLBs(ReqsOf(n)) /\ t.bottomIn # <<>>
  BY <1>1, Names DEF GPUSound, Sound, CanParseBottom
<1>. HIDE DEF t
<1>3. /\ Sound(u, ReqsOf(n)) /\ SameHeld(t, u, ReqsOf(n)) /\ p \in Pages
      /\ \A x \in Pages : Open(u, x) <=> Open(t, x) /\ x # p
      /\ u.bottomIn = Tail(t.bottomIn)
  BY <1>1, <1>2, FillSound
<1>4. \A x \in Pages : Returned(t, x) = Returned(u, x) + (IF x = p THEN 1 ELSE 0)
  BY <1>2, <1>3, ReturnedTail
<1>. HIDE DEF u, p
<1>5. /\ DOMAIN tlb' = TLBNames /\ \A m \in TLBNames : tlb'[m] = IF m = n THEN u ELSE tlb[m]
      /\ \A m \in TLBNames : Sound(tlb'[m], ReqsOf(m))
  BY <1>1, <1>3, OneTLB
<1>6. GPUSound'
  BY <1>1, <1>5 DEF GPUSound
<1>7. \A m \in TLBNames : \A q \in ReqsOf(m) : Held(tlb'[m], q) = Held(tlb[m], q)
  BY <1>3, <1>5 DEF SameHeld, t
<1>8. \A m \in TLBNames, x \in Pages :
        /\ Open(tlb'[m], x) <=> Open(tlb[m], x) /\ ~(m = n /\ x = p)
        /\ Returned(tlb[m], x) = Returned(tlb'[m], x) + (IF m = n /\ x = p THEN 1 ELSE 0)
  <2>1. \A m \in TLBNames, x \in Pages : Returned(tlb[m], x) = Returned(tlb[m], x) + 0
    BY Numbers
  <2>. QED BY <1>3, <1>4, <1>5, <2>1 DEF t
<1>9. \A m \in TLBNames, x \in Pages : Returned(tlb'[m], x) \in Nat
  BY <1>5, ReturnedType DEF Sound
<1>10. EachMissOnce'
  <2>1. ASSUME NEW d \in Cores, NEW x \in Pages
        PROVE  Held(tlb'[L2], [core |-> d, page |-> x]) + Returned(tlb'[d], x)
                 = IF Open(tlb'[d], x) THEN 1 ELSE 0
    <3>1. d \in TLBNames /\ [core |-> d, page |-> x] \in ReqsOf(L2) /\ L2 \in TLBNames
      BY Names
    <3>2. Held(tlb[L2], [core |-> d, page |-> x]) + Returned(tlb[d], x)
            = IF Open(tlb[d], x) THEN 1 ELSE 0
      BY Accounts DEF Once
    <3>3. /\ Held(tlb[L2], [core |-> d, page |-> x]) \in Nat
          /\ Held(tlb'[L2], [core |-> d, page |-> x]) = Held(tlb[L2], [core |-> d, page |-> x])
      BY <1>7, <3>1, Numbers
    <3>. QED BY <1>8, <1>9, <3>1, <3>2, <3>3
  <2>2. ASSUME NEW x \in Pages
        PROVE  Walked(gmmu', x) + Returned(tlb'[L2], x) = IF Open(tlb'[L2], x) THEN 1 ELSE 0
    <3>1. Walked(gmmu, x) + Returned(tlb[L2], x) = IF Open(tlb[L2], x) THEN 1 ELSE 0
      BY Accounts DEF Once
    <3>2. Walked(gmmu, x) \in Nat /\ Walked(gmmu', x) = Walked(gmmu, x) /\ L2 \in TLBNames
      BY <1>1, Names, Numbers
    <3>. QED BY <1>8, <1>9, <3>1, <3>2
  <2>. QED BY <2>1, <2>2, AccountsNext
<1>11. EachAccessOnce'
  BY <1>1, <1>7, Names, AccessesOf, Accounts, AccountsNext DEF Once
<1>. QED BY <1>6, <1>10, <1>11 DEF Once

(* The GMMU answers the second TLB and has a translation less. *)
LEMMA AnswerGMMU ==
  ASSUME AccessType, GPUSound, Once, table \in [Regions -> PTEs], NEW p \in Pages, AnswerWalk(p),
         gmmu' \in GMMUs, \A x \in Pages : Walked(gmmu', x) = Walked(gmmu, x) - (IF x = p THEN 1 ELSE 0),
         UNCHANGED <<access, answers>>
  PROVE  GPUSound' /\ Once'
<1>. DEFINE answer == [page |-> p, mapping |-> MappingOf(PTE(p))]
            v == Delivered(tlb[L2], answer)
<1>1. answer \in Answered /\ answer.page = p
  <2>1. RegionOf[p] \in Regions
    BY GMMUAssumption
  <2>2. PTE(p) \in PTEs
    BY <2>1 DEF PTE
  <2>3. MappingOf(PTE(p)) \in Mappings
    BY <2>2 DEF MappingOf, NeedsFault, Mappings, PTEs
  <2>. QED BY <2>3 DEF Answered
<1>2. tlb' = [tlb EXCEPT ![L2] = v]
  BY Names DEF AnswerWalk, GPUSound, Delivered
<1>3. v = Delivered(tlb[L2], answer) /\ L2 \in TLBNames
  BY Names
<1>. HIDE DEF answer, v
<1>4. /\ Sound(v, ReqsOf(L2)) /\ SameHeld(tlb[L2], v, ReqsOf(L2)) /\ SameOpen(tlb[L2], v)
      /\ \A x \in Pages : Returned(v, x) = Returned(tlb[L2], x) + (IF x = p THEN 1 ELSE 0)
  <2>1. Sound(tlb[L2], ReqsOf(L2)) /\ \A x \in ReqsOf(L2) : x.page \in Pages
    BY <1>3, Names DEF GPUSound
  <2>. QED BY <1>1, <1>3, <2>1, DeliverSound
<1>5. /\ DOMAIN tlb' = TLBNames /\ \A m \in TLBNames : tlb'[m] = IF m = L2 THEN v ELSE tlb[m]
      /\ \A m \in TLBNames : Sound(tlb'[m], ReqsOf(m))
  BY <1>2, <1>3, <1>4, OneTLB
<1>6. GPUSound'
  BY <1>5 DEF GPUSound
<1>7. \A c \in Cores : tlb'[c] = tlb[c]
  BY <1>5, Names
<1>8. \A q \in ReqsOf(L2) : Held(tlb'[L2], q) = Held(tlb[L2], q)
  BY <1>3, <1>4, <1>5 DEF SameHeld
<1>9. EachMissOnce'
  <2>1. ASSUME NEW d \in Cores, NEW x \in Pages
        PROVE  Held(tlb'[L2], [core |-> d, page |-> x]) + Returned(tlb'[d], x)
                 = IF Open(tlb'[d], x) THEN 1 ELSE 0
    BY <1>7, <1>8, Names, Accounts DEF Once
  <2>2. ASSUME NEW x \in Pages
        PROVE  Walked(gmmu', x) + Returned(tlb'[L2], x) = IF Open(tlb'[L2], x) THEN 1 ELSE 0
    <3>1. Walked(gmmu, x) + Returned(tlb[L2], x) = IF Open(tlb[L2], x) THEN 1 ELSE 0
      BY Accounts DEF Once
    <3>2. Walked(gmmu, x) \in Nat /\ Returned(tlb[L2], x) \in Nat
      BY <1>3, Numbers
    <3>3. /\ Open(tlb'[L2], x) <=> Open(tlb[L2], x)
          /\ Returned(tlb'[L2], x) = Returned(tlb[L2], x) + (IF x = p THEN 1 ELSE 0)
      BY <1>3, <1>4, <1>5 DEF SameOpen
    <3>4. Walked(gmmu', x) = Walked(gmmu, x) - (IF x = p THEN 1 ELSE 0)
      OBVIOUS
    <3>. QED BY <3>1, <3>2, <3>3, <3>4
  <2>. QED BY <2>1, <2>2, AccountsNext
<1>10. EachAccessOnce'
  BY <1>7, Names, AccessesOf, Accounts, AccountsNext DEF Once
<1>. QED BY <1>6, <1>9, <1>10 DEF Once

-----------------------------------------------------------------------------
(* The address translators.                                                *)

States == {"Idle", "Translating", "Resolved", "Local", "Remote", "Done"}

LEMMA AccessStep ==
  ASSUME AccessType, NEW a, NEW s \in States, access' = [access EXCEPT ![a] = s]
  PROVE  AccessType' /\ DOMAIN access' = DOMAIN access
         /\ \A x \in DOMAIN access : access'[x] = IF x = a THEN s ELSE access[x]
<1>1. DOMAIN access \in Programs /\ access \in [DOMAIN access -> States]
  BY DEF AccessType, States
<1>2. access' \in [DOMAIN access -> States] /\ DOMAIN access' = DOMAIN access
  BY <1>1
<1>3. \A x \in DOMAIN access : access'[x] = IF x = a THEN s ELSE access[x]
  BY <1>1
<1>. QED BY <1>1, <1>2, <1>3 DEF AccessType, States

LEMMA TranslateStep ==
  ASSUME AccessType, GPUSound, Once, NEW a, Translate(a)
  PROVE  AccessType' /\ GPUSound' /\ Once'
<1>. DEFINE c == a.core
            u == Asking(tlb[c], a)
<1>1. /\ a \in DOMAIN access /\ access[a] = "Idle" /\ access' = [access EXCEPT ![a] = "Translating"]
      /\ UNCHANGED <<answers, gmmu>>
  BY DEF Translate
<1>2. a \in Accesses /\ c \in Cores /\ c \in TLBNames /\ c # L2 /\ L2 \in TLBNames /\ a \in ReqsOf(c)
  BY <1>1, Names, AccessesOf
<1>3. u = Asking(tlb[c], a) /\ c = a.core /\ tlb' = [tlb EXCEPT ![c] = u]
  BY <1>2 DEF Translate, GPUSound, Asking
<1>. HIDE DEF u, c
<1>4. /\ Sound(u, ReqsOf(c)) /\ SameOpen(tlb[c], u) /\ u.bottomIn = tlb[c].bottomIn
      /\ \A x \in ReqsOf(c) : Held(u, x) = Held(tlb[c], x) + (IF x = a THEN 1 ELSE 0)
  BY <1>2, <1>3, AskTLB
<1>5. /\ AccessType' /\ DOMAIN access' = DOMAIN access
      /\ \A x \in DOMAIN access : access'[x] = IF x = a THEN "Translating" ELSE access[x]
  BY <1>1, AccessStep DEF States
<1>6. /\ DOMAIN tlb' = TLBNames /\ \A m \in TLBNames : tlb'[m] = IF m = c THEN u ELSE tlb[m]
      /\ \A m \in TLBNames : Sound(tlb'[m], ReqsOf(m))
  BY <1>2, <1>3, <1>4, OneTLB
<1>7. GPUSound'
  BY <1>1, <1>6 DEF GPUSound
<1>8. \A m \in TLBNames, p \in Pages : /\ Open(tlb'[m], p) <=> Open(tlb[m], p)
                                       /\ Returned(tlb'[m], p) = Returned(tlb[m], p)
  BY <1>4, <1>6 DEF SameOpen, Returned
<1>9. tlb'[L2] = tlb[L2]
  BY <1>2, <1>6
<1>10. EachMissOnce'
  BY <1>1, <1>8, <1>9, Names, Accounts, AccountsNext DEF Once
<1>11. EachAccessOnce'
  <2>1. ASSUME NEW x \in DOMAIN access
        PROVE  Held(tlb'[x.core], x) + Coming(answers'[x.core], x)
                 = IF access'[x] \in {"Translating", "Resolved"} THEN 1 ELSE 0
    <3>1. x \in Accesses /\ x.core \in Cores /\ x.core \in TLBNames /\ x \in ReqsOf(x.core)
      BY Names, AccessesOf
    <3>2. Held(tlb[x.core], x) \in Nat /\ Coming(answers[x.core], x) \in Nat
      BY <3>1, Numbers
    <3>3. Held(tlb[x.core], x) + Coming(answers[x.core], x)
            = IF access[x] \in {"Translating", "Resolved"} THEN 1 ELSE 0
      BY Accounts DEF Once
    <3>4. answers' = answers
      BY <1>1
    <3>5. CASE x = a
      <4>1. Held(tlb'[x.core], x) = Held(tlb[x.core], x) + 1
        BY <1>3, <1>4, <1>6, <3>1, <3>5
      <4>. QED BY <1>1, <1>5, <3>2, <3>3, <3>4, <3>5, <4>1
    <3>6. CASE x # a
      <4>1. Held(tlb'[x.core], x) = Held(tlb[x.core], x)
        BY <1>3, <1>4, <1>6, <3>1, <3>2, <3>6
      <4>. QED BY <1>5, <3>3, <3>4, <3>6, <4>1
    <3>. QED BY <3>5, <3>6
  <2>. QED BY <1>5, <2>1, AccountsNext
<1>. QED BY <1>5, <1>7, <1>10, <1>11 DEF Once

(* parseTranslation: the answer is taken, and its request has a route.     *)
LEMMA ParseTranslationStep ==
  ASSUME AccessType, GPUSound, Once, NEW c \in Cores, ParseTranslation(c)
  PROVE  AccessType' /\ GPUSound' /\ Once'
<1>. DEFINE list == answers[c]
            h == Head(list)
            a == h.req
            rest == Tail(list)
            s == IF h.mapping = "Remote" THEN "Remote" ELSE "Local"
<1>1. /\ list # <<>> /\ access' = [access EXCEPT ![a] = s] /\ answers' = [answers EXCEPT ![c] = rest]
      /\ UNCHANGED <<tlb, gmmu>>
  BY DEF ParseTranslation
<1>2. list \in Seq([req : ReqsOf(c), mapping : Mappings]) /\ list \in Seq([req : Accesses, mapping : Mappings])
  BY DEF GPUSound
<1>3. s \in States /\ s \notin {"Translating", "Resolved"}
  BY DEF States
<1>4. a = h.req /\ list = answers[c]
  OBVIOUS
<1>. HIDE DEF list, s
<1>5. /\ h \in [req : ReqsOf(c), mapping : Mappings]
      /\ rest \in Seq([req : ReqsOf(c), mapping : Mappings])
      /\ \A x : Coming(list, x) = Coming(rest, x) + (IF x = a THEN 1 ELSE 0)
  BY <1>1, <1>2, ComingTail
<1>6. rest \in Seq([req : Accesses, mapping : Mappings])
  BY <1>1, <1>2, ComingTail
<1>. HIDE DEF h, rest, a
<1>7. a \in ReqsOf(c) /\ a \in Accesses /\ a.core = c
  BY <1>4, <1>5, Names
<1>8. /\ AccessType' /\ DOMAIN access' = DOMAIN access
      /\ \A x \in DOMAIN access : access'[x] = IF x = a THEN s ELSE access[x]
  BY <1>1, <1>3, AccessStep
<1>9. /\ answers' \in [Cores -> Seq([req : Accesses, mapping : Mappings])]
      /\ \A d \in Cores : answers'[d] = IF d = c THEN rest ELSE answers[d]
  BY <1>1, <1>6 DEF GPUSound
<1>10. GPUSound'
  <2>1. \A d \in Cores : answers'[d] \in Seq([req : ReqsOf(d), mapping : Mappings])
    BY <1>5, <1>9 DEF GPUSound
  <2>. QED BY <1>1, <1>9, <2>1 DEF GPUSound
<1>11. EachMissOnce'
  BY <1>1, Accounts, AccountsNext DEF Once
<1>12. EachAccessOnce'
  <2>1. ASSUME NEW x \in DOMAIN access
        PROVE  Held(tlb'[x.core], x) + Coming(answers'[x.core], x)
                 = IF access'[x] \in {"Translating", "Resolved"} THEN 1 ELSE 0
    <3>1. x \in Accesses /\ x.core \in Cores /\ x.core \in TLBNames /\ x \in ReqsOf(x.core)
      BY Names, AccessesOf
    <3>2. /\ Held(tlb[x.core], x) \in Nat /\ Coming(answers[x.core], x) \in Nat
          /\ Held(tlb'[x.core], x) = Held(tlb[x.core], x)
      BY <1>1, <3>1, Numbers
    <3>3. Held(tlb[x.core], x) + Coming(answers[x.core], x)
            = IF access[x] \in {"Translating", "Resolved"} THEN 1 ELSE 0
      BY Accounts DEF Once
    <3>4. Coming(answers'[x.core], x) \in Nat
      <4>1. answers'[x.core] \in Seq([req : Accesses, mapping : Mappings])
        BY <1>9, <3>1
      <4>. QED BY <4>1, ComingType
    <3>5. CASE x = a
      <4>1. Coming(answers[x.core], x) = Coming(answers'[x.core], x) + 1
        BY <1>4, <1>5, <1>7, <1>9, <3>5
      <4>. QED BY <1>3, <1>8, <3>2, <3>3, <3>4, <3>5, <4>1
    <3>6. CASE x # a
      <4>1. Coming(answers'[x.core], x) = Coming(answers[x.core], x)
        <5>1. CASE x.core = c
          <6>1. Coming(list, x) = Coming(rest, x) + 0 /\ answers'[x.core] = rest /\ answers[x.core] = list
            BY <1>4, <1>5, <1>9, <3>1, <3>6, <5>1
          <6>. QED BY <3>4, <6>1
        <5>2. CASE x.core # c
          BY <1>9, <3>1, <5>2
        <5>. QED BY <5>1, <5>2
      <4>. QED BY <1>8, <3>2, <3>3, <3>6, <4>1
    <3>. QED BY <3>5, <3>6
  <2>. QED BY <1>8, <2>1, AccountsNext
<1>. QED BY <1>8, <1>10, <1>11, <1>12 DEF Once

(* A translator on its own: the access keeps its answer, or had none.      *)
LEMMA AccessAlone ==
  ASSUME AccessType, GPUSound, Once, NEW a, NEW s \in States, access' = [access EXCEPT ![a] = s],
         (s \in {"Translating", "Resolved"}) <=> (access[a] \in {"Translating", "Resolved"}),
         UNCHANGED <<answers, tlb, gmmu>>
  PROVE  AccessType' /\ GPUSound' /\ Once'
<1>1. /\ AccessType' /\ DOMAIN access' = DOMAIN access
      /\ \A x \in DOMAIN access : access'[x] = IF x = a THEN s ELSE access[x]
  BY AccessStep
<1>2. GPUSound'
  BY DEF GPUSound
<1>3. EachMissOnce'
  BY Accounts, AccountsNext DEF Once
<1>4. EachAccessOnce'
  <2>1. \A x \in DOMAIN access : (access'[x] \in {"Translating", "Resolved"})
                                   <=> (access[x] \in {"Translating", "Resolved"})
    BY <1>1
  <2>. QED BY <1>1, <2>1, Accounts, AccountsNext DEF Once
<1>. QED BY <1>1, <1>2, <1>3, <1>4 DEF Once

-----------------------------------------------------------------------------
(* The TLBs.                                                               *)

LEMMA AnswerStep ==
  ASSUME AccessType, GPUSound, Once, NEW n \in TLBNames, NEW u, Sound(u, ReqsOf(n)), NEW q \in ReqsOf(n),
         TakesHeld(tlb[n], u, ReqsOf(n), q), SameOpen(tlb[n], u), u.bottomIn = tlb[n].bottomIn,
         NEW mapping \in Mappings, Answer(n, q, mapping, u), UNCHANGED <<access, gmmu>>
  PROVE  GPUSound' /\ Once'
<1>1. CASE n = L2
  BY <1>1, AnswerSecond
<1>2. CASE n # L2
  <2>1. n \in Cores
    BY <1>2, Names
  <2>. QED BY <2>1, AnswerFirst
<1>. QED BY <1>1, <1>2

LEMMA LookupStep ==
  ASSUME AccessType, GPUSound, Once, NEW n \in TLBNames, Lookup(n)
  PROVE  GPUSound' /\ Once'
<1>1. Sound(tlb[n], ReqsOf(n)) /\ (\A x \in ReqsOf(n) : x.page \in Pages) /\ UNCHANGED access
      /\ DOMAIN tlb = TLBNames
  BY Names DEF GPUSound, Lookup
<1>2. ASSUME JoinsEntry(tlb[n]), tlb' = [tlb EXCEPT ![n] = JoinEntry(tlb[n])], UNCHANGED <<answers, gmmu>>
      PROVE  GPUSound' /\ Once'
  <2>. DEFINE u == JoinEntry(tlb[n])
  <2>1. /\ Sound(u, ReqsOf(n)) /\ SameHeld(tlb[n], u, ReqsOf(n)) /\ SameOpen(tlb[n], u)
        /\ u.bottomIn = tlb[n].bottomIn
    BY <1>1, <1>2, JoinSound
  <2>2. gmmu' \in GMMUs /\ SameWalked(gmmu, gmmu')
    BY <1>2 DEF GPUSound, SameWalked
  <2>. HIDE DEF u
  <2>3. tlb' = [tlb EXCEPT ![n] = u]
    BY <1>2 DEF u
  <2>. QED BY <1>1, <1>2, <2>1, <2>2, <2>3, TLBAlone
<1>3. ASSUME Hits(tlb[n]), UNCHANGED gmmu,
             Answer(n, Head(tlb[n].topIn), Translation(tlb[n]), AnswerHit(tlb[n]))
      PROVE  GPUSound' /\ Once'
  <2>. DEFINE u == AnswerHit(tlb[n])
              q == Head(tlb[n].topIn)
              mapping == Translation(tlb[n])
  <2>1. /\ Sound(u, ReqsOf(n)) /\ TakesHeld(tlb[n], u, ReqsOf(n), q) /\ SameOpen(tlb[n], u)
        /\ u.bottomIn = tlb[n].bottomIn /\ mapping \in Mappings /\ q \in ReqsOf(n)
    BY <1>1, <1>3, HitSound
  <2>2. Answer(n, q, mapping, u)
    BY <1>3
  <2>. HIDE DEF u, q, mapping
  <2>. QED BY <1>1, <1>3, <2>1, <2>2, AnswerStep
<1>4. ASSUME Misses(tlb[n]), UNCHANGED answers,
             Ask(n, Head(tlb[n].topIn).page, OpenEntry(tlb[n]))
      PROVE  GPUSound' /\ Once'
  <2>. DEFINE u == OpenEntry(tlb[n])
              p == Head(tlb[n].topIn).page
  <2>1. /\ Sound(u, ReqsOf(n)) /\ SameHeld(tlb[n], u, ReqsOf(n)) /\ p \in Pages /\ ~Open(tlb[n], p)
        /\ \A x \in Pages : Open(u, x) <=> Open(tlb[n], x) \/ x = p
        /\ u.bottomIn = tlb[n].bottomIn
    BY <1>1, <1>4, OpenSound
  <2>2. Ask(n, p, u)
    BY <1>4
  <2>. HIDE DEF u, p
  <2>3. CASE n = L2
    BY <1>1, <1>4, <2>1, <2>2, <2>3, AskWalker
  <2>4. CASE n # L2
    <3>1. n \in Cores
      BY <2>4, Names
    <3>. QED BY <1>1, <1>4, <2>1, <2>2, <3>1, AskSecond
  <2>. QED BY <2>3, <2>4
<1>. QED BY <1>1, <1>2, <1>3, <1>4 DEF Lookup

LEMMA RespondStep ==
  ASSUME AccessType, GPUSound, Once, NEW n \in TLBNames, RespondEntry(n)
  PROVE  GPUSound' /\ Once'
<1>. DEFINE u == Respond(tlb[n])
            q == Head(tlb[n].responding.requests)
            mapping == tlb[n].responding.mapping
<1>1. Sound(tlb[n], ReqsOf(n)) /\ (\A x \in ReqsOf(n) : x.page \in Pages)
  BY Names DEF GPUSound
<1>2. Responding(tlb[n]) /\ Answer(n, q, mapping, u) /\ UNCHANGED <<access, gmmu>>
  BY DEF RespondEntry
<1>3. /\ Sound(u, ReqsOf(n)) /\ TakesHeld(tlb[n], u, ReqsOf(n), q) /\ SameOpen(tlb[n], u)
      /\ u.bottomIn = tlb[n].bottomIn /\ mapping \in Mappings /\ q \in ReqsOf(n)
  BY <1>1, <1>2, RespondSound
<1>. HIDE DEF u, q, mapping
<1>. QED BY <1>2, <1>3, AnswerStep

LEMMA InvalidateStep ==
  ASSUME AccessType, GPUSound, Once, NEW n \in TLBNames, InvalidateTLB(n)
  PROVE  GPUSound' /\ Once'
<1>. DEFINE S == PagesIn(gmmu.invalidating)
            u == InvalidateRange(tlb[n], S)
<1>1. Sound(tlb[n], ReqsOf(n)) /\ (\A x \in ReqsOf(n) : x.page \in Pages) /\ gmmu \in GMMUs
  BY Names DEF GPUSound
<1>2. gmmu' = CollectAck(gmmu, n) /\ tlb' = [tlb EXCEPT ![n] = u] /\ UNCHANGED <<access, answers>>
  BY DEF InvalidateTLB, GPUSound
<1>. HIDE DEF S
<1>3. /\ Sound(u, ReqsOf(n)) /\ SameHeld(tlb[n], u, ReqsOf(n)) /\ SameOpen(tlb[n], u)
      /\ u.bottomIn = tlb[n].bottomIn
  BY <1>1, InvalidateSound
<1>. HIDE DEF u
<1>4. gmmu' \in GMMUs /\ SameWalked(gmmu, gmmu')
  BY <1>1, <1>2, CollectAckSound
<1>. QED BY <1>2, <1>3, <1>4, TLBAlone

-----------------------------------------------------------------------------
(* The GMMU.                                                               *)

LEMMA AdmitWalkStep ==
  ASSUME AccessType, GPUSound, Once, AdmitWalk
  PROVE  GPUSound' /\ Once'
<1>1. gmmu \in GMMUs /\ CanWalk(gmmu) /\ gmmu' = StartWalk(gmmu) /\ UNCHANGED <<access, answers, tlb>>
  BY DEF AdmitWalk, GPUSound
<1>2. gmmu' \in GMMUs /\ SameWalked(gmmu, gmmu')
  BY <1>1, WalkedOnce, StartWalkSound
<1>. QED BY <1>1, <1>2, GMMUAlone

LEMMA FinalizeWalkStep ==
  ASSUME AccessType, GPUSound, Once, table \in [Regions -> PTEs], NEW walk, FinalizeWalk(walk)
  PROVE  GPUSound' /\ Once'
<1>1. gmmu \in GMMUs /\ walk \in gmmu.walking /\ UNCHANGED <<access, answers>>
  BY DEF FinalizeWalk, GPUSound
<1>2. CASE gmmu' = SendUVMFault(gmmu, walk) /\ UNCHANGED tlb
  <2>1. gmmu' \in GMMUs /\ SameWalked(gmmu, gmmu')
    BY <1>1, <1>2, SendFaultSound
  <2>. QED BY <1>1, <1>2, <2>1, GMMUAlone
<1>3. CASE AnswerWalk(walk.page) /\ gmmu' = EndWalk(gmmu, walk)
  <2>1. /\ gmmu' \in GMMUs /\ walk.page \in Pages
        /\ \A x \in Pages : Walked(gmmu', x) = Walked(gmmu, x) - (IF x = walk.page THEN 1 ELSE 0)
    BY <1>1, <1>3, EndWalkSound
  <2>. QED BY <1>1, <1>3, <2>1, AnswerGMMU
<1>. QED BY <1>2, <1>3 DEF FinalizeWalk

LEMMA ReplayRangeStep ==
  ASSUME AccessType, GPUSound, Once, table \in [Regions -> PTEs], ReplayRange
  PROVE  GPUSound' /\ Once'
<1>. DEFINE i == FirstNamed(gmmu)
            p == gmmu.replayQueue[i].page
<1>1. gmmu \in GMMUs /\ Replaying(gmmu) /\ UNCHANGED <<access, answers>>
      /\ \A x \in Pages : Walked(gmmu, x) <= 1
  BY WalkedOnce DEF ReplayRange, GPUSound
<1>2. i = 0 \/ i \in 1..Len(gmmu.replayQueue)
  BY <1>1, FirstNamedPosition
<1>3. /\ i = 0 => gmmu' = ConsumeReplay(gmmu) /\ UNCHANGED tlb
      /\ i # 0 => \/ gmmu' = Refault(gmmu, i) /\ UNCHANGED tlb
                  \/ AnswerWalk(p) /\ gmmu' = Unpark(gmmu, i)
  BY DEF ReplayRange
<1>. HIDE DEF i
<1>4. CASE i = 0
  <2>1. gmmu.uvmIn # <<>>
    BY <1>1 DEF Replaying
  <2>2. gmmu' \in GMMUs /\ SameWalked(gmmu, gmmu')
    BY <1>1, <1>3, <1>4, <2>1, ConsumeReplaySound
  <2>. QED BY <1>1, <1>3, <1>4, <2>2, GMMUAlone
<1>5. ASSUME i \in 1..Len(gmmu.replayQueue), gmmu' = Refault(gmmu, i), UNCHANGED tlb
      PROVE  GPUSound' /\ Once'
  <2>1. gmmu' \in GMMUs /\ SameWalked(gmmu, gmmu')
    BY <1>1, <1>5, RefaultSound
  <2>. QED BY <1>1, <1>5, <2>1, GMMUAlone
<1>6. ASSUME i \in 1..Len(gmmu.replayQueue), AnswerWalk(p), gmmu' = Unpark(gmmu, i)
      PROVE  GPUSound' /\ Once'
  <2>1. /\ gmmu' \in GMMUs /\ gmmu.replayQueue[i] \in Walks
        /\ \A x \in Pages : Walked(gmmu', x) = Walked(gmmu, x) - (IF x = p THEN 1 ELSE 0)
    BY <1>1, <1>6, UnparkSound
  <2>2. p \in Pages
    BY <2>1 DEF Walks
  <2>. HIDE DEF p
  <2>. QED BY <1>1, <1>6, <2>1, <2>2, AnswerGMMU
<1>. QED BY <1>2, <1>3, <1>4, <1>5, <1>6

LEMMA StartInvalidateStep ==
  ASSUME GPUSound, Once, StartInvalidate
  PROVE  GPUSound' /\ Once'
<1>1. gmmu \in GMMUs /\ CanStartInvalidate(gmmu) /\ gmmu' = StartTLBInvalidate(gmmu)
      /\ UNCHANGED <<access, answers, tlb>>
  BY DEF StartInvalidate, GPUSound
<1>2. gmmu' \in GMMUs /\ SameWalked(gmmu, gmmu')
  BY <1>1, StartInvalidateSound
<1>. QED BY <1>1, <1>2, GMMUAlone

LEMMA CompleteInvalidateStep ==
  ASSUME GPUSound, Once, CompleteInvalidate
  PROVE  GPUSound' /\ Once'
<1>1. gmmu \in GMMUs /\ CanCompleteInvalidate(gmmu) /\ gmmu' = CompleteTLBInvalidate(gmmu)
      /\ UNCHANGED <<access, answers, tlb>>
  BY DEF CompleteInvalidate, GPUSound
<1>2. gmmu' \in GMMUs /\ SameWalked(gmmu, gmmu')
  BY <1>1, CompleteInvalidateSound
<1>. QED BY <1>1, <1>2, GMMUAlone

-----------------------------------------------------------------------------
(* The command processor and the driver move no translation.               *)

(* What a step of the GPU leaves alone. *)
LEMMA DriverUntouched ==
  ASSUME DriverType, UNCHANGED <<commands, flush, draining, driver>>
  PROVE  DriverType'
BY DEF DriverType, driver

LEMMA GPUUntouched ==
  ASSUME AccessType, GPUSound, Once, UNCHANGED <<access, answers, tlb, gmmu>>
  PROVE  AccessType' /\ GPUSound' /\ Once'
<1>1. AccessType' /\ GPUSound'
  BY DEF AccessType, GPUSound
<1>2. EachMissOnce' /\ EachAccessOnce'
  BY DEF Once, EachMissOnce, EachAccessOnce
<1>. QED BY <1>1, <1>2 DEF Once

LEMMA SendType ==
  ASSUME commands \in Seq(UVMCommands), NEW c \in UVMCommands, Send(c)
  PROVE  commands' \in Seq(UVMCommands)
BY DEF Send

LEMMA Commands ==
  ASSUME NEW r \in Regions
  PROVE  /\ [kind |-> "Invalidate", region |-> r] \in UVMCommands
         /\ [kind |-> "Flush", region |-> r] \in UVMCommands
         /\ \A refused \in BOOLEAN :
              [kind |-> "Replay", region |-> r, refused |-> refused] \in UVMCommands
BY DEF UVMCommands

LEMMA DispatchStep ==
  ASSUME AccessType, GPUSound, DriverType, Once, Dispatch
  PROVE  AccessType' /\ GPUSound' /\ DriverType' /\ Once'
<1>. DEFINE c == Head(commands)
<1>1. c \in UVMCommands /\ c.region \in Regions /\ commands' \in Seq(UVMCommands)
      /\ UNCHANGED <<access, answers, tlb, driver>>
  BY CommandRegion DEF Dispatch, DriverType
<1>2. CASE c.kind = "Flush"
  <2>1. flush' = [region |-> c.region, issued |-> FALSE] /\ draining' = Cores /\ UNCHANGED gmmu
    BY <1>2 DEF Dispatch
  <2>2. DriverType'
    BY <1>1, <2>1 DEF DriverType, driver
  <2>. QED BY <1>1, <2>1, <2>2, GPUUntouched
<1>3. CASE c.kind # "Flush"
  <2>1. gmmu' = [gmmu EXCEPT !.uvmIn = Append(@, c)] /\ UNCHANGED <<flush, draining>>
    BY <1>3 DEF Dispatch
  <2>. HIDE DEF c
  <2>2. Append(gmmu.uvmIn, c) \in Seq(UVMCommands)
    BY <1>1, GMMUFields DEF GPUSound
  <2>3. gmmu' \in GMMUs /\ gmmu'.topIn = gmmu.topIn /\ gmmu'.walking = gmmu.walking
        /\ gmmu'.replayQueue = gmmu.replayQueue
    BY <2>1, <2>2 DEF GMMUs, GPUSound
  <2>4. SameWalked(gmmu, gmmu')
    BY <2>3, UntouchedWalks
  <2>5. GPUSound' /\ Once'
    BY <1>1, <2>3, <2>4, GMMUAlone
  <2>6. DriverType' /\ AccessType'
    BY <1>1, <2>1 DEF DriverType, driver, AccessType
  <2>. QED BY <2>5, <2>6
<1>. QED BY <1>2, <1>3

LEMMA ReceiveStep ==
  ASSUME AccessType, GPUSound, DriverType, Once, Receive
  PROVE  AccessType' /\ GPUSound' /\ DriverType' /\ Once'
<1>. DEFINE msg == Head(gmmu.uvmOut)
            rest == Tail(gmmu.uvmOut)
<1>1. gmmu' = [gmmu EXCEPT !.uvmOut = rest] /\ gmmu.uvmOut # <<>>
      /\ UNCHANGED <<access, answers, tlb, flush, draining, table, evictions>>
  BY DEF Receive
<1>2. msg \in UVMMessages /\ rest \in Seq(UVMMessages)
  BY <1>1, GMMUFields, TimesTail DEF GPUSound
<1>3. (msg.kind = "Fault" => msg.page \in Pages) /\ (msg.kind # "Fault" => msg.region \in Regions)
  BY <1>2 DEF UVMMessages
<1>4. /\ msg.kind = "Fault" => faulted' = faulted \cup {RegionOf[msg.page]} /\ UNCHANGED <<service, commands>>
      /\ msg.kind # "Fault" /\ service[msg.region] = "Invalidating" =>
           /\ service' = [service EXCEPT ![msg.region] = "Flushing"]
           /\ Send([kind |-> "Flush", region |-> msg.region]) /\ UNCHANGED faulted
      /\ msg.kind # "Fault" /\ service[msg.region] # "Invalidating" =>
           /\ service' = [service EXCEPT ![msg.region] = "Idle"]
           /\ faulted' = faulted \ {msg.region} /\ Replay(msg.region, FALSE)
  BY DEF Receive
<1>. HIDE DEF msg, rest
<1>5. gmmu' \in GMMUs /\ gmmu'.topIn = gmmu.topIn /\ gmmu'.walking = gmmu.walking
      /\ gmmu'.replayQueue = gmmu.replayQueue
  BY <1>1, <1>2 DEF GMMUs, GPUSound
<1>6. SameWalked(gmmu, gmmu')
  BY <1>5, UntouchedWalks
<1>7. GPUSound' /\ Once' /\ AccessType'
  BY <1>1, <1>5, <1>6, GMMUAlone DEF AccessType
<1>8. DriverType'
  <2>1. CASE msg.kind = "Fault"
    <3>1. RegionOf[msg.page] \in Regions
      BY <1>3, <2>1, GMMUAssumption
    <3>. QED BY <1>1, <1>4, <2>1, <3>1 DEF DriverType
  <2>2. CASE msg.kind # "Fault" /\ service[msg.region] = "Invalidating"
    <3>1. commands' \in Seq(UVMCommands)
      BY <1>3, <1>4, <2>2, Commands, SendType DEF DriverType
    <3>. QED BY <1>1, <1>4, <2>2, <3>1 DEF DriverType
  <2>3. CASE msg.kind # "Fault" /\ service[msg.region] # "Invalidating"
    <3>1. commands' \in Seq(UVMCommands)
      BY <1>3, <1>4, <2>3, Commands, SendType DEF DriverType, Replay
    <3>. QED BY <1>1, <1>4, <2>3, <3>1 DEF DriverType
  <2>. QED BY <2>1, <2>2, <2>3
<1>. QED BY <1>7, <1>8

(* The steps of the driver that the GPU does not see at once. *)
DriverStep ==
  \/ \E r \in Regions : ServeResident(r) \/ MapRemote(r) \/ Refuse(r)
  \/ \E r \in Regions : Admit(r) \/ FinishAdmission(r)
  \/ \E r \in Regions : BeginEviction(r) \/ FinishEviction(r)

LEMMA DriverStepType ==
  ASSUME DriverType, DriverStep
  PROVE  DriverType' /\ UNCHANGED <<access, answers, tlb, gmmu>>
<1>1. HostPTE \in PTEs
  BY DEF HostPTE, PTEs
<1>2. ASSUME NEW r \in Regions, ServeResident(r) \/ Refuse(r)
      PROVE  DriverType' /\ UNCHANGED <<access, answers, tlb, gmmu>>
  <2>1. commands' \in Seq(UVMCommands)
    BY <1>2, Commands, SendType DEF DriverType, ServeResident, Refuse, Replay
  <2>. QED BY <1>2, <2>1 DEF DriverType, ServeResident, Refuse, gpu
<1>3. ASSUME NEW r \in Regions, MapRemote(r)
      PROVE  DriverType' /\ UNCHANGED <<access, answers, tlb, gmmu>>
  <2>1. commands' \in Seq(UVMCommands)
    BY <1>3, Commands, SendType DEF DriverType, MapRemote, Replay
  <2>. QED BY <1>3, <2>1 DEF DriverType, MapRemote, gpu, PTEs
<1>4. ASSUME NEW r \in Regions, Admit(r)
      PROVE  DriverType' /\ UNCHANGED <<access, answers, tlb, gmmu>>
  BY <1>4 DEF DriverType, Admit, gpu, PTEs
<1>5. ASSUME NEW r \in Regions, FinishAdmission(r)
      PROVE  DriverType' /\ UNCHANGED <<access, answers, tlb, gmmu>>
  <2>1. commands' \in Seq(UVMCommands)
    BY <1>5, Commands, SendType DEF DriverType, FinishAdmission, Replay
  <2>. QED BY <1>5, <2>1 DEF DriverType, FinishAdmission, gpu, PTEs
<1>6. ASSUME NEW r \in Regions, BeginEviction(r)
      PROVE  DriverType' /\ UNCHANGED <<access, answers, tlb, gmmu>>
  <2>1. commands' \in Seq(UVMCommands)
    BY <1>6, Commands, SendType DEF DriverType, BeginEviction
  <2>2. evictions' \in 0..MaxEvictions
    BY <1>6, PathAssumption DEF DriverType, BeginEviction
  <2>. QED BY <1>6, <2>1, <2>2 DEF DriverType, BeginEviction, gpu, PTEs
<1>7. ASSUME NEW r \in Regions, FinishEviction(r)
      PROVE  DriverType' /\ UNCHANGED <<access, answers, tlb, gmmu>>
  BY <1>1, <1>7 DEF DriverType, FinishEviction, gpu
<1>. QED BY <1>2, <1>3, <1>4, <1>5, <1>6, <1>7 DEF DriverStep

-----------------------------------------------------------------------------
(* The invariant.                                                          *)

LEMMA InitInv == Init => Inv
<1>. SUFFICES ASSUME Init PROVE Inv
  OBVIOUS
<1>. DEFINE first  == NewTLB({"Local", "Host"}, 0)
            second == NewTLB(Mappings, InTLBMSHRMax)
<1>1. PICK program \in Programs : access = [a \in program |-> "Idle"]
  BY DEF Init
<1>2. /\ DOMAIN tlb = TLBNames /\ \A n \in TLBNames : tlb[n] = IF n = L2 THEN second ELSE first
      /\ answers = [c \in Cores |-> <<>>] /\ gmmu = InitialGMMU
  BY DEF Init
<1>3. /\ \A n \in TLBNames : Sound(second, ReqsOf(n)) /\ Sound(first, ReqsOf(n))
      /\ \A n \in TLBNames : \A q \in ReqsOf(n) : Held(second, q) = 0 /\ Held(first, q) = 0
      /\ \A p \in Pages : /\ ~Open(second, p) /\ Returned(second, p) = 0
                          /\ ~Open(first, p) /\ Returned(first, p) = 0
  <2>1. {"Local", "Host"} \in SUBSET Mappings /\ Mappings \in SUBSET Mappings
        /\ InTLBMSHRMax \in Nat /\ 0 \in Nat
    BY PathAssumption DEF Mappings
  <2>. HIDE DEF first, second
  <2>2. ASSUME NEW n \in TLBNames
        PROVE  /\ Sound(second, ReqsOf(n)) /\ \A q \in ReqsOf(n) : q.page \in Pages => Held(second, q) = 0
               /\ \A p \in Pages : ~Open(second, p) /\ Returned(second, p) = 0
    BY <2>1, NewSound DEF second
  <2>3. ASSUME NEW n \in TLBNames
        PROVE  /\ Sound(first, ReqsOf(n)) /\ \A q \in ReqsOf(n) : q.page \in Pages => Held(first, q) = 0
               /\ \A p \in Pages : ~Open(first, p) /\ Returned(first, p) = 0
    BY <2>1, NewSound DEF first
  <2>4. \A n \in TLBNames : \A q \in ReqsOf(n) : q.page \in Pages
    BY Names
  <2>5. L2 \in TLBNames
    BY Names
  <2>. QED BY <2>2, <2>3, <2>4, <2>5
<1>. HIDE DEF first, second
<1>4. AccessType
  BY <1>1 DEF AccessType
<1>5. GPUSound
  BY <1>2, <1>3, InitialGMMUType DEF GPUSound
<1>6. DriverType
  <2>1. HostPTE \in PTEs
    BY DEF HostPTE, PTEs
  <2>2. MaxEvictions \in 0..MaxEvictions
    BY PathAssumption
  <2>. QED BY <2>1, <2>2 DEF DriverType, Init
<1>7. \A n \in TLBNames :
        /\ \A q \in ReqsOf(n) : Held(tlb[n], q) = 0
        /\ \A p \in Pages : ~Open(tlb[n], p) /\ Returned(tlb[n], p) = 0
  BY <1>2, <1>3
<1>8. EachMissOnce
  <2>1. \A p \in Pages : Walked(gmmu, p) = 0
    BY <1>2, InitialGMMUType
  <2>. QED BY <1>7, <2>1, Names, Accounts
<1>9. EachAccessOnce
  <2>1. ASSUME NEW a \in DOMAIN access
        PROVE  Held(tlb[a.core], a) + Coming(answers[a.core], a)
                 = IF access[a] \in {"Translating", "Resolved"} THEN 1 ELSE 0
    <3>1. a \in Accesses /\ a.core \in Cores /\ a.core \in TLBNames /\ a \in ReqsOf(a.core)
      BY <1>4, Names, AccessesOf
    <3>2. access[a] = "Idle" /\ answers[a.core] = <<>> /\ Held(tlb[a.core], a) = 0
      BY <1>1, <1>2, <1>7, <3>1
    <3>3. {i \in 1..Len(answers[a.core]) : answers[a.core][i].req = a} = {}
      BY <3>2
    <3>4. Coming(answers[a.core], a) = 0
      BY <3>3, FS_EmptySet DEF Coming
    <3>. QED BY <3>2, <3>4
  <2>. QED BY <2>1, Accounts
<1>. QED BY <1>4, <1>5, <1>6, <1>8, <1>9 DEF Inv, Once

(* The steps of the translators that take no answer. *)
LEMMA RouteBusyStep ==
  ASSUME AccessType, GPUSound, Once, NEW c \in Cores, RouteBusy(c)
  PROVE  AccessType' /\ GPUSound' /\ Once'
<1>. DEFINE a == Head(answers[c]).req
<1>1. access[a] = "Translating" /\ access' = [access EXCEPT ![a] = "Resolved"]
      /\ UNCHANGED <<answers, tlb, gmmu>>
  BY DEF RouteBusy
<1>2. "Resolved" \in States
  BY DEF States
<1>. HIDE DEF a
<1>. QED BY <1>1, <1>2, AccessAlone

LEMMA CompleteStep ==
  ASSUME AccessType, GPUSound, Once, NEW a, Complete(a)
  PROVE  AccessType' /\ GPUSound' /\ Once'
<1>1. access[a] \in {"Local", "Remote"} /\ access' = [access EXCEPT ![a] = "Done"]
      /\ UNCHANGED <<answers, tlb, gmmu>>
  BY DEF Complete
<1>2. "Done" \in States /\ ("Done" \in {"Translating", "Resolved"} <=> access[a] \in {"Translating", "Resolved"})
  BY <1>1 DEF States
<1>. QED BY <1>1, <1>2, AccessAlone

(* The range flush of the command processor. *)
LEMMA FlushStep ==
  ASSUME DriverType,
         \/ \E c \in Cores : Drained(c)
         \/ IssueCacheRangeFlush
         \/ CompleteCacheRangeFlush
  PROVE  DriverType' /\ UNCHANGED <<access, answers, tlb, gmmu>>
<1>1. ASSUME NEW c \in Cores, Drained(c)
      PROVE  DriverType' /\ UNCHANGED <<access, answers, tlb, gmmu>>
  BY <1>1 DEF DriverType, Drained, driver
<1>2. CASE IssueCacheRangeFlush
  <2>1. flush \in [region : Regions, issued : BOOLEAN]
    BY <1>2 DEF DriverType, IssueCacheRangeFlush
  <2>2. flush' \in [region : Regions, issued : BOOLEAN]
    BY <1>2, <2>1 DEF IssueCacheRangeFlush
  <2>. QED BY <1>2, <2>2 DEF DriverType, IssueCacheRangeFlush, driver
<1>3. CASE CompleteCacheRangeFlush
  BY <1>3 DEF DriverType, CompleteCacheRangeFlush
<1>. QED BY <1>1, <1>2, <1>3

LEMMA StepInv == Inv /\ [Next]_vars => Inv'
<1>. SUFFICES ASSUME Inv, [Next]_vars PROVE Inv'
  OBVIOUS
<1>1. AccessType /\ GPUSound /\ DriverType /\ Once /\ table \in [Regions -> PTEs]
  BY DEF Inv, DriverType
(* Steps of the GPU: what the driver has is as it was. *)
<1>2. ASSUME NEW a \in Accesses, Translate(a) PROVE Inv'
  <2>1. DriverType'
    BY <1>1, <1>2, DriverUntouched DEF Translate
  <2>. QED BY <1>1, <1>2, <2>1, TranslateStep DEF Inv
<1>3. ASSUME NEW a \in Accesses, Complete(a) PROVE Inv'
  <2>1. DriverType'
    BY <1>1, <1>3, DriverUntouched DEF Complete
  <2>. QED BY <1>1, <1>3, <2>1, CompleteStep DEF Inv
<1>4. ASSUME NEW c \in Cores, ParseTranslation(c) PROVE Inv'
  <2>1. DriverType'
    BY <1>1, <1>4, DriverUntouched DEF ParseTranslation
  <2>. QED BY <1>1, <1>4, <2>1, ParseTranslationStep DEF Inv
<1>5. ASSUME NEW c \in Cores, RouteBusy(c) PROVE Inv'
  <2>1. DriverType'
    BY <1>1, <1>5, DriverUntouched DEF RouteBusy
  <2>. QED BY <1>1, <1>5, <2>1, RouteBusyStep DEF Inv
<1>6. ASSUME NEW n \in TLBNames, Lookup(n) PROVE Inv'
  <2>1. DriverType' /\ AccessType'
    BY <1>1, <1>6, DriverUntouched DEF Lookup, AccessType
  <2>. QED BY <1>1, <1>6, <2>1, LookupStep DEF Inv
<1>7. ASSUME NEW n \in TLBNames, ParseFill(n) PROVE Inv'
  <2>1. DriverType' /\ AccessType'
    BY <1>1, <1>7, DriverUntouched DEF ParseFill, AccessType
  <2>. QED BY <1>1, <1>7, <2>1, FillTLB DEF Inv
<1>8. ASSUME NEW n \in TLBNames, RespondEntry(n) PROVE Inv'
  <2>1. DriverType' /\ AccessType'
    BY <1>1, <1>8, DriverUntouched DEF RespondEntry, AccessType
  <2>. QED BY <1>1, <1>8, <2>1, RespondStep DEF Inv
<1>9. ASSUME NEW n \in TLBNames, InvalidateTLB(n) PROVE Inv'
  <2>1. DriverType' /\ AccessType'
    BY <1>1, <1>9, DriverUntouched DEF InvalidateTLB, AccessType
  <2>. QED BY <1>1, <1>9, <2>1, InvalidateStep DEF Inv
<1>10. CASE AdmitWalk
  <2>1. DriverType' /\ AccessType'
    BY <1>1, <1>10, DriverUntouched DEF AdmitWalk, AccessType
  <2>. QED BY <1>1, <1>10, <2>1, AdmitWalkStep DEF Inv
<1>11. CASE ReplayRange
  <2>1. DriverType' /\ AccessType'
    BY <1>1, <1>11, DriverUntouched DEF ReplayRange, AccessType
  <2>. QED BY <1>1, <1>11, <2>1, ReplayRangeStep DEF Inv
<1>12. CASE StartInvalidate
  <2>1. DriverType' /\ AccessType'
    BY <1>1, <1>12, DriverUntouched DEF StartInvalidate, AccessType
  <2>. QED BY <1>1, <1>12, <2>1, StartInvalidateStep DEF Inv
<1>13. CASE CompleteInvalidate
  <2>1. DriverType' /\ AccessType'
    BY <1>1, <1>13, DriverUntouched DEF CompleteInvalidate, AccessType
  <2>. QED BY <1>1, <1>13, <2>1, CompleteInvalidateStep DEF Inv
<1>14. ASSUME NEW walk \in gmmu.walking, FinalizeWalk(walk) PROVE Inv'
  <2>1. DriverType' /\ AccessType'
    BY <1>1, <1>14, DriverUntouched DEF FinalizeWalk, AccessType
  <2>. QED BY <1>1, <1>14, <2>1, FinalizeWalkStep DEF Inv
(* Steps of the command processor and of the driver. *)
<1>15. CASE (\E c \in Cores : Drained(c)) \/ IssueCacheRangeFlush \/ CompleteCacheRangeFlush
  BY <1>1, <1>15, FlushStep, GPUUntouched DEF Inv
<1>16. CASE Dispatch
  BY <1>1, <1>16, DispatchStep DEF Inv
<1>17. CASE Receive
  BY <1>1, <1>17, ReceiveStep DEF Inv
<1>18. CASE DriverStep
  BY <1>1, <1>18, DriverStepType, GPUUntouched DEF Inv
<1>19. CASE UNCHANGED vars
  <2>1. UNCHANGED <<access, answers, tlb, gmmu, commands, flush, draining, driver>>
    BY <1>19 DEF vars, driver
  <2>. QED BY <1>1, <2>1, DriverUntouched, GPUUntouched DEF Inv
<1>. QED BY <1>2, <1>3, <1>4, <1>5, <1>6, <1>7, <1>8, <1>9, <1>10, <1>11, <1>12, <1>13,
            <1>14, <1>15, <1>16, <1>17, <1>18, <1>19 DEF Next, DriverStep

LEMMA InvHolds == Spec => []Inv
BY InitInv, StepInv, PTL DEF Spec

-----------------------------------------------------------------------------
(* The components stay well formed through every interleaving of their     *)
(* ticks with the driver; above all, what a TLB holds and what a           *)
(* translator is answered are mappings a cache can use, and never that a   *)
(* page is invalid or migrating (gmmuMiddleware.go:531).                   *)
THEOREM TypeCorrect == Spec => []TypeOK
<1>1. Inv => TypeOK
  BY InvTypes DEF Inv
<1>. QED BY <1>1, InvHolds, PTL

(* No TLB loses a way to its MSHR or lends one twice, and what its index   *)
(* finds is there (set.go, tlbMiddleware.go:600), for every number of      *)
(* ways, every MSHR, and every limit of what may be lent.                  *)
THEOREM SetsStayConsistent == Spec => []SetsConsistent
<1>1. Inv => SetsConsistent
  BY InvTypes DEF Inv
<1>. QED BY <1>1, InvHolds, PTL

(* Every miss is with one component below its TLB, and with one only       *)
(* (gmmuMiddleware.go:366, 495): a fault raised again, a range replayed    *)
(* twice, or a stale fill neither loses nor doubles it.                    *)
THEOREM EveryMissOnce == Spec => []EachMissOnce
<1>1. Inv => EachMissOnce
  BY DEF Inv, Once
<1>. QED BY <1>1, InvHolds, PTL

(* Every access in translation is with one TLB, or its answer is on the    *)
(* way: a translator never waits for an answer nobody owes it, nor gets    *)
(* two (tlbMiddleware.go, addresstranslator.go).                           *)
THEOREM EveryAccessOnce == Spec => []EachAccessOnce
<1>1. Inv => EachAccessOnce
  BY DEF Inv, Once
<1>. QED BY <1>1, InvHolds, PTL
-----------------------------------------------------------------------------
(* Who cares for a translation that waits in the replay queue.             *)

Faults(s, r) == \E m \in Elements(s) : m.kind = "Fault" /\ RegionOf[m.page] = r

(* NoFaultForgotten for one translation. *)
Cared(out, in, cmds, open, walk) ==
  LET r == RegionOf[walk.page]
  IN  \/ Faults(out, r)
      \/ r \in open
      \/ Replays(cmds, r)
      \/ Replays(IF walk.refaulted THEN Tail(in) ELSE in, r)

(* Every waiting translation is cared for; and a translation knows the     *)
(* replay that it faulted again by only while that replay is at the head   *)
(* of the port, wherever the translation is.                               *)
Stalled(g, cmds, open) ==
  /\ \A walk \in Elements(g.replayQueue) : Cared(g.uvmOut, g.uvmIn, cmds, open, walk)
  /\ \A walk \in Elements(g.replayQueue) \cup g.walking : walk.refaulted => Replaying(g)

LEMMA StalledIsProperty ==
  ASSUME NEW g, gmmu = g, Stalled(g, commands, faulted)
  PROVE  NoFaultForgotten
<1>1. \A i \in 1..Len(g.replayQueue) : g.replayQueue[i] \in Elements(g.replayQueue)
  BY DEF Elements
<1>2. \A i \in 1..Len(g.replayQueue) : Cared(g.uvmOut, g.uvmIn, commands, faulted, g.replayQueue[i])
  BY <1>1 DEF Stalled
<1>. QED BY <1>2 DEF NoFaultForgotten, Cared, Faults

(* Lists that grow at the end and shrink at the head. *)
LEMMA ReplaysAppend ==
  ASSUME NEW s \in Seq(UVMCommands), NEW c \in UVMCommands, NEW r
  PROVE  /\ Append(s, c) \in Seq(UVMCommands)
         /\ Replays(Append(s, c), r) <=> Replays(s, r) \/ (c.kind = "Replay" /\ c.region = r)
         /\ s # <<>> => Head(Append(s, c)) = Head(s) /\ Tail(Append(s, c)) = Append(Tail(s), c)
<1>1. Append(s, c) \in Seq(UVMCommands) /\ Elements(Append(s, c)) = Elements(s) \cup {c}
  BY AppendList
<1>2. s # <<>> => Head(Append(s, c)) = Head(s) /\ Tail(Append(s, c)) = Append(Tail(s), c)
  <2>. SUFFICES ASSUME s # <<>> PROVE Head(Append(s, c)) = Head(s) /\ Tail(Append(s, c)) = Append(Tail(s), c)
    OBVIOUS
  <2>. DEFINE t == Tail(s)
              u == Tail(Append(s, c))
              v == Append(t, c)
  <2>1. Len(s) \in Nat \ {0}
    OBVIOUS
  <2>2. Head(Append(s, c)) = Head(s)
    BY <2>1
  <2>3. t \in Seq(UVMCommands) /\ Len(t) = Len(s) - 1 /\ \A i \in 1..Len(s) - 1 : t[i] = s[i + 1]
    BY <2>1
  <2>4. Append(s, c) # <<>> /\ Len(Append(s, c)) = Len(s) + 1
        /\ \A i \in 1..Len(s) : Append(s, c)[i + 1] = IF i < Len(s) THEN s[i + 1] ELSE c
    BY <2>1
  <2>5. u \in Seq(UVMCommands) /\ Len(u) = Len(s)
        /\ \A i \in 1..Len(s) : u[i] = IF i < Len(s) THEN s[i + 1] ELSE c
    BY <1>1, <2>1, <2>4
  <2>. HIDE DEF t, u
  <2>6. v \in Seq(UVMCommands) /\ Len(v) = Len(s)
        /\ \A i \in 1..Len(s) : v[i] = IF i < Len(s) THEN s[i + 1] ELSE c
    BY <2>1, <2>3
  <2>. HIDE DEF v
  <2>7. u = v
    BY <2>5, <2>6
  <2>. QED BY <2>2, <2>7 DEF t, u, v
<1>. QED BY <1>1, <1>2 DEF Replays

LEMMA ElementsTail ==
  ASSUME NEW T, NEW s \in Seq(T), s # <<>>
  PROVE  Head(s) \in T /\ Tail(s) \in Seq(T) /\ Elements(s) = {Head(s)} \cup Elements(Tail(s))
<1>1. Head(s) \in T /\ Tail(s) \in Seq(T) /\ <<Head(s)>> \in Seq(T) /\ s = <<Head(s)>> \o Tail(s)
  OBVIOUS
<1>2. Elements(<<Head(s)>> \o Tail(s)) = Elements(<<Head(s)>>) \cup Elements(Tail(s))
  BY <1>1, ElementsConcat, ZenonT(60)
<1>3. Elements(<<Head(s)>>) = {Head(s)}
  BY DEF Elements
<1>. QED BY <1>1, <1>2, <1>3

LEMMA ElementsRemove ==
  ASSUME NEW T, NEW s \in Seq(T), NEW i \in 1..Len(s)
  PROVE  Elements(RemoveAt(s, i)) \subseteq Elements(s)
<1>. DEFINE u == SubSeq(s, 1, i - 1) \o SubSeq(s, i + 1, Len(s))
<1>1. ASSUME NEW x, x \in Elements(u) PROVE x \in Elements(s)
  <2>1. u \in Seq(T) /\ s[i] \in T /\ Count(u, {x}) = Count(s, {x}) - (IF s[i] \in {x} THEN 1 ELSE 0)
    BY CountRemove
  <2>. HIDE DEF u
  <2>2. Count(u, {x}) \in Nat /\ (Count(u, {x}) = 0 <=> Elements(u) \cap {x} = {})
    BY <2>1, CountMarks
  <2>3. Count(s, {x}) \in Nat /\ (Count(s, {x}) = 0 <=> Elements(s) \cap {x} = {})
    BY CountMarks
  <2>4. Count(u, {x}) # 0
    BY <1>1, <2>2
  <2>5. Count(s, {x}) # 0
    BY <2>1, <2>2, <2>3, <2>4
  <2>. QED BY <2>3, <2>5
<1>. QED BY <1>1 DEF RemoveAt

LEMMA ReplaysTail ==
  ASSUME NEW s \in Seq(UVMCommands), s # <<>>, NEW r
  PROVE  /\ Head(s) \in UVMCommands /\ Tail(s) \in Seq(UVMCommands)
         /\ Replays(s, r) <=> (Head(s).kind = "Replay" /\ Head(s).region = r) \/ Replays(Tail(s), r)
<1>1. Head(s) \in UVMCommands /\ Tail(s) \in Seq(UVMCommands)
      /\ Elements(s) = {Head(s)} \cup Elements(Tail(s))
  BY ElementsTail
<1>. QED BY <1>1 DEF Replays

LEMMA FaultsAppend ==
  ASSUME NEW s \in Seq(UVMMessages), NEW m \in UVMMessages, NEW r
  PROVE  Faults(Append(s, m), r) <=> Faults(s, r) \/ (m.kind = "Fault" /\ RegionOf[m.page] = r)
<1>1. Elements(Append(s, m)) = Elements(s) \cup {m}
  BY AppendList
<1>. QED BY <1>1 DEF Faults

LEMMA FaultsTail ==
  ASSUME NEW s \in Seq(UVMMessages), s # <<>>, NEW r
  PROVE  Faults(s, r) <=> (Head(s).kind = "Fault" /\ RegionOf[Head(s).page] = r) \/ Faults(Tail(s), r)
<1>1. Elements(s) = {Head(s)} \cup Elements(Tail(s))
  BY ElementsTail
<1>. QED BY <1>1 DEF Faults

-----------------------------------------------------------------------------
(* The steps of the GMMU.                                                  *)

(* A translation that joins or leaves the walker, or leaves the queue. *)
LEMMA StalledSubset ==
  ASSUME NEW g, NEW h, NEW cmds, NEW open, Stalled(g, cmds, open),
         h.uvmIn = g.uvmIn, h.uvmOut = g.uvmOut,
         Elements(h.replayQueue) \subseteq Elements(g.replayQueue),
         \A walk \in h.walking : walk \in g.walking \/ (walk.refaulted => Replaying(h))
  PROVE  Stalled(h, cmds, open)
<1>1. Replaying(h) <=> Replaying(g)
  BY DEF Replaying
<1>. QED BY <1>1 DEF Stalled

(* A walk ends with a fault. *)
LEMMA StalledFault ==
  ASSUME NEW g \in GMMUs, NEW walk \in g.walking, NEW cmds, NEW open, Stalled(g, cmds, open)
  PROVE  Stalled(SendUVMFault(g, walk), cmds, open)
<1>. DEFINE h == SendUVMFault(g, walk)
            fault == [kind |-> "Fault", page |-> walk.page]
<1>1. h = [g EXCEPT !.walking = g.walking \ {walk}, !.replayQueue = Append(g.replayQueue, walk),
                    !.uvmOut = Append(g.uvmOut, fault)]
  BY DEF SendUVMFault
<1>2. walk \in Walks /\ walk.page \in Pages /\ g.replayQueue \in Seq(Walks)
      /\ g.uvmOut \in Seq(UVMMessages)
  BY GMMUFields DEF Walks
<1>3. fault \in UVMMessages /\ fault.kind = "Fault" /\ fault.page = walk.page
  BY <1>2 DEF UVMMessages
<1>. HIDE DEF fault, h
<1>4. h.walking = g.walking \ {walk} /\ h.replayQueue = Append(g.replayQueue, walk)
      /\ h.uvmOut = Append(g.uvmOut, fault) /\ h.uvmIn = g.uvmIn
  BY <1>1 DEF GMMUs
<1>5. Elements(h.replayQueue) = Elements(g.replayQueue) \cup {walk}
  BY <1>2, <1>4, AppendList
<1>6. \A r : Faults(h.uvmOut, r) <=> Faults(g.uvmOut, r) \/ RegionOf[walk.page] = r
  BY <1>2, <1>3, <1>4, FaultsAppend
<1>7. Replaying(h) <=> Replaying(g)
  BY <1>4 DEF Replaying
<1>8. ASSUME NEW w \in Elements(h.replayQueue) PROVE Cared(h.uvmOut, h.uvmIn, cmds, open, w)
  <2>1. CASE w = walk
    BY <1>6, <2>1 DEF Cared
  <2>2. CASE w \in Elements(g.replayQueue)
    <3>1. Cared(g.uvmOut, g.uvmIn, cmds, open, w)
      BY <2>2 DEF Stalled
    <3>. QED BY <1>4, <1>6, <3>1 DEF Cared
  <2>. QED BY <1>5, <2>1, <2>2
<1>9. \A w \in Elements(h.replayQueue) \cup h.walking : w.refaulted => Replaying(h)
  BY <1>4, <1>5, <1>7 DEF Stalled
<1>. QED BY <1>8, <1>9 DEF Stalled, h

(* A translation faults again, with a message or through the walker. *)
LEMMA StalledRefault ==
  ASSUME NEW g \in GMMUs, NEW i \in 1..Len(g.replayQueue), NEW cmds, NEW open,
         Stalled(g, cmds, open), Replaying(g)
  PROVE  Stalled(Refault(g, i), cmds, open)
<1>. DEFINE walk == [g.replayQueue[i] EXCEPT !.refaulted = TRUE]
            g0 == Unpark(g, i)
            g1 == [g0 EXCEPT !.walking = g0.walking \cup {walk}]
<1>1. Refault(g, i) = IF Full(g.uvmOut) THEN g1 ELSE SendUVMFault(g1, walk)
  BY DEF Refault
<1>2. g0 \in GMMUs /\ g.replayQueue[i] \in Walks /\ g0.walking = g.walking
  BY UnparkSound
<1>3. walk \in Walks
  BY <1>2 DEF Walks
<1>4. g0.replayQueue = RemoveAt(g.replayQueue, i) /\ g0.uvmIn = g.uvmIn /\ g0.uvmOut = g.uvmOut
  BY DEF Unpark, GMMUs
<1>5. Elements(g0.replayQueue) \subseteq Elements(g.replayQueue)
  BY <1>4, GMMUFields, ElementsRemove
<1>. HIDE DEF g0, walk
<1>6. g1 \in GMMUs /\ g1.walking = g.walking \cup {walk} /\ g1.replayQueue = g0.replayQueue
      /\ g1.uvmIn = g.uvmIn /\ g1.uvmOut = g.uvmOut
  BY <1>2, <1>3, <1>4 DEF GMMUs
<1>. HIDE DEF g1
<1>7. Replaying(g1)
  BY <1>6 DEF Replaying
<1>8. Stalled(g1, cmds, open)
  BY <1>5, <1>6, <1>7, StalledSubset
<1>9. Stalled(SendUVMFault(g1, walk), cmds, open)
  BY <1>6, <1>8, StalledFault
<1>. QED BY <1>1, <1>8, <1>9

(* A replay has released all it names: who still waits for its region has  *)
(* faulted again by it, and whoever waits for another region is cared for  *)
(* by something else.                                                      *)
LEMMA StalledConsume ==
  ASSUME NEW g \in GMMUs, NEW cmds, NEW open, Stalled(g, cmds, open),
         Replaying(g), FirstNamed(g) = 0
  PROVE  Stalled(ConsumeReplay(g), cmds, open)
<1>. DEFINE h == ConsumeReplay(g)
            forget(walk) == [walk EXCEPT !.refaulted = FALSE]
            walking == {forget(walk) : walk \in g.walking}
            s == g.replayQueue
            queue == [i \in 1..Len(s) |-> forget(s[i])]
            r0 == Head(g.uvmIn).region
            named == {i \in 1..Len(s) : RegionOf[s[i].page] = r0 /\ ~s[i].refaulted}
<1>1. h = [g EXCEPT !.uvmIn = Tail(g.uvmIn), !.walking = walking, !.replayQueue = queue]
  BY DEF ConsumeReplay
<1>2. g.walking \in SUBSET Walks /\ s \in Seq(Walks) /\ Len(s) \in Nat /\ g.uvmIn # <<>>
      /\ g.uvmIn \in Seq(UVMCommands)
  BY GMMUFields DEF Replaying
<1>3. \A walk \in Walks : /\ forget(walk) \in Walks /\ forget(walk).page = walk.page
                          /\ ~forget(walk).refaulted
  BY DEF Walks
<1>4. named = {}
  <2>1. FirstNamed(g) = IF named = {} THEN 0 ELSE CHOOSE i \in named : \A j \in named : i <= j
    BY DEF FirstNamed
  <2>2. IsFiniteSet(named) /\ named \in SUBSET Int
    <3>1. IsFiniteSet(1..Len(s))
      <4>1. Len(s) \in Nat
        BY <1>2
      <4>. QED BY <4>1, FS_Interval
    <3>3. named \in SUBSET (1..Len(s))
      OBVIOUS
    <3>2. 1..Len(s) \in SUBSET Int
      BY <1>2
    <3>. HIDE DEF named
    <3>. QED BY <3>1, <3>2, <3>3, FS_Subset
  <2>3. 0 \notin named
    BY <1>2
  <2>. HIDE DEF named
  <2>4. ASSUME named # {} PROVE FALSE
    <3>1. \E i \in named : \A j \in named : i <= j
      BY <2>2, <2>4, LeastElement
    <3>2. FirstNamed(g) \in named
      BY <2>1, <2>4, <3>1
    <3>. QED BY <2>3, <3>2
  <2>. QED BY <2>4
<1>. HIDE DEF forget
<1>5. Len(queue) = Len(s) /\ \A i \in 1..Len(s) : queue[i] = forget(s[i])
  BY <1>2, <1>3
<1>6. \A w \in Elements(queue) : \E i \in 1..Len(s) : w = forget(s[i])
  BY <1>5 DEF Elements
<1>. HIDE DEF h, walking, queue
<1>7. h.uvmIn = Tail(g.uvmIn) /\ h.walking = walking /\ h.replayQueue = queue /\ h.uvmOut = g.uvmOut
  BY <1>1 DEF GMMUs
<1>8. \A r : Replays(g.uvmIn, r) => r = r0 \/ Replays(Tail(g.uvmIn), r)
  BY <1>2, ReplaysTail
<1>9. ASSUME NEW w \in Elements(h.replayQueue) PROVE Cared(h.uvmOut, h.uvmIn, cmds, open, w) /\ ~w.refaulted
  <2>1. PICK i \in 1..Len(s) : w = forget(s[i])
    BY <1>6, <1>7
  <2>2. s[i] \in Walks /\ s[i] \in Elements(s)
    BY <1>2 DEF Elements
  <2>3. w.page = s[i].page /\ ~w.refaulted
    BY <1>3, <2>1, <2>2
  <2>4. Cared(g.uvmOut, g.uvmIn, cmds, open, s[i])
    BY <2>2 DEF Stalled
  <2>5. RegionOf[s[i].page] = r0 => s[i].refaulted
    BY <1>4
  <2>. HIDE DEF s, r0
  <2>6. \/ Faults(g.uvmOut, RegionOf[w.page]) \/ RegionOf[w.page] \in open
        \/ Replays(cmds, RegionOf[w.page]) \/ Replays(Tail(g.uvmIn), RegionOf[w.page])
    BY <1>8, <2>3, <2>4, <2>5 DEF Cared
  <2>. QED BY <1>7, <2>3, <2>6 DEF Cared
<1>10. \A w \in h.walking : ~w.refaulted
  BY <1>2, <1>3, <1>7 DEF walking
<1>. QED BY <1>9, <1>10 DEF Stalled, h

(* An invalidation is taken from the head of the port. *)
LEMMA StalledInvalidate ==
  ASSUME NEW g \in GMMUs, NEW cmds, NEW open, Stalled(g, cmds, open), CanStartInvalidate(g)
  PROVE  Stalled(StartTLBInvalidate(g), cmds, open)
<1>. DEFINE h == StartTLBInvalidate(g)
<1>1. h.uvmIn = Tail(g.uvmIn) /\ h.walking = g.walking /\ h.replayQueue = g.replayQueue
      /\ h.uvmOut = g.uvmOut
  BY DEF StartTLBInvalidate, GMMUs
<1>2. g.uvmIn # <<>> /\ Head(g.uvmIn).kind = "Invalidate" /\ ~Replaying(g)
  BY DEF CanStartInvalidate, Replaying
<1>. HIDE DEF h
<1>3. \A r : Replays(g.uvmIn, r) => Replays(Tail(g.uvmIn), r)
  BY <1>2, GMMUFields, ReplaysTail
<1>4. \A w \in Elements(g.replayQueue) \cup g.walking : ~w.refaulted
  BY <1>2 DEF Stalled
<1>5. ASSUME NEW w \in Elements(h.replayQueue) PROVE Cared(h.uvmOut, h.uvmIn, cmds, open, w)
  <2>1. Cared(g.uvmOut, g.uvmIn, cmds, open, w) /\ ~w.refaulted
    BY <1>1, <1>4 DEF Stalled
  <2>. QED BY <1>1, <1>3, <2>1 DEF Cared
<1>. QED BY <1>1, <1>4, <1>5 DEF Stalled, h

-----------------------------------------------------------------------------
(* The steps of the command processor and of the driver.                   *)

(* What the GPU has is as it was: a step of the driver that neither closes *)
(* a fault nor takes a message.                                            *)
LEMMA StalledAlone ==
  ASSUME NEW g, NEW cmds, NEW more, NEW open, NEW wider, Stalled(g, cmds, open),
         \A r : Replays(cmds, r) => Replays(more, r),
         \A r : r \in open => r \in wider \/ Replays(more, r)
  PROVE  Stalled(g, more, wider)
BY DEF Stalled, Cared

(* The GMMU of a step that leaves what waits for a fault alone. *)
SameWaiting(g, h) ==
  h.uvmIn = g.uvmIn /\ h.uvmOut = g.uvmOut /\ h.walking = g.walking /\ h.replayQueue = g.replayQueue

LEMMA StalledSame ==
  ASSUME NEW g, NEW h, NEW cmds, NEW open, Stalled(g, cmds, open), SameWaiting(g, h)
  PROVE  Stalled(h, cmds, open)
BY StalledSubset DEF SameWaiting

(* A command goes from the driver's list to the port of the GMMU. *)
LEMMA StalledDispatch ==
  ASSUME NEW g \in GMMUs, NEW cmds \in Seq(UVMCommands), cmds # <<>>, NEW open, Stalled(g, cmds, open)
  PROVE  LET h == [g EXCEPT !.uvmIn = Append(@, Head(cmds))]
         IN  h \in GMMUs /\ Stalled(h, Tail(cmds), open)
<1>. DEFINE c == Head(cmds)
            in == Append(g.uvmIn, c)
            h == [g EXCEPT !.uvmIn = in]
<1>1. c \in UVMCommands /\ \A r : Replays(cmds, r) <=>
                                    (c.kind = "Replay" /\ c.region = r) \/ Replays(Tail(cmds), r)
  BY ReplaysTail
<1>. HIDE DEF c
<1>2. g.uvmIn \in Seq(UVMCommands)
  BY GMMUFields
<1>3. /\ in \in Seq(UVMCommands)
      /\ \A r : Replays(in, r) <=> Replays(g.uvmIn, r) \/ (c.kind = "Replay" /\ c.region = r)
      /\ g.uvmIn # <<>> => Head(in) = Head(g.uvmIn) /\ Tail(in) = Append(Tail(g.uvmIn), c)
  BY <1>1, GMMUFields, ReplaysAppend
<1>4. g.uvmIn # <<>> =>
        \A r : Replays(Tail(in), r) <=> Replays(Tail(g.uvmIn), r) \/ (c.kind = "Replay" /\ c.region = r)
  <2>. SUFFICES ASSUME g.uvmIn # <<>>, NEW r
                PROVE  Replays(Tail(in), r) <=> Replays(Tail(g.uvmIn), r) \/ (c.kind = "Replay" /\ c.region = r)
    OBVIOUS
  <2>1. Tail(g.uvmIn) \in Seq(UVMCommands)
    BY <1>2, ReplaysTail
  <2>2. Replays(Append(Tail(g.uvmIn), c), r)
          <=> Replays(Tail(g.uvmIn), r) \/ (c.kind = "Replay" /\ c.region = r)
    BY <1>1, <2>1, ReplaysAppend
  <2>3. Tail(in) = Append(Tail(g.uvmIn), c)
    BY <1>3
  <2>. QED BY <2>2, <2>3
<1>5. in # <<>>
  BY <1>1, <1>2, AppendList
<1>. HIDE DEF in
<1>6. h \in GMMUs /\ h.uvmIn = in /\ h.uvmOut = g.uvmOut /\ h.walking = g.walking
      /\ h.replayQueue = g.replayQueue
  BY <1>3 DEF GMMUs
<1>. HIDE DEF h
<1>7. Replaying(g) => Replaying(h) /\ g.uvmIn # <<>>
  BY <1>3, <1>5, <1>6 DEF Replaying
<1>8. ASSUME NEW w \in Elements(h.replayQueue) PROVE Cared(h.uvmOut, h.uvmIn, Tail(cmds), open, w)
  <2>1. Cared(g.uvmOut, g.uvmIn, cmds, open, w) /\ (w.refaulted => g.uvmIn # <<>>)
    BY <1>6, <1>7 DEF Stalled
  <2>2. CASE w.refaulted
    BY <1>1, <1>4, <1>6, <2>1, <2>2 DEF Cared
  <2>3. CASE ~w.refaulted
    BY <1>1, <1>3, <1>6, <2>1, <2>3 DEF Cared
  <2>. QED BY <2>2, <2>3
<1>9. \A w \in Elements(h.replayQueue) \cup h.walking : w.refaulted => Replaying(h)
  BY <1>6, <1>7 DEF Stalled
<1>. QED BY <1>6, <1>8, <1>9 DEF Stalled, h, in, c

(* A message of the GMMU is received. *)
LEMMA StalledReceive ==
  ASSUME NEW g \in GMMUs, g.uvmOut # <<>>, NEW cmds, NEW more, NEW open, NEW wider,
         Stalled(g, cmds, open),
         \A r : Replays(cmds, r) => Replays(more, r),
         \A r : r \in open => r \in wider \/ Replays(more, r),
         Head(g.uvmOut).kind = "Fault" => RegionOf[Head(g.uvmOut).page] \in wider
  PROVE  Stalled([g EXCEPT !.uvmOut = Tail(@)], more, wider)
<1>. DEFINE h == [g EXCEPT !.uvmOut = Tail(g.uvmOut)]
<1>1. \A r : Faults(g.uvmOut, r) => r \in wider \/ Faults(Tail(g.uvmOut), r)
  BY GMMUFields, FaultsTail
<1>2. h.uvmOut = Tail(g.uvmOut) /\ h.uvmIn = g.uvmIn /\ h.walking = g.walking
      /\ h.replayQueue = g.replayQueue
  BY DEF GMMUs
<1>. HIDE DEF h
<1>3. Replaying(h) <=> Replaying(g)
  BY <1>2 DEF Replaying
<1>4. Stalled(h, more, wider)
  BY <1>1, <1>2, <1>3 DEF Stalled, Cared
<1>. QED BY <1>4 DEF h

(* What the driver sends. *)
LEMMA SendReplays ==
  ASSUME commands \in Seq(UVMCommands), NEW c \in UVMCommands, Send(c)
  PROVE  \A r : Replays(commands', r) <=> Replays(commands, r) \/ (c.kind = "Replay" /\ c.region = r)
BY ReplaysAppend DEF Send

LEMMA ReplayReplays ==
  ASSUME commands \in Seq(UVMCommands), NEW s \in Regions, NEW refused \in BOOLEAN, Replay(s, refused)
  PROVE  \A r : Replays(commands', r) <=> Replays(commands, r) \/ r = s
<1>. DEFINE c == [kind |-> "Replay", region |-> s, refused |-> refused]
<1>1. c \in UVMCommands /\ c.kind = "Replay" /\ c.region = s /\ Send(c)
  BY Commands DEF Replay
<1>. HIDE DEF c
<1>. QED BY <1>1, SendReplays

Cares == Stalled(gmmu, commands, faulted)

LEMMA ReceiveCares ==
  ASSUME Inv, Cares, Receive
  PROVE  Cares'
<1>. DEFINE msg == Head(gmmu.uvmOut)
<1>1. gmmu \in GMMUs /\ commands \in Seq(UVMCommands) /\ gmmu.uvmOut # <<>>
      /\ gmmu' = [gmmu EXCEPT !.uvmOut = Tail(@)]
  BY DEF Inv, GPUSound, DriverType, Receive
<1>2. msg \in UVMMessages
  BY <1>1, GMMUFields, ElementsTail
<1>3. (msg.kind = "Fault" => msg.page \in Pages) /\ (msg.kind # "Fault" => msg.region \in Regions)
  BY <1>2 DEF UVMMessages
<1>4. CASE msg.kind = "Fault"
  <2>1. commands' = commands /\ faulted' = faulted \cup {RegionOf[msg.page]}
    BY <1>4 DEF Receive
  <2>. QED BY <1>1, <1>4, <2>1, StalledReceive DEF Cares
<1>5. CASE msg.kind # "Fault" /\ service[msg.region] = "Invalidating"
  <2>1. faulted' = faulted /\ Send([kind |-> "Flush", region |-> msg.region])
    BY <1>5 DEF Receive
  <2>2. \A r : Replays(commands, r) => Replays(commands', r)
    BY <1>1, <1>3, <1>5, <2>1, Commands, SendReplays
  <2>. QED BY <1>1, <1>5, <2>1, <2>2, StalledReceive DEF Cares
<1>6. CASE msg.kind # "Fault" /\ service[msg.region] # "Invalidating"
  <2>1. faulted' = faulted \ {msg.region} /\ Replay(msg.region, FALSE)
    BY <1>6 DEF Receive
  <2>2. \A r : Replays(commands', r) <=> Replays(commands, r) \/ r = msg.region
    BY <1>1, <1>3, <1>6, <2>1, ReplayReplays
  <2>. QED BY <1>1, <1>6, <2>1, <2>2, StalledReceive DEF Cares
<1>. QED BY <1>4, <1>5, <1>6

(* A fault is closed by a replay of its region, however it is served. *)
LEMMA DriverCares ==
  ASSUME Inv, Cares, DriverStep
  PROVE  Cares'
<1>1. commands \in Seq(UVMCommands)
  BY DEF Inv, DriverType
<1>2. ASSUME NEW r \in Regions, NEW refused \in BOOLEAN, Replay(r, refused),
             faulted' = faulted \ {r}, gmmu' = gmmu
      PROVE  Cares'
  <2>1. \A s : Replays(commands', s) <=> Replays(commands, s) \/ s = r
    BY <1>1, <1>2, ReplayReplays
  <2>. QED BY <1>2, <2>1, StalledAlone DEF Cares
<1>3. ASSUME NEW c \in UVMCommands, Send(c), faulted' = faulted, gmmu' = gmmu
      PROVE  Cares'
  <2>1. \A s : Replays(commands, s) => Replays(commands', s)
    BY <1>1, <1>3, SendReplays
  <2>. QED BY <1>3, <2>1, StalledAlone DEF Cares
<1>4. ASSUME NEW r \in Regions, ServeResident(r) \/ MapRemote(r)
      PROVE  Cares'
  BY <1>2, <1>4 DEF ServeResident, MapRemote, gpu
<1>5. ASSUME NEW r \in Regions, Refuse(r)
      PROVE  Cares'
  BY <1>2, <1>5 DEF Refuse, gpu
<1>6. ASSUME NEW r \in Regions, Admit(r) \/ FinishEviction(r)
      PROVE  Cares'
  BY <1>6 DEF Admit, FinishEviction, gpu, Cares
<1>7. ASSUME NEW r \in Regions, FinishAdmission(r)
      PROVE  Cares'
  <2>1. CASE service[r] = "Replacing"
    BY <1>3, <1>7, <2>1, Commands DEF FinishAdmission, gpu
  <2>2. CASE service[r] # "Replacing"
    BY <1>2, <1>7, <2>2 DEF FinishAdmission, gpu
  <2>. QED BY <2>1, <2>2
<1>8. ASSUME NEW r \in Regions, BeginEviction(r)
      PROVE  Cares'
  BY <1>3, <1>8, Commands DEF BeginEviction, gpu
<1>. QED BY <1>4, <1>5, <1>6, <1>7, <1>8 DEF DriverStep

LEMMA DispatchCares ==
  ASSUME Inv, Cares, Dispatch
  PROVE  Cares'
<1>1. gmmu \in GMMUs /\ commands \in Seq(UVMCommands) /\ commands # <<>>
      /\ commands' = Tail(commands) /\ faulted' = faulted
  BY DEF Inv, GPUSound, DriverType, Dispatch, driver
<1>2. CASE Head(commands).kind = "Flush"
  <2>1. gmmu' = gmmu
    BY <1>2 DEF Dispatch
  <2>2. \A r : Replays(commands, r) => Replays(commands', r)
    BY <1>1, <1>2, ReplaysTail
  <2>. QED BY <1>1, <2>1, <2>2, StalledAlone DEF Cares
<1>3. CASE Head(commands).kind # "Flush"
  <2>1. gmmu' = [gmmu EXCEPT !.uvmIn = Append(@, Head(commands))]
    BY <1>3 DEF Dispatch
  <2>. QED BY <1>1, <2>1, StalledDispatch DEF Cares
<1>. QED BY <1>2, <1>3

LEMMA GMMUCares ==
  ASSUME Inv, Cares,
         \/ AdmitWalk \/ ReplayRange \/ StartInvalidate \/ CompleteInvalidate
         \/ \E walk \in gmmu.walking : FinalizeWalk(walk)
         \/ \E name \in TLBNames : InvalidateTLB(name)
  PROVE  Cares'
<1>1. gmmu \in GMMUs /\ gmmu.uvmOut \in Seq(UVMMessages)
  BY GMMUFields DEF Inv, GPUSound
<1>2. CASE AdmitWalk
  <2>1. gmmu' = StartWalk(gmmu) /\ UNCHANGED <<commands, faulted>>
    BY <1>2 DEF AdmitWalk, driver
  <2>2. /\ gmmu'.uvmIn = gmmu.uvmIn /\ gmmu'.uvmOut = gmmu.uvmOut /\ gmmu'.replayQueue = gmmu.replayQueue
        /\ \A walk \in gmmu'.walking : walk \in gmmu.walking \/ ~walk.refaulted
    BY <1>1, <2>1 DEF StartWalk, GMMUs
  <2>. QED BY <2>1, <2>2, StalledSubset DEF Cares
<1>3. CASE ReplayRange
  <2>. DEFINE i == FirstNamed(gmmu)
  <2>1. Replaying(gmmu) /\ UNCHANGED <<commands, faulted>>
    BY <1>3 DEF ReplayRange, driver
  <2>2. i = 0 \/ i \in 1..Len(gmmu.replayQueue)
    BY <1>1, FirstNamedPosition
  <2>3. /\ i = 0 => gmmu' = ConsumeReplay(gmmu)
        /\ i # 0 => gmmu' = Refault(gmmu, i) \/ gmmu' = Unpark(gmmu, i)
    BY <1>3 DEF ReplayRange
  <2>4. CASE i = 0
    BY <1>1, <2>1, <2>3, <2>4, StalledConsume DEF Cares
  <2>. HIDE DEF i
  <2>5. CASE i \in 1..Len(gmmu.replayQueue) /\ gmmu' = Refault(gmmu, i)
    BY <1>1, <2>1, <2>5, StalledRefault DEF Cares
  <2>6. CASE i \in 1..Len(gmmu.replayQueue) /\ gmmu' = Unpark(gmmu, i)
    <3>1. /\ gmmu'.uvmIn = gmmu.uvmIn /\ gmmu'.uvmOut = gmmu.uvmOut /\ gmmu'.walking = gmmu.walking
          /\ gmmu'.replayQueue = RemoveAt(gmmu.replayQueue, i)
      BY <1>1, <2>6 DEF Unpark, GMMUs
    <3>2. Elements(gmmu'.replayQueue) \subseteq Elements(gmmu.replayQueue)
      BY <1>1, <2>6, <3>1, GMMUFields, ElementsRemove
    <3>. QED BY <2>1, <3>1, <3>2, StalledSubset DEF Cares
  <2>. QED BY <2>2, <2>3, <2>4, <2>5, <2>6 DEF i
<1>4. CASE StartInvalidate
  BY <1>1, <1>4, StalledInvalidate DEF Cares, StartInvalidate, driver
<1>5. CASE CompleteInvalidate
  <2>. DEFINE msg == [kind |-> "Invalidated", region |-> gmmu.invalidating]
  <2>1. gmmu' = CompleteTLBInvalidate(gmmu) /\ CanCompleteInvalidate(gmmu) /\ UNCHANGED <<commands, faulted>>
    BY <1>5 DEF CompleteInvalidate, driver
  <2>2. msg \in UVMMessages /\ msg.kind # "Fault"
    BY <1>1, <2>1, GMMUFields DEF CanCompleteInvalidate, UVMMessages
  <2>3. /\ gmmu'.uvmIn = gmmu.uvmIn /\ gmmu'.uvmOut = Append(gmmu.uvmOut, msg)
        /\ gmmu'.walking = gmmu.walking /\ gmmu'.replayQueue = gmmu.replayQueue
    BY <1>1, <2>1 DEF CompleteTLBInvalidate, GMMUs
  <2>. HIDE DEF msg
  <2>4. \A r : Faults(gmmu'.uvmOut, r) <=> Faults(gmmu.uvmOut, r)
    BY <1>1, <2>2, <2>3, FaultsAppend
  <2>5. Replaying(gmmu') <=> Replaying(gmmu)
    BY <2>3 DEF Replaying
  <2>6. Stalled(gmmu', commands, faulted)
    BY <2>3, <2>4, <2>5 DEF Cares, Stalled, Cared
  <2>. QED BY <2>1, <2>6 DEF Cares
<1>6. ASSUME NEW walk \in gmmu.walking, FinalizeWalk(walk)
      PROVE  Cares'
  <2>1. UNCHANGED <<commands, faulted>>
        /\ (gmmu' = SendUVMFault(gmmu, walk) \/ gmmu' = EndWalk(gmmu, walk))
    BY <1>6 DEF FinalizeWalk, driver
  <2>2. CASE gmmu' = SendUVMFault(gmmu, walk)
    BY <1>1, <2>1, <2>2, StalledFault DEF Cares
  <2>3. CASE gmmu' = EndWalk(gmmu, walk)
    <3>1. /\ gmmu'.uvmIn = gmmu.uvmIn /\ gmmu'.uvmOut = gmmu.uvmOut /\ gmmu'.replayQueue = gmmu.replayQueue
          /\ gmmu'.walking \subseteq gmmu.walking
      BY <1>1, <2>3 DEF EndWalk, GMMUs
    <3>. QED BY <2>1, <3>1, StalledSubset DEF Cares
  <2>. QED BY <2>1, <2>2, <2>3
<1>7. ASSUME NEW name \in TLBNames, InvalidateTLB(name)
      PROVE  Cares'
  <2>1. UNCHANGED <<commands, faulted>> /\ SameWaiting(gmmu, gmmu')
    BY <1>1, <1>7 DEF InvalidateTLB, driver, SameWaiting, CollectAck, GMMUs
  <2>. QED BY <2>1, StalledSame DEF Cares
<1>. QED BY <1>2, <1>3, <1>4, <1>5, <1>6, <1>7

(* The translators and the TLBs reach the GMMU by what it is asked. *)
LEMMA TLBCares ==
  ASSUME Inv, Cares,
         \/ \E a \in Accesses : Translate(a) \/ Complete(a)
         \/ \E c \in Cores : ParseTranslation(c) \/ RouteBusy(c) \/ Drained(c)
         \/ \E n \in TLBNames : Lookup(n) \/ ParseFill(n) \/ RespondEntry(n)
         \/ IssueCacheRangeFlush \/ CompleteCacheRangeFlush
         \/ UNCHANGED vars
  PROVE  Cares'
<1>1. gmmu \in GMMUs
  BY DEF Inv, GPUSound
<1>2. ASSUME UNCHANGED <<gmmu, commands, faulted>>
      PROVE  Cares'
  BY <1>2 DEF Cares
<1>3. ASSUME NEW a \in Accesses, Translate(a) \/ Complete(a)
      PROVE  Cares'
  BY <1>2, <1>3 DEF Translate, Complete, driver
<1>4. ASSUME NEW c \in Cores, ParseTranslation(c) \/ RouteBusy(c) \/ Drained(c)
      PROVE  Cares'
  BY <1>2, <1>4 DEF ParseTranslation, RouteBusy, Drained, driver
<1>5. ASSUME NEW n \in TLBNames, Lookup(n)
      PROVE  Cares'
  <2>1. UNCHANGED <<commands, faulted>>
    BY <1>5 DEF Lookup, driver
  <2>2. SameWaiting(gmmu, gmmu')
    BY <1>1, <1>5 DEF Lookup, Ask, SameWaiting, GMMUs
  <2>. QED BY <2>1, <2>2, StalledSame DEF Cares
<1>6. ASSUME NEW n \in TLBNames, ParseFill(n) \/ RespondEntry(n)
      PROVE  Cares'
  BY <1>2, <1>6 DEF ParseFill, RespondEntry, driver
<1>7. CASE IssueCacheRangeFlush \/ CompleteCacheRangeFlush
  BY <1>2, <1>7 DEF IssueCacheRangeFlush, CompleteCacheRangeFlush, driver
<1>8. CASE UNCHANGED vars
  BY <1>2, <1>8 DEF vars
<1>. QED BY <1>3, <1>4, <1>5, <1>6, <1>7, <1>8

LEMMA InitCares == Init => Cares
<1>1. Elements(<<>>) = {}
  BY DEF Elements
<1>. QED BY <1>1 DEF Init, InitialGMMU, Cares, Stalled

LEMMA CaresAlways == Spec => [](Inv /\ Cares)
<1>1. Init => Inv /\ Cares
  BY InitInv, InitCares
<1>2. Inv /\ Cares /\ [Next]_vars => (Inv /\ Cares)'
  <2>. SUFFICES ASSUME Inv, Cares, [Next]_vars PROVE Inv' /\ Cares'
    OBVIOUS
  <2>1. Inv'
    BY StepInv
  <2>2. Cares'
    BY GMMUCares, TLBCares, DispatchCares, ReceiveCares, DriverCares DEF Next, DriverStep
  <2>. QED BY <2>1, <2>2
<1>. QED BY <1>1, <1>2, PTL DEF Spec

(* Whoever waits in the replay queue has a fault on the way or open, or a  *)
(* replay of its region is on the way that will release it                 *)
(* (gmmuMiddleware.go:366, 457), whatever the driver does meanwhile with   *)
(* the region, and however many translations share its answer.             *)
THEOREM StalledIsCaredFor == Spec => []NoFaultForgotten
<1>1. Cares => NoFaultForgotten
  BY StalledIsProperty DEF Cares
<1>. QED BY <1>1, CaresAlways, PTL
-----------------------------------------------------------------------------
(* Invalidations and flushes on their way.                                 *)

One(b) == IF b THEN 1 ELSE 0

InvalidateCmd(r) == [kind |-> "Invalidate", region |-> r]
FlushCmd(r)      == [kind |-> "Flush", region |-> r]
Acknowledged(r)  == [kind |-> "Invalidated", region |-> r]

(* How often an invalidation of a region is with the GMMU, or its          *)
(* acknowledgement on the way back, and how often it is anywhere.          *)
Underway(g, r) ==
  Times(g.uvmIn, InvalidateCmd(r)) + One(g.invalidating = r) + Times(g.uvmOut, Acknowledged(r))

Pending(cmds, g, r) == Times(cmds, InvalidateCmd(r)) + Underway(g, r)

(* How often a flush of a region is. *)
Flushing(cmds, f, r) == Times(cmds, FlushCmd(r)) + One(f # None /\ f.region = r)

(* An invalidation belongs to an admission or an eviction that waits for   *)
(* it, a flush to an eviction; and the page table says of the region of an *)
(* eviction that it is migrating.                                          *)
Orderly(pending, flushing, state, pte) ==
  /\ pending <= One(state \in {"Invalidating", "Publishing"})
  /\ flushing <= One(state = "Flushing")
  /\ state \in {"Invalidating", "Flushing", "WritingBack"} => pte = "Migrating"

Ordered ==
  \A r \in Regions :
    Orderly(Pending(commands, gmmu, r), Flushing(commands, flush, r), service[r], table[r])

(* An invalidation has passed the second TLB. *)
Passed(g, r) ==
  \/ g.invalidating = r /\ L2 \notin g.toInvalidate
  \/ Acknowledged(r) \in Elements(g.uvmOut)

(* A step of the GMMU that changes nothing of this, but that a new         *)
(* invalidation may start.                                                 *)
KeepsOrder(g, h) ==
  \A r \in Regions : Underway(h, r) = Underway(g, r) /\ (Passed(h, r) => Passed(g, r))

LEMMA OneIs == One(TRUE) = 1 /\ One(FALSE) = 0 /\ \A b \in BOOLEAN : One(b) \in 0..1
BY DEF One

LEMMA UnderwayType ==
  ASSUME NEW g \in GMMUs, NEW r
  PROVE  /\ Times(g.uvmIn, InvalidateCmd(r)) \in Nat /\ Times(g.uvmOut, Acknowledged(r)) \in Nat
         /\ One(g.invalidating = r) \in 0..1 /\ Underway(g, r) \in Nat
         /\ Acknowledged(r) \in Elements(g.uvmOut) <=> Times(g.uvmOut, Acknowledged(r)) # 0
<1>1. g.uvmIn \in Seq(UVMCommands) /\ g.uvmOut \in Seq(UVMMessages)
  BY GMMUFields
<1>2. Times(g.uvmIn, InvalidateCmd(r)) \in Nat /\ Times(g.uvmOut, Acknowledged(r)) \in Nat
      /\ (Acknowledged(r) \in Elements(g.uvmOut) <=> Times(g.uvmOut, Acknowledged(r)) # 0)
  BY <1>1, TimesType
<1>3. One(g.invalidating = r) \in 0..1
  BY DEF One
<1>. QED BY <1>2, <1>3 DEF Underway

(* Faults go the same way. *)
LEMMA FaultKeepsOrder ==
  ASSUME NEW g \in GMMUs, NEW h, h.uvmIn = g.uvmIn,
         h.invalidating = g.invalidating, h.toInvalidate = g.toInvalidate,
         \/ h.uvmOut = g.uvmOut
         \/ \E p \in Pages : h.uvmOut = Append(g.uvmOut, [kind |-> "Fault", page |-> p])
  PROVE  KeepsOrder(g, h)
<1>1. ASSUME NEW r
      PROVE  /\ Times(h.uvmOut, Acknowledged(r)) = Times(g.uvmOut, Acknowledged(r))
             /\ Acknowledged(r) \in Elements(h.uvmOut) <=> Acknowledged(r) \in Elements(g.uvmOut)
  <2>1. CASE h.uvmOut = g.uvmOut
    BY <2>1
  <2>2. ASSUME NEW p \in Pages, h.uvmOut = Append(g.uvmOut, [kind |-> "Fault", page |-> p])
        PROVE  /\ Times(h.uvmOut, Acknowledged(r)) = Times(g.uvmOut, Acknowledged(r))
               /\ Acknowledged(r) \in Elements(h.uvmOut) <=> Acknowledged(r) \in Elements(g.uvmOut)
    <3>. DEFINE fault == [kind |-> "Fault", page |-> p]
    <3>1. fault.kind = "Fault" /\ Acknowledged(r).kind = "Invalidated" /\ fault \in UVMMessages
      BY DEF Acknowledged, UVMMessages
    <3>2. fault # Acknowledged(r) /\ g.uvmOut \in Seq(UVMMessages) /\ h.uvmOut = Append(g.uvmOut, fault)
      BY <2>2, <3>1, GMMUFields
    <3>. HIDE DEF fault
    <3>3. Elements(h.uvmOut) = Elements(g.uvmOut) \cup {fault}
          /\ Times(h.uvmOut, Acknowledged(r)) = Times(g.uvmOut, Acknowledged(r)) + 0
      BY <3>1, <3>2, AppendList
    <3>4. Times(g.uvmOut, Acknowledged(r)) \in Nat
      BY UnderwayType
    <3>. QED BY <3>2, <3>3, <3>4
  <2>. QED BY <2>1, <2>2
<1>. QED BY <1>1 DEF KeepsOrder, Underway, Passed

(* A replay is over. *)
LEMMA ConsumeKeepsOrder ==
  ASSUME NEW g \in GMMUs, Replaying(g)
  PROVE  KeepsOrder(g, ConsumeReplay(g))
<1>. DEFINE h == ConsumeReplay(g)
<1>1. h.uvmIn = Tail(g.uvmIn) /\ h.uvmOut = g.uvmOut /\ h.invalidating = g.invalidating
      /\ h.toInvalidate = g.toInvalidate
  BY DEF ConsumeReplay, GMMUs
<1>. HIDE DEF h
<1>2. ASSUME NEW r PROVE Times(Tail(g.uvmIn), InvalidateCmd(r)) = Times(g.uvmIn, InvalidateCmd(r))
  <2>1. g.uvmIn \in Seq(UVMCommands) /\ g.uvmIn # <<>> /\ Head(g.uvmIn) # InvalidateCmd(r)
    BY GMMUFields DEF Replaying, InvalidateCmd
  <2>2. Tail(g.uvmIn) \in Seq(UVMCommands)
        /\ Times(g.uvmIn, InvalidateCmd(r)) = Times(Tail(g.uvmIn), InvalidateCmd(r)) + 0
    BY <2>1, TimesTail
  <2>3. Times(Tail(g.uvmIn), InvalidateCmd(r)) \in Nat
    BY <2>2, TimesType
  <2>. QED BY <2>2, <2>3
<1>3. \A r \in Regions : Underway(h, r) = Underway(g, r) /\ (Passed(h, r) <=> Passed(g, r))
  BY <1>1, <1>2 DEF Underway, Passed
<1>. QED BY <1>3 DEF KeepsOrder, h

(* An invalidation starts, with all TLBs before it. *)
LEMMA StartKeepsOrder ==
  ASSUME NEW g \in GMMUs, CanStartInvalidate(g)
  PROVE  KeepsOrder(g, StartTLBInvalidate(g))
<1>. DEFINE h == StartTLBInvalidate(g)
            x == Head(g.uvmIn).region
<1>1. /\ h.uvmIn = Tail(g.uvmIn) /\ h.uvmOut = g.uvmOut /\ h.invalidating = x
      /\ h.toInvalidate = TLBNames
  BY DEF StartTLBInvalidate, GMMUs
<1>2. /\ g.uvmIn \in Seq(UVMCommands) /\ g.uvmIn # <<>> /\ Head(g.uvmIn).kind = "Invalidate"
      /\ g.invalidating = None /\ Head(g.uvmIn) \in UVMCommands
  BY GMMUFields, CommandRegion DEF CanStartInvalidate
<1>3. x \in Regions /\ Head(g.uvmIn) = InvalidateCmd(x)
  BY <1>2 DEF UVMCommands, InvalidateCmd
<1>. HIDE DEF h, x
<1>4. ASSUME NEW r \in Regions
      PROVE  Underway(h, r) = Underway(g, r) /\ (Passed(h, r) => Passed(g, r))
  <2>1. InvalidateCmd(x) = InvalidateCmd(r) <=> x = r
    <3>1. InvalidateCmd(x).region = x /\ InvalidateCmd(r).region = r
      BY DEF InvalidateCmd
    <3>. QED BY <3>1
  <2>2. Times(g.uvmIn, InvalidateCmd(r)) = Times(Tail(g.uvmIn), InvalidateCmd(r)) + One(x = r)
    <3>1. Times(g.uvmIn, InvalidateCmd(r))
            = Times(Tail(g.uvmIn), InvalidateCmd(r)) + (IF Head(g.uvmIn) = InvalidateCmd(r) THEN 1 ELSE 0)
      BY <1>2, TimesTail
    <3>. QED BY <1>3, <2>1, <3>1 DEF One
  <2>3. r # None
    BY GMMUAssumption
  <2>4. One(g.invalidating = r) = 0
    BY <1>2, <2>3 DEF One
  <2>5. Tail(g.uvmIn) \in Seq(UVMCommands)
    BY <1>2
  <2>6. Times(Tail(g.uvmIn), InvalidateCmd(r)) \in Nat
    BY <2>5, TimesType
  <2>7. Times(g.uvmOut, Acknowledged(r)) \in Nat /\ One(x = r) \in Nat
    BY UnderwayType DEF One
  <2>8. Underway(h, r) = Underway(g, r)
    BY <1>1, <2>2, <2>4, <2>6, <2>7 DEF Underway
  <2>9. Passed(h, r) => Passed(g, r)
    BY <1>1, Names DEF Passed
  <2>. QED BY <2>8, <2>9
<1>. QED BY <1>4 DEF KeepsOrder, h

(* All TLBs have answered. *)
LEMMA CompleteKeepsOrder ==
  ASSUME NEW g \in GMMUs, CanCompleteInvalidate(g)
  PROVE  KeepsOrder(g, CompleteTLBInvalidate(g))
<1>. DEFINE h == CompleteTLBInvalidate(g)
            x == g.invalidating
            msg == Acknowledged(x)
<1>1. /\ h.uvmIn = g.uvmIn /\ h.uvmOut = Append(g.uvmOut, msg) /\ h.invalidating = None
  BY DEF CompleteTLBInvalidate, GMMUs, Acknowledged
<1>2. x \in Regions /\ g.toInvalidate = {} /\ g.uvmOut \in Seq(UVMMessages)
  BY GMMUFields DEF CanCompleteInvalidate
<1>3. msg \in UVMMessages
  BY <1>2 DEF UVMMessages, Acknowledged
<1>4. \A r : msg = Acknowledged(r) <=> x = r
  <2>1. \A r : Acknowledged(r).region = r
    BY DEF Acknowledged
  <2>. QED BY <2>1
<1>5. x = g.invalidating
  OBVIOUS
<1>. HIDE DEF h, msg, x
<1>6. ASSUME NEW r \in Regions
      PROVE  Underway(h, r) = Underway(g, r) /\ (Passed(h, r) => Passed(g, r))
  <2>1. Times(h.uvmOut, Acknowledged(r)) = Times(g.uvmOut, Acknowledged(r)) + One(x = r)
    <3>1. Times(h.uvmOut, Acknowledged(r))
            = Times(g.uvmOut, Acknowledged(r)) + (IF msg = Acknowledged(r) THEN 1 ELSE 0)
      BY <1>1, <1>2, <1>3, AppendList
    <3>. QED BY <1>4, <3>1 DEF One
  <2>2. None # r
    BY GMMUAssumption
  <2>3. One(h.invalidating = r) = 0
    BY <1>1, <2>2 DEF One
  <2>4. Times(g.uvmOut, Acknowledged(r)) \in Nat /\ Times(g.uvmIn, InvalidateCmd(r)) \in Nat
        /\ One(x = r) \in Nat
    BY UnderwayType DEF One
  <2>5. Underway(h, r) = Underway(g, r)
    BY <1>1, <1>5, <2>1, <2>3, <2>4 DEF Underway
  <2>6. Elements(h.uvmOut) = Elements(g.uvmOut) \cup {msg}
    BY <1>1, <1>2, <1>3, AppendList
  <2>7. Passed(h, r) => Passed(g, r)
    BY <1>1, <1>2, <1>4, <1>5, <2>2, <2>6 DEF Passed
  <2>. QED BY <2>5, <2>7
<1>. QED BY <1>6 DEF KeepsOrder, h

LEMMA PassedUnderway ==
  ASSUME NEW g \in GMMUs, NEW r, Passed(g, r)
  PROVE  Underway(g, r) >= 1
<1>1. /\ Times(g.uvmIn, InvalidateCmd(r)) \in Nat /\ Times(g.uvmOut, Acknowledged(r)) \in Nat
      /\ One(g.invalidating = r) \in 0..1
      /\ Acknowledged(r) \in Elements(g.uvmOut) <=> Times(g.uvmOut, Acknowledged(r)) # 0
  BY UnderwayType
<1>2. g.invalidating = r => One(g.invalidating = r) = 1
  BY DEF One
<1>. QED BY <1>1, <1>2 DEF Passed, Underway

(* A message is received: a fault, or the acknowledgement of a region. *)
LEMMA ReceiveOrder ==
  ASSUME NEW g \in GMMUs, g.uvmOut # <<>>, NEW h, h = [g EXCEPT !.uvmOut = Tail(g.uvmOut)]
  PROVE  /\ Head(g.uvmOut).kind = "Fault" => KeepsOrder(g, h)
         /\ Head(g.uvmOut).kind # "Fault" =>
              \A r \in Regions :
                /\ Underway(g, r) = Underway(h, r) + One(Head(g.uvmOut).region = r)
                /\ Passed(h, r) => Passed(g, r)
                /\ Head(g.uvmOut).region = r => Acknowledged(r) \in Elements(g.uvmOut)
<1>. DEFINE m == Head(g.uvmOut)
            rest == Tail(g.uvmOut)
<1>1. h.uvmIn = g.uvmIn /\ h.invalidating = g.invalidating /\ h.toInvalidate = g.toInvalidate
      /\ h.uvmOut = rest
  BY DEF GMMUs
<1>2. g.uvmOut \in Seq(UVMMessages)
  BY GMMUFields
<1>3. m \in UVMMessages /\ rest \in Seq(UVMMessages) /\ Elements(g.uvmOut) = {m} \cup Elements(rest)
  BY <1>2, ElementsTail
<1>4. ASSUME NEW x
      PROVE  Times(g.uvmOut, x) = Times(rest, x) + (IF m = x THEN 1 ELSE 0) /\ Times(rest, x) \in Nat
  <2>1. Times(g.uvmOut, x) = Times(rest, x) + (IF m = x THEN 1 ELSE 0)
    BY <1>2, TimesTail
  <2>2. Times(rest, x) \in Nat
    BY <1>3, TimesType
  <2>. QED BY <2>1, <2>2
<1>5. m = Head(g.uvmOut)
  OBVIOUS
<1>. HIDE DEF m, rest
<1>6. ASSUME NEW r PROVE Passed(h, r) => Passed(g, r)
  BY <1>1, <1>3 DEF Passed
<1>7. ASSUME m.kind = "Fault" PROVE KeepsOrder(g, h)
  <2>1. ASSUME NEW r PROVE Underway(h, r) = Underway(g, r)
    <3>1. m # Acknowledged(r)
      BY <1>7 DEF Acknowledged
    <3>2. Times(g.uvmOut, Acknowledged(r)) = Times(rest, Acknowledged(r))
      BY <1>4, <3>1
    <3>. QED BY <1>1, <3>2 DEF Underway
  <2>. QED BY <1>6, <2>1 DEF KeepsOrder
<1>8. ASSUME m.kind # "Fault", NEW r \in Regions
      PROVE  /\ Underway(g, r) = Underway(h, r) + One(m.region = r)
             /\ m.region = r => Acknowledged(r) \in Elements(g.uvmOut)
  <2>1. m = Acknowledged(r) <=> m.region = r
    BY <1>3, <1>8 DEF Acknowledged, UVMMessages
  <2>2. Times(g.uvmOut, Acknowledged(r)) = Times(rest, Acknowledged(r)) + One(m.region = r)
    BY <1>4, <2>1 DEF One
  <2>3. Times(rest, Acknowledged(r)) \in Nat /\ One(m.region = r) \in Nat
        /\ Times(g.uvmIn, InvalidateCmd(r)) \in Nat /\ One(g.invalidating = r) \in Nat
    BY <1>4, UnderwayType DEF One
  <2>4. Underway(g, r) = Underway(h, r) + One(m.region = r)
    <3>1. /\ Times(h.uvmIn, InvalidateCmd(r)) = Times(g.uvmIn, InvalidateCmd(r))
          /\ One(h.invalidating = r) = One(g.invalidating = r)
          /\ Times(h.uvmOut, Acknowledged(r)) = Times(rest, Acknowledged(r))
      BY <1>1
    <3>. QED BY <2>2, <2>3, <3>1 DEF Underway
  <2>. QED BY <1>3, <2>1, <2>4
<1>. QED BY <1>5, <1>6, <1>7, <1>8

(* A command is passed to the GMMU. *)
LEMMA PassOn ==
  ASSUME NEW g \in GMMUs, NEW c \in UVMCommands, NEW h, h = [g EXCEPT !.uvmIn = Append(g.uvmIn, c)]
  PROVE  \A r : /\ Underway(h, r) = Underway(g, r) + (IF c = InvalidateCmd(r) THEN 1 ELSE 0)
                /\ Passed(h, r) => Passed(g, r)
<1>. DEFINE in == Append(g.uvmIn, c)
<1>1. h.uvmIn = in /\ h.invalidating = g.invalidating /\ h.toInvalidate = g.toInvalidate
      /\ h.uvmOut = g.uvmOut
  BY DEF GMMUs
<1>2. ASSUME NEW x PROVE Times(in, x) = Times(g.uvmIn, x) + (IF c = x THEN 1 ELSE 0)
  BY GMMUFields, AppendList
<1>. HIDE DEF in
<1>3. ASSUME NEW r PROVE Underway(h, r) = Underway(g, r) + (IF c = InvalidateCmd(r) THEN 1 ELSE 0)
  <2>1. Times(in, InvalidateCmd(r)) = Times(g.uvmIn, InvalidateCmd(r)) + (IF c = InvalidateCmd(r) THEN 1 ELSE 0)
    BY <1>2
  <2>2. Times(g.uvmIn, InvalidateCmd(r)) \in Nat /\ Times(g.uvmOut, Acknowledged(r)) \in Nat
        /\ One(g.invalidating = r) \in Nat
    BY UnderwayType DEF One
  <2>3. /\ Times(h.uvmIn, InvalidateCmd(r)) = Times(in, InvalidateCmd(r))
        /\ One(h.invalidating = r) = One(g.invalidating = r)
        /\ Times(h.uvmOut, Acknowledged(r)) = Times(g.uvmOut, Acknowledged(r))
    BY <1>1
  <2>. QED BY <2>1, <2>2, <2>3 DEF Underway
<1>. QED BY <1>1, <1>3 DEF Passed

-----------------------------------------------------------------------------
(* No stale translation in the second TLB.                                 *)

(* The second TLB has been invalidated for the eviction of a region, which *)
(* goes on.                                                                *)
Settled(g, state, r) ==
  state \in {"Flushing", "WritingBack"} \/ (state = "Invalidating" /\ Passed(g, r))

Fresh ==
  /\ Ordered
  /\ \A r \in Regions : Settled(gmmu, service[r], r) => \A p \in PagesIn(r) : Clean(tlb[L2], p)

(* What a step may do to a region: nothing of interest, or a step on its   *)
(* way that does not settle it.                                            *)
SameOrder(r) ==
  /\ Pending(commands', gmmu', r) = Pending(commands, gmmu, r)
  /\ Flushing(commands', flush', r) <= Flushing(commands, flush, r)
  /\ service'[r] = service[r] /\ table'[r] = table[r]
  /\ Passed(gmmu', r) => Passed(gmmu, r)

Advances(r) ==
  /\ Orderly(Pending(commands', gmmu', r), Flushing(commands', flush', r), service'[r], table'[r])
  /\ Settled(gmmu', service'[r], r) => Settled(gmmu, service[r], r)

LEMMA Counts ==
  ASSUME Inv
  PROVE  \A r \in Regions :
           /\ Times(commands, InvalidateCmd(r)) \in Nat /\ Times(commands, FlushCmd(r)) \in Nat
           /\ Underway(gmmu, r) \in Nat /\ One(flush # None /\ flush.region = r) \in 0..1
           /\ Pending(commands, gmmu, r) \in Nat /\ Flushing(commands, flush, r) \in Nat
<1>. TAKE r \in Regions
<1>1. Times(commands, InvalidateCmd(r)) \in Nat /\ Times(commands, FlushCmd(r)) \in Nat
  BY TimesType DEF Inv, DriverType
<1>2. Underway(gmmu, r) \in Nat
  BY UnderwayType DEF Inv, GPUSound
<1>3. One(flush # None /\ flush.region = r) \in 0..1
  BY DEF One
<1>. QED BY <1>1, <1>2, <1>3 DEF Pending, Flushing

LEMMA CountsNext ==
  ASSUME Inv'
  PROVE  \A r \in Regions : Pending(commands', gmmu', r) \in Nat /\ Flushing(commands', flush', r) \in Nat
<1>. TAKE r \in Regions
<1>1. commands' \in Seq(UVMCommands) /\ gmmu' \in GMMUs
  BY DEF Inv, DriverType, GPUSound
<1>2. Times(commands', InvalidateCmd(r)) \in Nat /\ Times(commands', FlushCmd(r)) \in Nat
  BY <1>1, TimesType
<1>3. Underway(gmmu', r) \in Nat
  BY <1>1, UnderwayType
<1>4. One(flush' # None /\ flush'.region = r) \in 0..1
  BY DEF One
<1>. QED BY <1>2, <1>3, <1>4 DEF Pending, Flushing

LEMMA StaysFresh ==
  ASSUME Inv, Inv', Fresh, \A r \in Regions : SameOrder(r) \/ Advances(r),
         \A r \in Regions : Settled(gmmu, service[r], r) =>
           \A p \in PagesIn(r) : Clean(tlb[L2], p) => Clean(tlb'[L2], p)
  PROVE  Fresh'
<1>1. ASSUME NEW r \in Regions
      PROVE  /\ Orderly(Pending(commands', gmmu', r), Flushing(commands', flush', r), service'[r], table'[r])
             /\ Settled(gmmu', service'[r], r) => Settled(gmmu, service[r], r)
  <2>1. CASE SameOrder(r)
    <3>1. Orderly(Pending(commands, gmmu, r), Flushing(commands, flush, r), service[r], table[r])
      BY DEF Fresh, Ordered
    <3>2. /\ Pending(commands', gmmu', r) = Pending(commands, gmmu, r)
          /\ Flushing(commands', flush', r) <= Flushing(commands, flush, r)
          /\ service'[r] = service[r] /\ table'[r] = table[r]
      BY <2>1 DEF SameOrder
    <3>3. Flushing(commands, flush, r) \in Nat /\ Flushing(commands', flush', r) \in Nat
      BY Counts, CountsNext
    <3>4. One(service[r] = "Flushing") \in Nat
      BY DEF One
    <3>5. Orderly(Pending(commands', gmmu', r), Flushing(commands', flush', r), service'[r], table'[r])
      BY <3>1, <3>2, <3>3, <3>4 DEF Orderly
    <3>. QED BY <2>1, <3>5 DEF SameOrder, Settled
  <2>2. CASE Advances(r)
    BY <2>2 DEF Advances
  <2>. QED BY <2>1, <2>2
<1>2. Ordered'
  BY <1>1 DEF Ordered
<1>3. \A r \in Regions : Settled(gmmu', service'[r], r) => \A p \in PagesIn(r) : Clean(tlb'[L2], p)
  BY <1>1 DEF Fresh
<1>. QED BY <1>2, <1>3 DEF Fresh

(* The driver has nothing to do with it. *)
LEMMA Quiet ==
  ASSUME Inv, UNCHANGED <<commands, flush, service, table>>, KeepsOrder(gmmu, gmmu')
  PROVE  \A r \in Regions : SameOrder(r)
<1>. TAKE r \in Regions
<1>1. Flushing(commands, flush, r) <= Flushing(commands, flush, r)
  BY Counts
<1>. QED BY <1>1 DEF SameOrder, KeepsOrder, Pending

(* Commands are sent. *)
LEMMA SendCounts ==
  ASSUME Inv, NEW c \in UVMCommands, Send(c)
  PROVE  \A x : Times(commands', x) = Times(commands, x) + (IF c = x THEN 1 ELSE 0)
BY AppendList DEF Inv, DriverType, Send

LEMMA Distinct ==
  ASSUME NEW r, NEW x
  PROVE  /\ InvalidateCmd(x) = InvalidateCmd(r) <=> x = r
         /\ FlushCmd(x) = FlushCmd(r) <=> x = r
         /\ InvalidateCmd(x) # FlushCmd(r)
<1>1. /\ InvalidateCmd(x).region = x /\ InvalidateCmd(r).region = r
      /\ FlushCmd(x).region = x /\ FlushCmd(r).region = r
      /\ InvalidateCmd(x).kind = "Invalidate" /\ FlushCmd(r).kind = "Flush"
  BY DEF InvalidateCmd, FlushCmd
<1>. QED BY <1>1

(* A replay does not count. *)
LEMMA ReplayCounts ==
  ASSUME Inv, NEW x \in Regions, NEW refused \in BOOLEAN, Replay(x, refused)
  PROVE  \A r \in Regions : /\ Times(commands', InvalidateCmd(r)) = Times(commands, InvalidateCmd(r))
                            /\ Times(commands', FlushCmd(r)) = Times(commands, FlushCmd(r))
<1>. DEFINE c == [kind |-> "Replay", region |-> x, refused |-> refused]
<1>1. c \in UVMCommands /\ Send(c) /\ c.kind = "Replay"
  BY Commands DEF Replay
<1>2. \A r : c # InvalidateCmd(r) /\ c # FlushCmd(r)
  <2>1. \A r : InvalidateCmd(r).kind = "Invalidate" /\ FlushCmd(r).kind = "Flush"
    BY DEF InvalidateCmd, FlushCmd
  <2>. QED BY <1>1, <2>1
<1>. HIDE DEF c
<1>3. \A y : Times(commands', y) = Times(commands, y) + (IF c = y THEN 1 ELSE 0)
  BY <1>1, SendCounts
<1>4. \A r \in Regions : Times(commands, InvalidateCmd(r)) \in Nat /\ Times(commands, FlushCmd(r)) \in Nat
  BY Counts
<1>. QED BY <1>2, <1>3, <1>4

LEMMA InvalidateCounts ==
  ASSUME Inv, NEW x \in Regions, Send(InvalidateCmd(x))
  PROVE  \A r \in Regions :
           /\ Times(commands', InvalidateCmd(r)) = Times(commands, InvalidateCmd(r)) + One(x = r)
           /\ Times(commands', FlushCmd(r)) = Times(commands, FlushCmd(r))
<1>1. InvalidateCmd(x) \in UVMCommands
  BY Commands DEF InvalidateCmd
<1>2. \A y : Times(commands', y) = Times(commands, y) + (IF InvalidateCmd(x) = y THEN 1 ELSE 0)
  BY <1>1, SendCounts
<1>3. \A r \in Regions : Times(commands, InvalidateCmd(r)) \in Nat /\ Times(commands, FlushCmd(r)) \in Nat
  BY Counts
<1>. QED BY <1>2, <1>3, Distinct DEF One

LEMMA FlushCounts ==
  ASSUME Inv, NEW x \in Regions, Send(FlushCmd(x))
  PROVE  \A r \in Regions :
           /\ Times(commands', InvalidateCmd(r)) = Times(commands, InvalidateCmd(r))
           /\ Times(commands', FlushCmd(r)) = Times(commands, FlushCmd(r)) + One(x = r)
<1>1. FlushCmd(x) \in UVMCommands
  BY Commands DEF FlushCmd
<1>2. \A y : Times(commands', y) = Times(commands, y) + (IF FlushCmd(x) = y THEN 1 ELSE 0)
  BY <1>1, SendCounts
<1>3. \A r \in Regions : Times(commands, InvalidateCmd(r)) \in Nat /\ Times(commands, FlushCmd(r)) \in Nat
  BY Counts
<1>. QED BY <1>2, <1>3, Distinct DEF One

-----------------------------------------------------------------------------
(* The steps of the TLBs.                                                  *)

(* An MSHR entry of the second TLB has one answer at most on its way, and  *)
(* a page without an entry has none.                                       *)
LEMMA SecondReturned ==
  ASSUME Inv
  PROVE  \A p \in Pages : /\ Returned(tlb[L2], p) <= 1
                          /\ ~Open(tlb[L2], p) => Returned(tlb[L2], p) = 0
<1>. TAKE p \in Pages
<1>1. Walked(gmmu, p) + Returned(tlb[L2], p) = IF Open(tlb[L2], p) THEN 1 ELSE 0
  BY Accounts DEF Inv, Once
<1>2. Walked(gmmu, p) \in Nat /\ Returned(tlb[L2], p) \in Nat
  BY Names, Numbers DEF Inv
<1>. QED BY <1>1, <1>2

KeepsClean(t, u) == \A p \in Pages : Clean(t, p) => Clean(u, p)

LEMMA SecondSound ==
  ASSUME Inv
  PROVE  /\ L2 \in TLBNames /\ DOMAIN tlb = TLBNames /\ gmmu \in GMMUs
         /\ \A n \in TLBNames : Sound(tlb[n], ReqsOf(n)) /\ \A q \in ReqsOf(n) : q.page \in Pages
         /\ \A n \in TLBNames : tlb[n] \in TLBs(ReqsOf(n))
BY Names DEF Inv, GPUSound, Sound

(* What an answer, or a request, of some TLB is to the second. *)
LEMMA AnswerOfSecond ==
  ASSUME Inv, NEW n \in TLBNames, NEW q \in ReqsOf(n), NEW mapping, NEW u, Answer(n, q, mapping, u)
  PROVE  tlb'[L2] = IF n = L2 THEN u ELSE tlb[L2]
<1>1. L2 \in TLBNames /\ DOMAIN tlb = TLBNames
  BY SecondSound
<1>2. CASE n = L2
  <2>1. q.core \in TLBNames /\ q.core # L2
    BY <1>2, Names
  <2>2. tlb' = [tlb EXCEPT ![n] = u, ![q.core].bottomIn =
                   Append(@, [page |-> q.page, mapping |-> mapping])]
    BY <1>2 DEF Answer
  <2>. QED BY <1>1, <1>2, <2>1, <2>2
<1>3. CASE n # L2
  <2>1. tlb' = [tlb EXCEPT ![n] = u]
    BY <1>3 DEF Answer
  <2>. QED BY <1>1, <1>3, <2>1
<1>. QED BY <1>2, <1>3

LEMMA AskOfSecond ==
  ASSUME Inv, NEW n \in TLBNames, NEW p, NEW u, Ask(n, p, u)
  PROVE  tlb'[L2] = IF n = L2 THEN u ELSE Asking(tlb[L2], [core |-> n, page |-> p])
<1>1. L2 \in TLBNames /\ DOMAIN tlb = TLBNames
  BY SecondSound
<1>2. CASE n = L2
  BY <1>1, <1>2 DEF Ask
<1>3. CASE n # L2
  <2>1. tlb' = [tlb EXCEPT ![n] = u, ![L2].topIn = Append(@, [core |-> n, page |-> p])]
    BY <1>3 DEF Ask
  <2>. QED BY <1>1, <1>3, <2>1 DEF Asking
<1>. QED BY <1>2, <1>3

LEMMA LookupClean ==
  ASSUME Inv, NEW n \in TLBNames, Lookup(n)
  PROVE  KeepsClean(tlb[L2], tlb'[L2])
<1>. DEFINE t == tlb[L2]
<1>1. /\ L2 \in TLBNames /\ DOMAIN tlb = TLBNames /\ Sound(t, ReqsOf(L2)) /\ t \in TLBs(ReqsOf(L2))
      /\ \A q \in ReqsOf(L2) : q.page \in Pages
      /\ Sound(tlb[n], ReqsOf(n)) /\ \A q \in ReqsOf(n) : q.page \in Pages
  BY SecondSound
<1>2. ASSUME JoinsEntry(tlb[n]), tlb' = [tlb EXCEPT ![n] = JoinEntry(@)]
      PROVE  KeepsClean(tlb[L2], tlb'[L2])
  <2>1. CASE n = L2
    <3>1. tlb'[L2] = JoinEntry(t) /\ JoinsEntry(t)
      BY <1>1, <1>2, <2>1
    <3>. HIDE DEF t
    <3>2. KeepsClean(t, JoinEntry(t))
      BY <1>1, <3>1, JoinClean DEF KeepsClean
    <3>. QED BY <3>1, <3>2 DEF t
  <2>2. CASE n # L2
    BY <1>1, <1>2, <2>2 DEF KeepsClean
  <2>. QED BY <2>1, <2>2
<1>3. ASSUME Hits(tlb[n]), Answer(n, Head(tlb[n].topIn), Translation(tlb[n]), AnswerHit(tlb[n]))
      PROVE  KeepsClean(tlb[L2], tlb'[L2])
  <2>1. Head(tlb[n].topIn) \in ReqsOf(n)
    BY <1>1, <1>3, HitSound
  <2>2. tlb'[L2] = IF n = L2 THEN AnswerHit(tlb[n]) ELSE tlb[L2]
    BY <1>3, <2>1, AnswerOfSecond
  <2>3. CASE n = L2
    <3>1. tlb'[L2] = AnswerHit(t)
      BY <2>2, <2>3
    <3>. HIDE DEF t
    <3>2. KeepsClean(t, AnswerHit(t))
      BY <1>1, HitClean DEF KeepsClean
    <3>. QED BY <3>1, <3>2 DEF t
  <2>4. CASE n # L2
    BY <2>2, <2>4 DEF KeepsClean
  <2>. QED BY <2>3, <2>4
<1>4. ASSUME Misses(tlb[n]), Ask(n, Head(tlb[n].topIn).page, OpenEntry(tlb[n]))
      PROVE  KeepsClean(tlb[L2], tlb'[L2])
  <2>. DEFINE h == Head(tlb[n].topIn).page
              m == [core |-> n, page |-> h]
  <2>1. tlb'[L2] = IF n = L2 THEN OpenEntry(tlb[n]) ELSE Asking(tlb[L2], m)
    BY <1>4, AskOfSecond
  <2>2. CASE n = L2
    <3>1. tlb'[L2] = OpenEntry(t) /\ Misses(t)
      BY <1>4, <2>1, <2>2
    <3>2. ~Open(t, Head(t.topIn).page)
      BY <3>1 DEF Misses
    <3>3. \A p \in Pages : p = Head(t.topIn).page => Returned(t, p) = 0
      BY <3>2, SecondReturned
    <3>. HIDE DEF t
    <3>4. KeepsClean(t, OpenEntry(t))
      BY <1>1, <3>1, <3>3, OpenClean DEF KeepsClean
    <3>. QED BY <3>1, <3>4 DEF t
  <2>3. CASE n # L2
    <3>1. tlb'[L2] = Asking(t, m)
      BY <2>1, <2>3
    <3>. HIDE DEF t, m
    <3>2. KeepsClean(t, Asking(t, m))
      BY <1>1, AskClean DEF KeepsClean
    <3>. QED BY <3>1, <3>2 DEF t
  <2>. QED BY <2>2, <2>3
<1>. QED BY <1>2, <1>3, <1>4 DEF Lookup

LEMMA FillsClean ==
  ASSUME Inv, NEW n \in TLBNames, ParseFill(n)
  PROVE  KeepsClean(tlb[L2], tlb'[L2])
<1>. DEFINE t == tlb[L2]
<1>1. /\ L2 \in TLBNames /\ DOMAIN tlb = TLBNames /\ Sound(t, ReqsOf(L2))
      /\ \A q \in ReqsOf(L2) : q.page \in Pages
  BY SecondSound
<1>2. CanParseBottom(tlb[n]) /\ tlb' = [tlb EXCEPT ![n] = ParseBottom(@)]
  BY DEF ParseFill
<1>3. CASE n = L2
  <2>1. tlb'[L2] = ParseBottom(t) /\ CanParseBottom(t)
    BY <1>1, <1>2, <1>3
  <2>2. \A p \in Pages : Returned(t, p) <= 1
    BY SecondReturned
  <2>. HIDE DEF t
  <2>3. KeepsClean(t, ParseBottom(t))
    BY <1>1, <2>1, <2>2, FillClean DEF KeepsClean
  <2>. QED BY <2>1, <2>3 DEF t
<1>4. CASE n # L2
  BY <1>1, <1>2, <1>4 DEF KeepsClean
<1>. QED BY <1>3, <1>4

LEMMA RespondsClean ==
  ASSUME Inv, NEW n \in TLBNames, RespondEntry(n)
  PROVE  KeepsClean(tlb[L2], tlb'[L2])
<1>. DEFINE t == tlb[L2]
            q == Head(tlb[n].responding.requests)
            mapping == tlb[n].responding.mapping
<1>1. /\ t \in TLBs(ReqsOf(L2)) /\ Sound(tlb[n], ReqsOf(n)) /\ \A x \in ReqsOf(n) : x.page \in Pages
  BY SecondSound
<1>2. Responding(tlb[n]) /\ Answer(n, q, mapping, Respond(tlb[n]))
  BY DEF RespondEntry
<1>3. q \in ReqsOf(n)
  BY <1>1, <1>2, RespondSound
<1>4. tlb'[L2] = IF n = L2 THEN Respond(tlb[n]) ELSE tlb[L2]
  BY <1>2, <1>3, AnswerOfSecond
<1>5. CASE n = L2
  <2>1. tlb'[L2] = Respond(t)
    BY <1>4, <1>5
  <2>. HIDE DEF t
  <2>2. KeepsClean(t, Respond(t))
    BY <1>1, RespondClean DEF KeepsClean
  <2>. QED BY <2>1, <2>2 DEF t
<1>6. CASE n # L2
  BY <1>4, <1>6 DEF KeepsClean
<1>. QED BY <1>5, <1>6

(* The TLBs change nothing but what they hold. *)
LEMMA TLBsFresh ==
  ASSUME Inv, Inv', Fresh, NEW n \in TLBNames, Lookup(n) \/ ParseFill(n) \/ RespondEntry(n)
  PROVE  Fresh'
<1>1. KeepsClean(tlb[L2], tlb'[L2])
  BY LookupClean, FillsClean, RespondsClean
<1>2. UNCHANGED <<commands, flush, service, table>>
  BY DEF Lookup, ParseFill, RespondEntry, driver
<1>3. gmmu' = gmmu \/ \E p : gmmu' = [gmmu EXCEPT !.topIn = Append(@, p)]
  BY DEF Lookup, ParseFill, RespondEntry, Ask
<1>4. gmmu \in GMMUs
  BY SecondSound
<1>5. /\ gmmu'.uvmIn = gmmu.uvmIn /\ gmmu'.uvmOut = gmmu.uvmOut
      /\ gmmu'.invalidating = gmmu.invalidating /\ gmmu'.toInvalidate = gmmu.toInvalidate
  BY <1>3, <1>4 DEF GMMUs
<1>6. \A r \in Regions : SameOrder(r)
  BY <1>2, <1>4, <1>5, FaultKeepsOrder, Quiet
<1>. QED BY <1>1, <1>6, StaysFresh DEF KeepsClean, PagesIn

-----------------------------------------------------------------------------
(* The steps of the GMMU.                                                  *)

(* The region of an eviction is migrating, so that no walk of it is        *)
(* answered with a local translation.                                      *)
LEMMA WalkClean ==
  ASSUME Inv, Fresh, NEW x \in Pages, AnswerWalk(x)
  PROVE  \A r \in Regions : Settled(gmmu, service[r], r) =>
           \A p \in PagesIn(r) : Clean(tlb[L2], p) => Clean(tlb'[L2], p)
<1>. DEFINE a == [page |-> x, mapping |-> MappingOf(PTE(x))]
            t == tlb[L2]
<1>1. L2 \in TLBNames /\ DOMAIN tlb = TLBNames /\ t \in TLBs(ReqsOf(L2))
  BY SecondSound
<1>2. tlb'[L2] = Delivered(t, a)
  BY <1>1 DEF AnswerWalk, Delivered
<1>3. RegionOf[x] \in Regions /\ PTE(x) \in PTEs
  BY GMMUAssumption DEF PTE, Inv, DriverType
<1>4. a \in Answered
  BY <1>3 DEF Answered, MappingOf, NeedsFault, Mappings, PTEs
<1>5. ASSUME NEW r \in Regions, Settled(gmmu, service[r], r), NEW p \in PagesIn(r), Clean(t, p)
      PROVE  Clean(Delivered(t, a), p)
  <2>1. p \in Pages /\ RegionOf[p] = r
    BY DEF PagesIn
  <2>2. table[r] = "Migrating"
    BY <1>5 DEF Fresh, Ordered, Orderly, Settled
  <2>3. a.page # p \/ a.mapping # "Local"
    BY <2>1, <2>2 DEF PTE, MappingOf, NeedsFault
  <2>. HIDE DEF a, t
  <2>. QED BY <1>1, <1>4, <1>5, <2>1, <2>3, DeliverClean
<1>. QED BY <1>2, <1>5

LEMMA WalkFresh ==
  ASSUME Inv, Inv', Fresh, UNCHANGED <<commands, flush, service, table>>, KeepsOrder(gmmu, gmmu'),
         tlb' = tlb \/ \E x \in Pages : AnswerWalk(x)
  PROVE  Fresh'
<1>1. \A r \in Regions : SameOrder(r)
  BY Quiet
<1>2. \A r \in Regions : Settled(gmmu, service[r], r) =>
        \A p \in PagesIn(r) : Clean(tlb[L2], p) => Clean(tlb'[L2], p)
  BY WalkClean
<1>. QED BY <1>1, <1>2, StaysFresh

LEMMA FinalizeFresh ==
  ASSUME Inv, Inv', Fresh, NEW walk \in gmmu.walking, FinalizeWalk(walk)
  PROVE  Fresh'
<1>1. gmmu \in GMMUs /\ walk.page \in Pages /\ UNCHANGED <<commands, flush, service, table>>
  BY SecondSound, GMMUFields DEF Walks, FinalizeWalk, driver
<1>2. CASE gmmu' = SendUVMFault(gmmu, walk) /\ UNCHANGED tlb
  <2>1. /\ gmmu'.uvmIn = gmmu.uvmIn /\ gmmu'.invalidating = gmmu.invalidating
        /\ gmmu'.toInvalidate = gmmu.toInvalidate
        /\ gmmu'.uvmOut = Append(gmmu.uvmOut, [kind |-> "Fault", page |-> walk.page])
    BY <1>1, <1>2 DEF SendUVMFault, GMMUs
  <2>2. KeepsOrder(gmmu, gmmu')
    BY <1>1, <2>1, FaultKeepsOrder
  <2>. QED BY <1>1, <1>2, <2>2, WalkFresh
<1>3. CASE gmmu' = EndWalk(gmmu, walk) /\ AnswerWalk(walk.page)
  <2>1. /\ gmmu'.uvmIn = gmmu.uvmIn /\ gmmu'.invalidating = gmmu.invalidating
        /\ gmmu'.toInvalidate = gmmu.toInvalidate /\ gmmu'.uvmOut = gmmu.uvmOut
    BY <1>1, <1>3 DEF EndWalk, GMMUs
  <2>2. KeepsOrder(gmmu, gmmu')
    BY <1>1, <2>1, FaultKeepsOrder
  <2>. QED BY <1>1, <1>3, <2>2, WalkFresh
<1>. QED BY <1>2, <1>3 DEF FinalizeWalk

LEMMA RefaultKeepsOrder ==
  ASSUME NEW g \in GMMUs, NEW i \in 1..Len(g.replayQueue)
  PROVE  KeepsOrder(g, Refault(g, i))
<1>. DEFINE walk == [g.replayQueue[i] EXCEPT !.refaulted = TRUE]
            g0 == Unpark(g, i)
            g1 == [g0 EXCEPT !.walking = g0.walking \cup {walk}]
            h == SendUVMFault(g1, walk)
<1>1. Refault(g, i) = IF Full(g.uvmOut) THEN g1 ELSE h
  BY DEF Refault
<1>2. g0 \in GMMUs /\ g.replayQueue[i] \in Walks
  BY UnparkSound
<1>3. walk.page \in Pages /\ walk \in Walks
  BY <1>2 DEF Walks
<1>4. /\ g0.uvmIn = g.uvmIn /\ g0.invalidating = g.invalidating
      /\ g0.toInvalidate = g.toInvalidate /\ g0.uvmOut = g.uvmOut
  BY DEF Unpark, GMMUs
<1>. HIDE DEF g0, walk
<1>5. /\ g1 \in GMMUs /\ g1.uvmIn = g.uvmIn /\ g1.invalidating = g.invalidating
      /\ g1.toInvalidate = g.toInvalidate /\ g1.uvmOut = g.uvmOut
  BY <1>2, <1>3, <1>4 DEF GMMUs
<1>. HIDE DEF g1
<1>6. /\ h.uvmIn = g.uvmIn /\ h.invalidating = g.invalidating /\ h.toInvalidate = g.toInvalidate
      /\ h.uvmOut = Append(g.uvmOut, [kind |-> "Fault", page |-> walk.page])
  BY <1>5 DEF SendUVMFault, GMMUs
<1>. HIDE DEF h
<1>7. KeepsOrder(g, g1)
  BY <1>5, FaultKeepsOrder
<1>8. KeepsOrder(g, h)
  BY <1>3, <1>6, FaultKeepsOrder
<1>. QED BY <1>1, <1>7, <1>8

LEMMA ReplayFresh ==
  ASSUME Inv, Inv', Fresh, ReplayRange
  PROVE  Fresh'
<1>. DEFINE i == FirstNamed(gmmu)
            x == gmmu.replayQueue[i].page
<1>1. gmmu \in GMMUs /\ Replaying(gmmu) /\ UNCHANGED <<commands, flush, service, table>>
  BY SecondSound DEF ReplayRange, driver
<1>2. i = 0 \/ i \in 1..Len(gmmu.replayQueue)
  BY <1>1, FirstNamedPosition
<1>3. /\ i = 0 => gmmu' = ConsumeReplay(gmmu) /\ UNCHANGED tlb
      /\ i # 0 => \/ gmmu' = Refault(gmmu, i) /\ UNCHANGED tlb
                  \/ AnswerWalk(x) /\ gmmu' = Unpark(gmmu, i)
  BY DEF ReplayRange
<1>. HIDE DEF i
<1>4. CASE i = 0
  BY <1>1, <1>3, <1>4, ConsumeKeepsOrder, WalkFresh
<1>5. CASE i \in 1..Len(gmmu.replayQueue) /\ gmmu' = Refault(gmmu, i) /\ UNCHANGED tlb
  BY <1>1, <1>5, RefaultKeepsOrder, WalkFresh
<1>6. CASE i \in 1..Len(gmmu.replayQueue) /\ AnswerWalk(x) /\ gmmu' = Unpark(gmmu, i)
  <2>1. /\ gmmu'.uvmIn = gmmu.uvmIn /\ gmmu'.invalidating = gmmu.invalidating
        /\ gmmu'.toInvalidate = gmmu.toInvalidate /\ gmmu'.uvmOut = gmmu.uvmOut
    BY <1>1, <1>6 DEF Unpark, GMMUs
  <2>2. gmmu.replayQueue[i] \in Walks
    BY <1>1, <1>6, UnparkSound
  <2>3. x \in Pages
    BY <2>2 DEF Walks
  <2>4. KeepsOrder(gmmu, gmmu')
    BY <1>1, <2>1, FaultKeepsOrder
  <2>. QED BY <1>1, <1>6, <2>3, <2>4, WalkFresh
<1>. QED BY <1>2, <1>3, <1>4, <1>5, <1>6

LEMMA InvalidationFresh ==
  ASSUME Inv, Inv', Fresh, AdmitWalk \/ StartInvalidate \/ CompleteInvalidate
  PROVE  Fresh'
<1>1. gmmu \in GMMUs /\ tlb' = tlb /\ UNCHANGED <<commands, flush, service, table>>
  BY SecondSound DEF AdmitWalk, StartInvalidate, CompleteInvalidate, driver
<1>2. CASE AdmitWalk
  <2>1. /\ gmmu'.uvmIn = gmmu.uvmIn /\ gmmu'.invalidating = gmmu.invalidating
        /\ gmmu'.toInvalidate = gmmu.toInvalidate /\ gmmu'.uvmOut = gmmu.uvmOut
    BY <1>1, <1>2 DEF AdmitWalk, StartWalk, GMMUs
  <2>2. KeepsOrder(gmmu, gmmu')
    BY <1>1, <2>1, FaultKeepsOrder
  <2>. QED BY <1>1, <2>2, WalkFresh
<1>3. CASE StartInvalidate
  BY <1>1, <1>3, StartKeepsOrder, WalkFresh DEF StartInvalidate
<1>4. CASE CompleteInvalidate
  BY <1>1, <1>4, CompleteKeepsOrder, WalkFresh DEF CompleteInvalidate
<1>. QED BY <1>2, <1>3, <1>4

(* The invalidation passes a TLB; if it is the second, nothing local of    *)
(* the region is left there.                                               *)
LEMMA InvalidateFresh ==
  ASSUME Inv, Inv', Fresh, NEW n \in TLBNames, InvalidateTLB(n)
  PROVE  Fresh'
<1>. DEFINE t == tlb[L2]
            S == PagesIn(gmmu.invalidating)
<1>1. gmmu \in GMMUs /\ UNCHANGED <<commands, flush, service, table>>
      /\ gmmu' = CollectAck(gmmu, n) /\ tlb' = [tlb EXCEPT ![n] = InvalidateRange(@, S)]
  BY SecondSound DEF InvalidateTLB, driver
<1>2. /\ gmmu'.uvmIn = gmmu.uvmIn /\ gmmu'.invalidating = gmmu.invalidating
      /\ gmmu'.toInvalidate = gmmu.toInvalidate \ {n} /\ gmmu'.uvmOut = gmmu.uvmOut
  BY <1>1 DEF CollectAck, GMMUs
<1>3. L2 \in TLBNames /\ DOMAIN tlb = TLBNames /\ t \in TLBs(ReqsOf(L2))
  BY SecondSound
<1>4. CASE n # L2
  <2>1. KeepsOrder(gmmu, gmmu')
    BY <1>2, <1>4 DEF KeepsOrder, Underway, Passed
  <2>2. tlb'[L2] = tlb[L2]
    BY <1>1, <1>3, <1>4
  <2>3. \A r \in Regions : SameOrder(r)
    BY <1>1, <2>1, Quiet
  <2>. QED BY <2>2, <2>3, StaysFresh
<1>5. CASE n = L2
  <2>1. tlb'[L2] = InvalidateRange(t, S)
    BY <1>1, <1>3, <1>5
  <2>2. ASSUME NEW r \in Regions
        PROVE  Orderly(Pending(commands', gmmu', r), Flushing(commands', flush', r), service'[r], table'[r])
    <3>1. Orderly(Pending(commands, gmmu, r), Flushing(commands, flush, r), service[r], table[r])
      BY DEF Fresh, Ordered
    <3>2. Underway(gmmu', r) = Underway(gmmu, r)
      BY <1>2 DEF Underway
    <3>. QED BY <1>1, <3>1, <3>2 DEF Pending
  <2>3. ASSUME NEW r \in Regions, Settled(gmmu', service'[r], r), NEW p \in PagesIn(r)
        PROVE  Clean(tlb'[L2], p)
    <3>1. p \in Pages /\ (p \in S \/ gmmu.invalidating # r)
      BY DEF PagesIn
    <3>2. gmmu.invalidating # r => Settled(gmmu, service[r], r)
      BY <1>1, <1>2, <2>3 DEF Settled, Passed
    <3>3. Clean(t, p) \/ p \in S
      BY <3>1, <3>2 DEF Fresh
    <3>4. ~Open(t, p) => Returned(t, p) = 0
      BY <3>1, SecondReturned
    <3>. HIDE DEF t, S
    <3>5. Clean(InvalidateRange(t, S), p)
      BY <1>3, <3>1, <3>3, <3>4, InvalidateClean
    <3>. QED BY <2>1, <3>5
  <2>4. Ordered'
    BY <2>2 DEF Ordered
  <2>5. \A r \in Regions : Settled(gmmu', service'[r], r) => \A p \in PagesIn(r) : Clean(tlb'[L2], p)
    BY <2>3
  <2>. QED BY <2>4, <2>5 DEF Fresh
<1>. QED BY <1>4, <1>5

-----------------------------------------------------------------------------
(* The steps of the command processor and of the driver.                   *)

(* Steps that leave the second TLB alone. *)
LEMMA SecondAlone ==
  ASSUME Inv, Inv', Fresh, tlb' = tlb, \A r \in Regions : SameOrder(r) \/ Advances(r)
  PROVE  Fresh'
BY StaysFresh

LEMMA DispatchFresh ==
  ASSUME Inv, Inv', Fresh, Dispatch
  PROVE  Fresh'
<1>. DEFINE c == Head(commands)
            rest == Tail(commands)
<1>1. commands \in Seq(UVMCommands) /\ commands # <<>> /\ commands' = rest /\ gmmu \in GMMUs
      /\ tlb' = tlb /\ UNCHANGED <<service, table>>
  BY SecondSound DEF Inv, DriverType, Dispatch, driver
<1>2. c \in UVMCommands /\ rest \in Seq(UVMCommands)
  BY <1>1, CommandRegion
<1>3. ASSUME NEW x
      PROVE  Times(commands, x) = Times(rest, x) + (IF c = x THEN 1 ELSE 0) /\ Times(rest, x) \in Nat
  <2>1. Times(commands, x) = Times(rest, x) + (IF c = x THEN 1 ELSE 0)
    BY <1>1, TimesTail
  <2>2. Times(rest, x) \in Nat
    BY <1>2, TimesType
  <2>. QED BY <2>1, <2>2
<1>4. /\ c.kind = "Flush" => flush = None /\ flush' = [region |-> c.region, issued |-> FALSE] /\ UNCHANGED gmmu
      /\ c.kind # "Flush" => gmmu' = [gmmu EXCEPT !.uvmIn = Append(@, c)] /\ UNCHANGED flush
  BY DEF Dispatch
<1>. HIDE DEF c, rest
<1>5. ASSUME c.kind = "Flush", NEW r \in Regions PROVE SameOrder(r)
  <2>1. c # InvalidateCmd(r) /\ (c = FlushCmd(r) <=> c.region = r)
    BY <1>2, <1>5 DEF InvalidateCmd, FlushCmd, UVMCommands
  <2>2. Times(commands', InvalidateCmd(r)) = Times(commands, InvalidateCmd(r))
    BY <1>1, <1>3, <2>1
  <2>3. Times(commands, FlushCmd(r)) = Times(commands', FlushCmd(r)) + One(c.region = r)
    BY <1>1, <1>3, <2>1 DEF One
  <2>4. One(flush # None /\ flush.region = r) = 0
    BY <1>4, <1>5 DEF One
  <2>5. One(flush' # None /\ flush'.region = r) <= One(c.region = r)
    BY <1>4, <1>5 DEF One
  <2>6. Times(commands', FlushCmd(r)) \in Nat /\ One(c.region = r) \in Nat
        /\ One(flush' # None /\ flush'.region = r) \in Nat
    BY <1>1, <1>3 DEF One
  <2>7. Flushing(commands', flush', r) <= Flushing(commands, flush, r)
    BY <2>3, <2>4, <2>5, <2>6 DEF Flushing
  <2>8. Pending(commands', gmmu', r) = Pending(commands, gmmu, r) /\ (Passed(gmmu', r) => Passed(gmmu, r))
    BY <1>4, <1>5, <2>2 DEF Pending
  <2>. QED BY <1>1, <2>7, <2>8 DEF SameOrder
<1>6. ASSUME c.kind # "Flush", NEW r \in Regions PROVE SameOrder(r)
  <2>1. c # FlushCmd(r)
    BY <1>6 DEF FlushCmd
  <2>2. /\ Underway(gmmu', r) = Underway(gmmu, r) + (IF c = InvalidateCmd(r) THEN 1 ELSE 0)
        /\ Passed(gmmu', r) => Passed(gmmu, r)
    BY <1>1, <1>2, <1>4, <1>6, PassOn
  <2>3. Times(commands, InvalidateCmd(r)) = Times(commands', InvalidateCmd(r)) + (IF c = InvalidateCmd(r) THEN 1 ELSE 0)
        /\ Times(commands', InvalidateCmd(r)) \in Nat
    BY <1>1, <1>3
  <2>4. Times(commands', FlushCmd(r)) = Times(commands, FlushCmd(r))
    BY <1>1, <1>3, <2>1
  <2>5. Underway(gmmu, r) \in Nat /\ Flushing(commands, flush, r) \in Nat
    BY Counts
  <2>6. Pending(commands', gmmu', r) = Pending(commands, gmmu, r)
    BY <2>2, <2>3, <2>5 DEF Pending
  <2>7. Flushing(commands', flush', r) = Flushing(commands, flush, r)
    BY <1>4, <1>6, <2>4 DEF Flushing
  <2>. QED BY <1>1, <2>2, <2>5, <2>6, <2>7 DEF SameOrder
<1>. QED BY <1>1, <1>5, <1>6, SecondAlone

LEMMA FlushFresh ==
  ASSUME Inv, Inv', Fresh, IssueCacheRangeFlush \/ CompleteCacheRangeFlush
  PROVE  Fresh'
<1>. DEFINE x == flush.region
<1>1. tlb' = tlb /\ flush # None /\ UNCHANGED <<commands, gmmu, table>>
  BY DEF IssueCacheRangeFlush, CompleteCacheRangeFlush, driver
<1>2. flush \in [region : Regions, issued : BOOLEAN] /\ x \in Regions /\ service \in [Regions -> {"Idle",
        "Admitting", "Replacing", "Publishing", "Invalidating", "Flushing", "WritingBack"}]
  BY <1>1 DEF Inv, DriverType
<1>3. CASE IssueCacheRangeFlush
  <2>1. flush'.region = x /\ UNCHANGED service
    BY <1>2, <1>3 DEF IssueCacheRangeFlush, driver
  <2>2. ASSUME NEW r \in Regions PROVE SameOrder(r)
    <3>1. One(flush' # None /\ flush'.region = r) <= One(flush # None /\ flush.region = r)
      BY <1>1, <2>1 DEF One
    <3>2. Flushing(commands', flush', r) <= Flushing(commands, flush, r)
      <4>1. Times(commands, FlushCmd(r)) \in Nat /\ One(flush # None /\ flush.region = r) \in Nat
            /\ One(flush' # None /\ flush'.region = r) \in Nat
        BY Counts DEF One
      <4>. QED BY <1>1, <3>1, <4>1 DEF Flushing
    <3>. QED BY <1>1, <2>1, <3>2 DEF SameOrder, Pending
  <2>. QED BY <1>1, <2>2, SecondAlone
<1>4. CASE CompleteCacheRangeFlush
  <2>1. flush' = None /\ service' = [service EXCEPT ![x] = "WritingBack"]
    BY <1>4 DEF CompleteCacheRangeFlush
  <2>2. ASSUME NEW r \in Regions
        PROVE  Flushing(commands', flush', r) = Times(commands, FlushCmd(r))
    <3>1. One(flush' # None /\ flush'.region = r) = 0
      BY <2>1 DEF One
    <3>2. Times(commands, FlushCmd(r)) \in Nat
      BY Counts
    <3>. QED BY <1>1, <3>1, <3>2 DEF Flushing
  <2>3. ASSUME NEW r \in Regions, r # x PROVE SameOrder(r)
    <3>1. Flushing(commands', flush', r) <= Flushing(commands, flush, r)
      BY <2>2, Counts DEF Flushing
    <3>2. service'[r] = service[r]
      BY <1>2, <2>1, <2>3
    <3>. QED BY <1>1, <3>1, <3>2 DEF SameOrder, Pending
  <2>4. Advances(x)
    <3>1. Orderly(Pending(commands, gmmu, x), Flushing(commands, flush, x), service[x], table[x])
      BY <1>2 DEF Fresh, Ordered
    <3>2. One(flush # None /\ flush.region = x) = 1
      BY <1>1 DEF One
    <3>3. /\ Times(commands, FlushCmd(x)) \in Nat
          /\ Flushing(commands, flush, x) = Times(commands, FlushCmd(x)) + 1
          /\ Pending(commands, gmmu, x) \in Nat
      BY <1>2, <3>2, Counts DEF Flushing
    <3>4. One(service[x] = "Flushing") \in 0..1 /\ (service[x] # "Flushing" => One(service[x] = "Flushing") = 0)
      BY DEF One
    <3>5. service[x] = "Flushing" /\ Times(commands, FlushCmd(x)) = 0
      BY <3>1, <3>3, <3>4 DEF Orderly
    <3>6. Pending(commands, gmmu, x) <= 0 /\ table[x] = "Migrating"
      BY <3>1, <3>5 DEF Orderly, One
    <3>7. service'[x] = "WritingBack" /\ Flushing(commands', flush', x) = 0
      BY <1>2, <2>1, <2>2, <3>5
    <3>8. Orderly(Pending(commands', gmmu', x), Flushing(commands', flush', x), service'[x], table'[x])
      BY <1>1, <3>6, <3>7 DEF Orderly, One, Pending
    <3>. QED BY <3>5, <3>8 DEF Advances, Settled
  <2>5. \A r \in Regions : SameOrder(r) \/ Advances(r)
    BY <2>3, <2>4
  <2>. HIDE DEF x
  <2>. QED BY <1>1, <2>5, SecondAlone
<1>. QED BY <1>3, <1>4

LEMMA ReceiveFresh ==
  ASSUME Inv, Inv', Fresh, Receive
  PROVE  Fresh'
<1>. DEFINE m == Head(gmmu.uvmOut)
            x == m.region
<1>1. gmmu \in GMMUs /\ gmmu.uvmOut # <<>> /\ gmmu' = [gmmu EXCEPT !.uvmOut = Tail(gmmu.uvmOut)]
      /\ tlb' = tlb /\ UNCHANGED <<flush, table>>
  BY SecondSound DEF Receive
<1>2. m \in UVMMessages
  BY <1>1, GMMUFields, ElementsTail
<1>3. CASE m.kind = "Fault"
  <2>1. KeepsOrder(gmmu, gmmu') /\ UNCHANGED <<commands, service>>
    BY <1>1, <1>3, ReceiveOrder DEF Receive
  <2>2. \A r \in Regions : SameOrder(r)
    BY <1>1, <2>1, Quiet
  <2>. QED BY <1>1, <2>2, SecondAlone
<1>4. CASE m.kind # "Fault"
  <2>1. x \in Regions
    BY <1>2, <1>4 DEF UVMMessages
  <2>2. \A r \in Regions : /\ Underway(gmmu, r) = Underway(gmmu', r) + One(x = r)
                           /\ Passed(gmmu', r) => Passed(gmmu, r)
                           /\ x = r => Acknowledged(r) \in Elements(gmmu.uvmOut)
    BY <1>1, <1>4, ReceiveOrder
  <2>3. /\ service[x] = "Invalidating" => service' = [service EXCEPT ![x] = "Flushing"] /\ Send(FlushCmd(x))
        /\ service[x] # "Invalidating" => service' = [service EXCEPT ![x] = "Idle"] /\ Replay(x, FALSE)
    BY <1>4 DEF Receive, FlushCmd
  <2>4. /\ Orderly(Pending(commands, gmmu, x), Flushing(commands, flush, x), service[x], table[x])
        /\ service \in [Regions -> {"Idle", "Admitting", "Replacing", "Publishing",
                                    "Invalidating", "Flushing", "WritingBack"}]
    BY <2>1 DEF Fresh, Ordered, Inv, DriverType
  <2>. HIDE DEF x
  <2>5. \A r \in Regions : r # x => service'[r] = service[r] /\ One(x = r) = 0
    BY <2>3, <2>4 DEF One
  <2>6. ASSUME NEW r \in Regions
        PROVE  /\ Times(commands', InvalidateCmd(r)) = Times(commands, InvalidateCmd(r))
               /\ Times(commands', FlushCmd(r))
                    = Times(commands, FlushCmd(r)) + (IF service[x] = "Invalidating" THEN One(x = r) ELSE 0)
    <3>1. CASE service[x] = "Invalidating"
      BY <2>1, <2>3, <3>1, FlushCounts
    <3>2. CASE service[x] # "Invalidating"
      <4>1. Replay(x, FALSE) /\ Times(commands, FlushCmd(r)) \in Nat
        BY <2>3, <3>2, Counts
      <4>2. /\ Times(commands', InvalidateCmd(r)) = Times(commands, InvalidateCmd(r))
            /\ Times(commands', FlushCmd(r)) = Times(commands, FlushCmd(r))
        <5>1. FALSE \in BOOLEAN
          OBVIOUS
        <5>. QED BY <2>1, <4>1, <5>1, ReplayCounts
      <4>. QED BY <3>2, <4>1, <4>2
    <3>. QED BY <3>1, <3>2
  <2>7. ASSUME NEW r \in Regions, r # x PROVE SameOrder(r)
    <3>1. Underway(gmmu', r) \in Nat /\ Times(commands, FlushCmd(r)) \in Nat
      BY <1>1, Counts, UnderwayType DEF Inv, GPUSound
    <3>2. Underway(gmmu', r) = Underway(gmmu, r)
      BY <2>2, <2>5, <2>7, <3>1
    <3>3. Times(commands', FlushCmd(r)) = Times(commands, FlushCmd(r))
      BY <2>5, <2>6, <2>7, <3>1
    <3>4. Flushing(commands', flush', r) = Flushing(commands, flush, r) /\ Flushing(commands, flush, r) \in Nat
      BY <1>1, <3>3, Counts DEF Flushing
    <3>5. Pending(commands', gmmu', r) = Pending(commands, gmmu, r)
      BY <2>6, <3>2 DEF Pending
    <3>6. Flushing(commands', flush', r) <= Flushing(commands, flush, r)
      BY <3>4
    <3>7. service'[r] = service[r] /\ table'[r] = table[r] /\ (Passed(gmmu', r) => Passed(gmmu, r))
      BY <1>1, <2>2, <2>5, <2>7
    <3>. QED BY <3>5, <3>6, <3>7 DEF SameOrder
  <2>8. One(x = x) = 1 /\ One(service[x] \in {"Invalidating", "Publishing"}) \in 0..1
        /\ (service[x] \notin {"Invalidating", "Publishing"} => One(service[x] \in {"Invalidating", "Publishing"}) = 0)
    BY DEF One
  <2>9. /\ Underway(gmmu', x) \in Nat /\ Times(commands, InvalidateCmd(x)) \in Nat
        /\ Underway(gmmu, x) = Underway(gmmu', x) + 1
        /\ Times(commands, FlushCmd(x)) \in Nat /\ One(flush # None /\ flush.region = x) \in 0..1
    BY <2>1, <2>2, <2>8, Counts, UnderwayType DEF Inv, GPUSound
  <2>10. Pending(commands', gmmu', x) = 0 /\ service[x] \in {"Invalidating", "Publishing"}
    <3>1. Times(commands, InvalidateCmd(x)) + Underway(gmmu', x) + 1
            <= One(service[x] \in {"Invalidating", "Publishing"})
      <4>1. Pending(commands, gmmu, x) <= One(service[x] \in {"Invalidating", "Publishing"})
        BY <2>4 DEF Orderly
      <4>2. Pending(commands, gmmu, x) = Times(commands, InvalidateCmd(x)) + Underway(gmmu', x) + 1
        BY <2>9 DEF Pending
      <4>. QED BY <4>1, <4>2
    <3>2. Times(commands', InvalidateCmd(x)) = Times(commands, InvalidateCmd(x))
      BY <2>1, <2>6
    <3>. QED BY <2>8, <2>9, <3>1, <3>2 DEF Pending
  <2>11. Flushing(commands, flush, x) = 0 /\ Flushing(commands, flush, x) \in Nat
    <3>1. One(service[x] = "Flushing") = 0
      BY <2>10 DEF One
    <3>2. Flushing(commands, flush, x) <= 0
      BY <2>4, <3>1 DEF Orderly
    <3>. QED BY <2>1, <3>2, Counts
  <2>12. Times(commands, FlushCmd(x)) = 0 /\ One(flush # None /\ flush.region = x) = 0
    BY <2>9, <2>11 DEF Flushing
  <2>13. One(flush' # None /\ flush'.region = x) = 0
    BY <1>1, <2>12
  <2>14. CASE service[x] = "Invalidating"
    <3>1. service'[x] = "Flushing" /\ table'[x] = "Migrating"
      BY <1>1, <2>1, <2>3, <2>4, <2>14 DEF Orderly
    <3>2. Times(commands', FlushCmd(x)) = 1
      BY <2>1, <2>6, <2>8, <2>12, <2>14
    <3>3. Flushing(commands', flush', x) = 1
      BY <2>13, <3>2 DEF Flushing
    <3>4. Orderly(Pending(commands', gmmu', x), Flushing(commands', flush', x), service'[x], table'[x])
      BY <2>10, <3>1, <3>3 DEF Orderly, One
    <3>5. Settled(gmmu, service[x], x)
      BY <2>1, <2>2, <2>14 DEF Settled, Passed
    <3>6. Advances(x)
      BY <3>4, <3>5 DEF Advances
    <3>. QED BY <1>1, <2>7, <3>6, SecondAlone
  <2>15. CASE service[x] # "Invalidating"
    <3>1. service'[x] = "Idle"
      BY <2>1, <2>3, <2>4, <2>15
    <3>2. Times(commands', FlushCmd(x)) = 0
      BY <2>1, <2>6, <2>12, <2>15
    <3>3. Flushing(commands', flush', x) = 0
      BY <2>13, <3>2 DEF Flushing
    <3>4. Orderly(Pending(commands', gmmu', x), Flushing(commands', flush', x), service'[x], table'[x])
      BY <2>10, <3>1, <3>3 DEF Orderly, One
    <3>5. Advances(x)
      BY <3>1, <3>4 DEF Advances, Settled
    <3>. QED BY <1>1, <2>7, <3>5, SecondAlone
  <2>. QED BY <2>14, <2>15
<1>. QED BY <1>3, <1>4

(* A step of the driver on region x, that sends n invalidations of it. *)
LEMMA RegionFresh ==
  ASSUME Inv, Inv', Fresh, UNCHANGED <<gmmu, tlb, flush>>, NEW x \in Regions, NEW n \in 0..1,
         NEW state, NEW pte,
         service' = [service EXCEPT ![x] = state], table' = [table EXCEPT ![x] = pte],
         \A r \in Regions : Times(commands', FlushCmd(r)) = Times(commands, FlushCmd(r)),
         \A r \in Regions : Times(commands', InvalidateCmd(r))
                              = Times(commands, InvalidateCmd(r)) + (IF x = r THEN n ELSE 0),
         Orderly(Pending(commands, gmmu, x) + n, Flushing(commands, flush, x), state, pte),
         Settled(gmmu, state, x) => Settled(gmmu, service[x], x)
  PROVE  Fresh'
<1>1. DOMAIN service = Regions /\ DOMAIN table = Regions
  BY DEF Inv, DriverType
<1>2. ASSUME NEW r \in Regions
      PROVE  /\ Flushing(commands', flush', r) = Flushing(commands, flush, r)
             /\ Flushing(commands, flush, r) \in Nat
             /\ Pending(commands', gmmu', r) = Pending(commands, gmmu, r) + (IF x = r THEN n ELSE 0)
             /\ Pending(commands, gmmu, r) \in Nat
  <2>1. Times(commands, InvalidateCmd(r)) \in Nat /\ Underway(gmmu, r) \in Nat
        /\ Flushing(commands, flush, r) \in Nat /\ Pending(commands, gmmu, r) \in Nat
    BY Counts
  <2>2. Flushing(commands', flush', r) = Flushing(commands, flush, r)
    BY DEF Flushing
  <2>3. Pending(commands', gmmu', r) = Pending(commands, gmmu, r) + (IF x = r THEN n ELSE 0)
    BY <2>1 DEF Pending
  <2>. QED BY <2>1, <2>2, <2>3
<1>3. ASSUME NEW r \in Regions, r # x PROVE SameOrder(r)
  <2>1. Pending(commands', gmmu', r) = Pending(commands, gmmu, r)
    BY <1>2, <1>3
  <2>2. Flushing(commands', flush', r) <= Flushing(commands, flush, r)
    BY <1>2
  <2>3. service'[r] = service[r] /\ table'[r] = table[r]
    BY <1>1, <1>3
  <2>. QED BY <2>1, <2>2, <2>3 DEF SameOrder
<1>4. Advances(x)
  <2>1. service'[x] = state /\ table'[x] = pte
    BY <1>1
  <2>2. Pending(commands', gmmu', x) = Pending(commands, gmmu, x) + n
        /\ Flushing(commands', flush', x) = Flushing(commands, flush, x)
    BY <1>2
  <2>. QED BY <2>1, <2>2 DEF Advances
<1>. QED BY <1>3, <1>4, SecondAlone

LEMMA DriverFresh ==
  ASSUME Inv, Inv', Fresh, DriverStep
  PROVE  Fresh'
<1>1. \A x \in Regions :
        /\ Orderly(Pending(commands, gmmu, x), Flushing(commands, flush, x), service[x], table[x])
        /\ Pending(commands, gmmu, x) \in Nat /\ Flushing(commands, flush, x) \in Nat
  BY Counts DEF Fresh, Ordered
<1>2. \A r \in Regions : Times(commands, InvalidateCmd(r)) \in Nat /\ Times(commands, FlushCmd(r)) \in Nat
  BY Counts
<1>3. /\ service \in [Regions -> {"Idle", "Admitting", "Replacing", "Publishing",
                                  "Invalidating", "Flushing", "WritingBack"}]
      /\ table \in [Regions -> PTEs]
  BY DEF Inv, DriverType
(* What is known of a region by what the driver does with it. *)
<1>4. ASSUME NEW x \in Regions, service[x] \in {"Idle", "Admitting", "Replacing", "WritingBack"}
      PROVE  Pending(commands, gmmu, x) = 0 /\ Flushing(commands, flush, x) = 0 /\ ~Passed(gmmu, x)
  <2>1. One(service[x] \in {"Invalidating", "Publishing"}) = 0 /\ One(service[x] = "Flushing") = 0
    BY <1>4 DEF One
  <2>2. Pending(commands, gmmu, x) = 0 /\ Flushing(commands, flush, x) = 0
    BY <1>1, <2>1 DEF Orderly
  <2>3. Underway(gmmu, x) \in Nat /\ Times(commands, InvalidateCmd(x)) \in Nat
    BY Counts
  <2>4. Underway(gmmu, x) = 0
    BY <2>2, <2>3 DEF Pending
  <2>5. ~Passed(gmmu, x)
    BY <2>4, SecondSound, PassedUnderway
  <2>. QED BY <2>2, <2>5
(* A region becomes idle, or is admitted, with or without a replay. *)
<1>5. ASSUME NEW x \in Regions, service[x] \in {"Idle", "Admitting", "Replacing", "WritingBack"},
             NEW state, state \in {"Idle", "Admitting", "Replacing"}, NEW pte,
             service' = [service EXCEPT ![x] = state], table' = [table EXCEPT ![x] = pte],
             UNCHANGED <<gmmu, tlb, flush>>,
             commands' = commands \/ \E refused \in BOOLEAN : Replay(x, refused)
      PROVE  Fresh'
  <2>1. \A r \in Regions : /\ Times(commands', FlushCmd(r)) = Times(commands, FlushCmd(r))
                           /\ Times(commands', InvalidateCmd(r)) = Times(commands, InvalidateCmd(r))
    BY <1>5, ReplayCounts
  <2>2. \A r \in Regions : Times(commands', InvalidateCmd(r))
                             = Times(commands, InvalidateCmd(r)) + (IF x = r THEN 0 ELSE 0)
    BY <1>2, <2>1
  <2>3. Pending(commands, gmmu, x) = 0 /\ Flushing(commands, flush, x) = 0
    BY <1>4, <1>5
  <2>4. Orderly(Pending(commands, gmmu, x) + 0, Flushing(commands, flush, x), state, pte)
    BY <1>5, <2>3 DEF Orderly, One
  <2>5. ~Settled(gmmu, state, x)
    BY <1>5 DEF Settled
  <2>6. 0 \in 0..1
    OBVIOUS
  <2>. QED BY <1>5, <2>1, <2>2, <2>4, <2>5, <2>6, RegionFresh
(* A region is invalidated. *)
<1>6. ASSUME NEW x \in Regions, service[x] \in {"Idle", "Replacing"},
             NEW state, state \in {"Publishing", "Invalidating"}, NEW pte,
             state = "Invalidating" => pte = "Migrating",
             service' = [service EXCEPT ![x] = state], table' = [table EXCEPT ![x] = pte],
             UNCHANGED <<gmmu, tlb, flush>>, Send(InvalidateCmd(x))
      PROVE  Fresh'
  <2>1. \A r \in Regions : /\ Times(commands', FlushCmd(r)) = Times(commands, FlushCmd(r))
                           /\ Times(commands', InvalidateCmd(r)) = Times(commands, InvalidateCmd(r)) + One(x = r)
    BY <1>6, InvalidateCounts
  <2>2. \A r \in Regions : Times(commands', InvalidateCmd(r))
                             = Times(commands, InvalidateCmd(r)) + (IF x = r THEN 1 ELSE 0)
    BY <2>1 DEF One
  <2>3. Pending(commands, gmmu, x) = 0 /\ Flushing(commands, flush, x) = 0 /\ ~Passed(gmmu, x)
    BY <1>4, <1>6
  <2>4. Orderly(Pending(commands, gmmu, x) + 1, Flushing(commands, flush, x), state, pte)
    BY <1>6, <2>3 DEF Orderly, One
  <2>5. ~Settled(gmmu, state, x)
    BY <1>6, <2>3 DEF Settled
  <2>6. 1 \in 0..1
    OBVIOUS
  <2>. QED BY <1>6, <2>1, <2>2, <2>4, <2>5, <2>6, RegionFresh
<1>7. ASSUME NEW r \in Regions, ServeResident(r) \/ Refuse(r)
      PROVE  Fresh'
  <2>1. /\ service[r] = "Idle" /\ UNCHANGED <<gmmu, tlb, flush, service, table>>
        /\ \E refused \in BOOLEAN : Replay(r, refused)
    BY <1>7 DEF ServeResident, Refuse, gpu
  <2>2. service' = [service EXCEPT ![r] = "Idle"] /\ table' = [table EXCEPT ![r] = table[r]]
    BY <1>3, <2>1
  <2>. QED BY <1>5, <2>1, <2>2
<1>8. ASSUME NEW r \in Regions, MapRemote(r)
      PROVE  Fresh'
  <2>1. /\ service[r] = "Idle" /\ UNCHANGED <<gmmu, tlb, flush, service>>
        /\ table' = [table EXCEPT ![r] = "Remote"] /\ Replay(r, FALSE)
    BY <1>8 DEF MapRemote, gpu
  <2>2. service' = [service EXCEPT ![r] = "Idle"]
    BY <1>3, <2>1
  <2>. QED BY <1>5, <2>1, <2>2
<1>9. ASSUME NEW r \in Regions, Admit(r)
      PROVE  Fresh'
  <2>. DEFINE state == IF table[r] = "Remote" THEN "Replacing" ELSE "Admitting"
  <2>1. /\ service[r] = "Idle" /\ UNCHANGED <<gmmu, tlb, flush, commands>>
        /\ service' = [service EXCEPT ![r] = state] /\ table' = [table EXCEPT ![r] = "Migrating"]
    BY <1>9 DEF Admit, gpu
  <2>2. state \in {"Idle", "Admitting", "Replacing"}
    OBVIOUS
  <2>. HIDE DEF state
  <2>. QED BY <1>5, <2>1, <2>2
<1>10. ASSUME NEW r \in Regions, FinishAdmission(r)
      PROVE  Fresh'
  <2>1. service[r] \in {"Admitting", "Replacing"} /\ UNCHANGED <<gmmu, tlb, flush>>
        /\ table' = [table EXCEPT ![r] = "Local"]
    BY <1>10 DEF FinishAdmission, gpu
  <2>2. CASE service[r] = "Replacing"
    <3>1. service' = [service EXCEPT ![r] = "Publishing"] /\ Send(InvalidateCmd(r))
      BY <1>10, <2>2 DEF FinishAdmission, InvalidateCmd
    <3>. QED BY <1>6, <2>1, <2>2, <3>1
  <2>3. CASE service[r] # "Replacing"
    <3>1. service' = [service EXCEPT ![r] = "Idle"] /\ Replay(r, FALSE)
      BY <1>10, <2>3 DEF FinishAdmission
    <3>. QED BY <1>5, <2>1, <3>1
  <2>. QED BY <2>2, <2>3
<1>11. ASSUME NEW r \in Regions, BeginEviction(r)
      PROVE  Fresh'
  <2>1. /\ service[r] = "Idle" /\ UNCHANGED <<gmmu, tlb, flush>>
        /\ service' = [service EXCEPT ![r] = "Invalidating"]
        /\ table' = [table EXCEPT ![r] = "Migrating"] /\ Send(InvalidateCmd(r))
    BY <1>11 DEF BeginEviction, gpu, InvalidateCmd
  <2>. QED BY <1>6, <2>1
<1>12. ASSUME NEW r \in Regions, FinishEviction(r)
      PROVE  Fresh'
  <2>1. /\ service[r] = "WritingBack" /\ UNCHANGED <<gmmu, tlb, flush, commands>>
        /\ service' = [service EXCEPT ![r] = "Idle"] /\ table' = [table EXCEPT ![r] = HostPTE]
    BY <1>12 DEF FinishEviction, gpu
  <2>. QED BY <1>5, <2>1
<1>. QED BY <1>7, <1>8, <1>9, <1>10, <1>11, <1>12 DEF DriverStep

-----------------------------------------------------------------------------
LEMMA InitFresh == Init => Fresh
<1>. SUFFICES ASSUME Init PROVE Fresh
  OBVIOUS
<1>1. ASSUME NEW r \in Regions
      PROVE  Orderly(Pending(commands, gmmu, r), Flushing(commands, flush, r), service[r], table[r])
  <2>1. /\ commands = <<>> /\ gmmu.uvmIn = <<>> /\ gmmu.uvmOut = <<>> /\ gmmu.invalidating = None
        /\ flush = None /\ service[r] = "Idle"
    BY DEF Init, InitialGMMU
  <2>2. None # r
    BY GMMUAssumption
  <2>3. One(gmmu.invalidating = r) = 0 /\ One(flush # None /\ flush.region = r) = 0
    BY <2>1, <2>2 DEF One
  <2>4. Pending(commands, gmmu, r) = 0 /\ Flushing(commands, flush, r) = 0
    BY <2>1, <2>3, TimesNone DEF Pending, Underway, Flushing
  <2>. QED BY <2>1, <2>4 DEF Orderly, One
<1>2. \A r \in Regions : ~Settled(gmmu, service[r], r)
  BY DEF Init, Settled
<1>. QED BY <1>1, <1>2 DEF Fresh, Ordered

LEMMA StillFresh ==
  ASSUME Inv, Inv', Fresh, UNCHANGED <<gmmu, tlb, commands, flush, service, table>>
  PROVE  Fresh'
<1>1. KeepsOrder(gmmu, gmmu')
  BY DEF KeepsOrder
<1>. QED BY <1>1, WalkFresh

(* The translators do not touch what the second TLB has. *)
LEMMA TranslatorFresh ==
  ASSUME Inv, Inv', Fresh, NEW a, Translate(a)
  PROVE  Fresh'
<1>1. a \in Accesses /\ UNCHANGED <<gmmu, commands, flush, service, table>>
  BY AccessesOf DEF Inv, Translate, driver
<1>2. a.core # L2 /\ a.core \in TLBNames /\ L2 \in TLBNames /\ DOMAIN tlb = TLBNames
  BY <1>1, Names, SecondSound
<1>3. tlb' = [tlb EXCEPT ![a.core].topIn = Append(@, a)]
  BY DEF Translate
<1>4. tlb'[L2] = tlb[L2]
  BY <1>2, <1>3
<1>5. KeepsOrder(gmmu, gmmu')
  BY <1>1 DEF KeepsOrder
<1>6. \A r \in Regions : SameOrder(r)
  BY <1>1, <1>5, Quiet
<1>. QED BY <1>4, <1>6, StaysFresh

LEMMA StepFresh ==
  ASSUME Inv, Inv', Fresh, [Next]_vars
  PROVE  Fresh'
<1>1. ASSUME NEW a \in Accesses, Complete(a)
      PROVE  Fresh'
  BY <1>1, StillFresh DEF Complete, driver
<1>2. ASSUME NEW c \in Cores, ParseTranslation(c) \/ RouteBusy(c) \/ Drained(c)
      PROVE  Fresh'
  BY <1>2, StillFresh DEF ParseTranslation, RouteBusy, Drained, driver
<1>3. CASE UNCHANGED vars
  BY <1>3, StillFresh DEF vars
<1>. QED BY <1>1, <1>2, <1>3, TranslatorFresh, TLBsFresh, FinalizeFresh, ReplayFresh, InvalidationFresh,
            InvalidateFresh, DispatchFresh, FlushFresh, ReceiveFresh, DriverFresh DEF Next, DriverStep

LEMMA FreshAlways == Spec => [](Inv /\ Fresh)
<1>1. Init => Inv /\ Fresh
  BY InitInv, InitFresh
<1>2. Inv /\ Fresh /\ [Next]_vars => (Inv /\ Fresh)'
  BY StepInv, StepFresh
<1>. QED BY <1>1, <1>2, PTL DEF Spec

(* From the acknowledgement of the invalidation of an eviction to its end, *)
(* the second TLB has no local translation of the region                   *)
(* (rangeinvalidate.go:57), whatever answers of the GMMU were on their way *)
(* when the page table changed.                                            *)
THEOREM SecondTLBNeverStale == Spec => []L2NeverStale
<1>1. Fresh => L2NeverStale
  <2>. SUFFICES ASSUME Fresh, NEW p \in Pages, service[RegionOf[p]] \in {"Flushing", "WritingBack"}
                PROVE  ~(Found(tlb[L2], p) /\ tlb[L2].block[tlb[L2].index[p]].mapping = "Local")
    BY DEF L2NeverStale
  <2>1. RegionOf[p] \in Regions /\ p \in PagesIn(RegionOf[p])
    BY GMMUAssumption DEF PagesIn
  <2>2. Clean(tlb[L2], p)
    BY <2>1 DEF Fresh, Settled
  <2>. QED BY <2>2 DEF Clean
<1>. QED BY <1>1, FreshAlways, PTL
=============================================================================
