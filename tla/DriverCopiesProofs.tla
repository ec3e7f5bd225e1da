------------------------- MODULE DriverCopiesProofs -------------------------
(***************************************************************************)
(* Every request of the driver is answered to whom it belongs, once: for   *)
(* every program, number of queues and pages, and every migration.         *)
(*                                                                         *)
(* Counted(r) is OwedOnce for one request, with the debt read off the      *)
(* fields of the request.  A step either moves a request from one place to *)
(* another, or changes its debt together with its places.                  *)
(*                                                                         *)
(* The second part is about data: no copy finds newer data in the caches,  *)
(* since every flush that a copy needs stays before it (FlushedFirst).     *)
(***************************************************************************)
EXTENDS DriverCopies, OrderedListsProofs

Commands == [kind : Kinds, pages : SUBSET Pages]

(* Whether r is owed a response. *)
Owes(r) ==
  IF r.queue = None
  THEN location[r.page] = IF r.kind = "H2D" THEN "ToGPU" ELSE "ToHost"
  ELSE r \in reqs[r.queue]

Counted(r) == Places(r) = IF Owes(r) THEN 1 ELSE 0

(* A queue awaits responses to requests of its own, for its first command. *)
OwnRequests ==
  \A q \in Queues : /\ running[q] => commands[q] # <<>>
                    /\ ~running[q] => reqs[q] = {}
                    /\ \A r \in reqs[q] : r.queue = q

(* The deferred command is the first of its queue and waits for its flush. *)
Deferred ==
  pendingD2H # None =>
    /\ running[pendingD2H]
    /\ Head(commands[pendingD2H]).kind = "D2H"
    /\ reqs[pendingD2H] \subseteq {FlushOf(pendingD2H)}

IInv ==
  /\ TypeOK
  /\ \A r \in Requests : Counted(r)
  /\ OwnRequests
  /\ Deferred

-----------------------------------------------------------------------------
(* Requests.                                                               *)

LEMMA RequestKinds ==
  /\ None \notin Queues /\ None \notin Requests
  /\ \A r \in Requests :
       /\ r.queue \in Queues \cup {None}
       /\ r.queue = None => r \in Migrations /\ r.page \in Managed
       /\ r.kind = "Launch" <=> r \in Launches
       /\ r.kind = "Flush" <=> r \in Flushes
       /\ r.kind \in {"H2D", "D2H"} <=> r \in Copies
       /\ r.queue \in Queues /\ r.kind = "Flush" => r = FlushOf(r.queue)
  /\ \A q \in Queues : /\ FlushOf(q) \in Requests /\ FlushOf(q).queue = q
                       /\ LaunchOf(q) \in Requests /\ LaunchOf(q).queue = q
  /\ \A p \in Managed, kind \in {"H2D", "D2H"} :
       Copy(kind, None, p) \in Migrations /\ Copy(kind, None, p) \in Requests
<1>1. None \notin Queues /\ None \notin Requests
  BY CopiesAssumption
<1>. QED
  BY <1>1 DEF Requests, Launches, Flushes, Copies, UserCopies, Migrations,
              FlushOf, LaunchOf, Copy

(* The two ways of saying what is owed. *)
LEMMA OwedIsOwes ==
  ASSUME TypeOK, OwnRequests, NEW r \in Requests
  PROVE  r \in Owed <=> Owes(r)
<1>1. \A q \in Queues : r \in reqs[q] => r.queue = q
  BY DEF OwnRequests
<1>0. r \in Owed <=> \/ \E q \in Queues : r \in reqs[q]
                     \/ \E p \in Managed : location[p] = "ToGPU" /\ r = Copy("H2D", None, p)
                     \/ \E p \in Managed : location[p] = "ToHost" /\ r = Copy("D2H", None, p)
  <2>1. r \in UNION {reqs[q] : q \in Queues} <=> \E q \in Queues : r \in reqs[q]
    OBVIOUS
  <2>2. \A L, kind : r \in {Copy(kind, None, p) : p \in {x \in Managed : location[x] = L}}
                     <=> \E p \in Managed : location[p] = L /\ r = Copy(kind, None, p)
    OBVIOUS
  <2>3. r \in Owed <=> \/ r \in UNION {reqs[q] : q \in Queues}
                       \/ r \in {Copy("H2D", None, p) : p \in {x \in Managed : location[x] = "ToGPU"}}
                       \/ r \in {Copy("D2H", None, p) : p \in {x \in Managed : location[x] = "ToHost"}}
    BY Zenon DEF Owed
  <2>. QED BY <2>1, <2>2, <2>3
<1>2. CASE r.queue # None
  <2>1. r.queue \in Queues
    BY <1>2, RequestKinds
  <2>2. \A kind, p : r # Copy(kind, None, p)
    BY <1>2 DEF Copy
  <2>. QED BY <1>0, <1>1, <1>2, <2>1, <2>2 DEF Owes
<1>3. CASE r.queue = None
  <2>1. r \in Migrations /\ r.page \in Managed
    BY <1>3, RequestKinds
  <2>2. r = Copy(r.kind, None, r.page) /\ r.kind \in {"H2D", "D2H"}
    BY <2>1 DEF Migrations, Copy
  <2>3. \A q \in Queues : r \notin reqs[q]
    BY <1>1, <1>3, RequestKinds
  <2>4. \A kind, p : r = Copy(kind, None, p) => kind = r.kind /\ p = r.page
    BY DEF Copy
  <2>. QED BY <1>0, <1>3, <2>1, <2>2, <2>3, <2>4 DEF Owes
<1>. QED BY <1>2, <1>3

(* The lists that requests are in, as lists of requests. *)
LEMMA Lists ==
  ASSUME TypeOK
  PROVE  /\ awaiting \in Seq(Requests) /\ toGPU \in Seq(Requests)
         /\ toDMA \in Seq(Requests) /\ returned \in Seq(Requests)
         /\ \A r : /\ Times(awaiting, r) \in Nat /\ Times(toGPU, r) \in Nat
                   /\ Times(toDMA, r) \in Nat /\ Times(returned, r) \in Nat
<1>1. /\ awaiting \in Seq(Requests) /\ toGPU \in Seq(Requests)
      /\ toDMA \in Seq(Requests) /\ returned \in Seq(Requests)
  BY DEF TypeOK, Requests, Copies
<1>. QED BY <1>1, TimesType

(* The copies of a command: each once, and nobody else's. *)
LEMMA CopyList ==
  ASSUME TypeOK, NEW q \in Queues, commands[q] # <<>>,
         Head(commands[q]).kind \in {"H2D", "D2H"}
  PROVE  /\ CopyRequests(q) \in Seq(UserCopies) /\ CopyRequests(q) \in Seq(Requests)
         /\ \A r \in Elements(CopyRequests(q)) :
              r \in Requests /\ r.queue = q /\ r.kind \in {"H2D", "D2H"}
         /\ \A r : Times(CopyRequests(q), r) = IF r \in Elements(CopyRequests(q)) THEN 1 ELSE 0
<1>. DEFINE cmd == Head(commands[q])
            on  == Ascending(OnGPU(cmd.pages))
            s   == CopyRequests(q)
<1>1. cmd \in Commands
  <2>1. commands[q] \in Seq(Commands)
    BY DEF TypeOK, Commands
  <2>. QED BY <2>1
<1>2. OnGPU(cmd.pages) \in SUBSET Pages /\ Pages \subseteq Int /\ IsFiniteSet(Pages)
  BY <1>1, CopiesAssumption DEF OnGPU, Commands
<1>3. OnGPU(cmd.pages) \in SUBSET Int /\ IsFiniteSet(OnGPU(cmd.pages))
  BY <1>2, FS_Subset
<1>4. on \in Seq(OnGPU(cmd.pages)) /\ Len(on) \in Nat
  BY <1>3, AscendingList
<1>5. \A i, j \in 1..Len(on) : on[i] = on[j] => i = j
  BY <1>3, AscendingOnce
<1>6. \A i \in 1..Len(on) : on[i] \in Pages
  BY <1>2, <1>4
<1>. HIDE DEF on
<1>7. s = [i \in 1..Len(on) |-> Copy(cmd.kind, q, on[i])]
  BY Zenon DEF CopyRequests, on
<1>8. \A i \in 1..Len(on) : Copy(cmd.kind, q, on[i]) \in UserCopies
  BY <1>6 DEF Copy, UserCopies
<1>. HIDE DEF s
<1>9. s \in Seq(UserCopies) /\ Len(s) = Len(on) /\ \A i \in 1..Len(s) : s[i] = Copy(cmd.kind, q, on[i])
  BY <1>4, <1>7, <1>8
<1>10. s \in Seq(Requests)
  BY <1>9 DEF Requests, Copies
<1>11. \A i, j \in 1..Len(s) : s[i] = s[j] => i = j
  <2>. SUFFICES ASSUME NEW i \in 1..Len(s), NEW j \in 1..Len(s), s[i] = s[j] PROVE i = j
    OBVIOUS
  <2>1. s[i] = Copy(cmd.kind, q, on[i]) /\ s[j] = Copy(cmd.kind, q, on[j])
    BY <1>9
  <2>3. \A kind, a, b : Copy(kind, q, a) = Copy(kind, q, b) => a = b
    BY DEF Copy
  <2>2. on[i] = on[j]
    BY <2>1, <2>3, Zenon
  <2>. QED BY <1>5, <1>9, <2>2
<1>12. \A r : Times(s, r) = IF r \in Elements(s) THEN 1 ELSE 0
  BY <1>10, <1>11, TimesOnce
<1>13. \A r \in Elements(s) : r \in Requests /\ r.queue = q /\ r.kind \in {"H2D", "D2H"}
  <2>. SUFFICES ASSUME NEW i \in 1..Len(s)
                PROVE  s[i] \in Requests /\ s[i].queue = q /\ s[i].kind \in {"H2D", "D2H"}
    BY Zenon DEF Elements
  <2>1. s[i] = Copy(cmd.kind, q, on[i]) /\ i \in 1..Len(on)
    BY <1>9
  <2>4. s[i] \in UserCopies
    BY <1>8, <2>1, Zenon
  <2>3. s[i] \in Requests
    BY <2>4 DEF Requests, Copies
  <2>2. s[i].queue = q
    BY <2>1 DEF Copy
  <2>. QED BY <2>4, <2>3, <2>2 DEF UserCopies
<1>. QED BY <1>9, <1>10, <1>12, <1>13 DEF s
-----------------------------------------------------------------------------
(* Steps of a queue.                                                       *)

(* Settle leaves the requests R to the command; whether it completes makes *)
(* no difference to what is owed.                                          *)
LEMMA Settled ==
  ASSUME TypeOK, OwnRequests, NEW q \in Queues, commands[q] # <<>>,
         NEW R \in SUBSET Requests, \A r \in R : r.queue = q,
         Settle(q, R) \/ Await(q, R)
  PROVE  /\ reqs' = [reqs EXCEPT ![q] = R]
         /\ commands' \in [Queues -> Seq(Commands)]
         /\ running' \in [Queues -> BOOLEAN]
         /\ reqs' \in [Queues -> SUBSET Requests]
         /\ \A p \in Queues \ {q} : commands'[p] = commands[p] /\ running'[p] = running[p]
         /\ R # {} \/ Await(q, R) => commands'[q] = commands[q] /\ running'[q]
         /\ OwnRequests'
<1>1. /\ commands \in [Queues -> Seq(Commands)] /\ running \in [Queues -> BOOLEAN]
      /\ reqs \in [Queues -> SUBSET Requests]
  BY DEF TypeOK, Commands
<1>2. CASE R = {} /\ Complete(q)
  <2>1. Tail(commands[q]) \in Seq(Commands)
    BY <1>1
  <2>2. /\ commands' = [commands EXCEPT ![q] = Tail(@)]
        /\ running' = [running EXCEPT ![q] = FALSE]
        /\ reqs' = [reqs EXCEPT ![q] = R]
    BY <1>2 DEF Complete
  <2>3. OwnRequests'
    BY <1>1, <1>2, <2>2 DEF OwnRequests
  <2>4. ~Await(q, R)
    BY <1>1, <2>2 DEF Await
  <2>. QED BY <1>1, <1>2, <2>1, <2>2, <2>3, <2>4
<1>3. CASE Await(q, R)
  <2>1. /\ commands' = commands
        /\ running' = [running EXCEPT ![q] = TRUE]
        /\ reqs' = [reqs EXCEPT ![q] = R]
    BY <1>3 DEF Await
  <2>2. OwnRequests'
    BY <1>1, <2>1 DEF OwnRequests
  <2>. QED BY <1>1, <2>1, <2>2
<1>. QED BY <1>2, <1>3 DEF Settle

(* What that means for the debt. *)
LEMMA SettledDebt ==
  ASSUME TypeOK, NEW q \in Queues, NEW R, reqs' = [reqs EXCEPT ![q] = R],
         UNCHANGED location, NEW r \in Requests
  PROVE  Owes(r)' <=> IF r.queue = q THEN r \in R ELSE Owes(r)
<1>1. reqs \in [Queues -> SUBSET Requests]
  BY DEF TypeOK
<1>2. r.queue \in Queues \cup {None} /\ q # None
  BY RequestKinds
<1>. QED BY <1>1, <1>2 DEF Owes

(* The requests of a queue that is not running are nowhere. *)
LEMMA IdleQueue ==
  ASSUME IInv, NEW q \in Queues, ~running[q]
  PROVE  /\ reqs[q] = {} /\ pendingD2H # q
         /\ \A r \in Requests : r.queue = q => ~Owes(r) /\ Places(r) = 0
<1>1. reqs[q] = {} /\ pendingD2H # q
  <2>1. q # None
    BY RequestKinds
  <2>. QED BY <2>1 DEF IInv, OwnRequests, Deferred
<1>2. \A r \in Requests : r.queue = q => ~Owes(r)
  BY <1>1, RequestKinds DEF Owes
<1>. QED BY <1>1, <1>2 DEF IInv, Counted

(* A step of one queue leaves the deferred command of another alone. *)
LEMMA OtherDeferred ==
  ASSUME TypeOK, Deferred, NEW q \in Queues, NEW R,
         pendingD2H # q, UNCHANGED pendingD2H, reqs' = [reqs EXCEPT ![q] = R],
         \A p \in Queues \ {q} : commands'[p] = commands[p] /\ running'[p] = running[p]
  PROVE  Deferred'
<1>. SUFFICES ASSUME pendingD2H # None PROVE Deferred'
  BY DEF Deferred
<1>. DEFINE d == pendingD2H
<1>1. d \in Queues \ {q} /\ d' = d
  BY DEF TypeOK
<1>2. commands'[d] = commands[d] /\ running'[d] = running[d] /\ reqs'[d] = reqs[d]
  BY <1>1 DEF TypeOK
<1>. QED BY <1>1, <1>2 DEF Deferred, FlushOf

LEMMA LaunchStep ==
  ASSUME IInv, NEW q \in Queues, ProcessLaunchKernel(q)
  PROVE  IInv'
<1>. USE DEF IInv
<1>. DEFINE l == LaunchOf(q)
<1>1. commands[q] # <<>> /\ ~running[q] /\ l \in Requests /\ l.queue = q
  BY RequestKinds DEF ProcessLaunchKernel, IsNext
<1>2. /\ Await(q, {l}) /\ toGPU' = Append(toGPU, l) /\ l2Dirty' = TRUE
      /\ UNCHANGED <<copier, gpu, returned, uvm>>
  BY DEF ProcessLaunchKernel
<1>3. /\ reqs' = [reqs EXCEPT ![q] = {l}] /\ OwnRequests'
      /\ commands' \in [Queues -> Seq(Commands)] /\ running' \in [Queues -> BOOLEAN]
      /\ reqs' \in [Queues -> SUBSET Requests]
      /\ \A p \in Queues \ {q} : commands'[p] = commands[p] /\ running'[p] = running[p]
  BY <1>1, <1>2, Settled
<1>4. TypeOK'
  <2>1. toGPU' \in Seq(Requests)
    BY <1>1, <1>2, Lists
  <2>2. UNCHANGED <<awaiting, cyclesLeft, pendingD2H, flushed, flushing, kernels, toDMA,
                    processing, dirty, returned, location, moves>>
    BY <1>2 DEF copier, gpu, uvm
  <2>. QED BY <1>2, <1>3, <2>1, <2>2 DEF TypeOK, Commands
<1>5. ASSUME NEW r \in Requests PROVE Counted(r)'
  <2>1. Owes(r)' <=> IF r.queue = q THEN r = l ELSE Owes(r)
    BY <1>2, <1>3, SettledDebt DEF uvm
  <2>2. Times(toGPU', r) = Times(toGPU, r) + (IF l = r THEN 1 ELSE 0)
    BY <1>1, <1>2, Lists, TimesAppend
  <2>3. Places(r)' = Places(r) + (IF l = r THEN 1 ELSE 0)
    BY <1>2, <2>2, Lists DEF Places, copier, gpu
  <2>4. r.queue = q => Places(r) = 0
    BY <1>1, IdleQueue
  <2>. QED BY <1>1, <2>1, <2>3, <2>4 DEF Counted
<1>6. Deferred'
  <2>1. pendingD2H # q /\ UNCHANGED pendingD2H
    BY <1>1, <1>2, IdleQueue DEF copier
  <2>. QED BY <1>3, <2>1, OtherDeferred
<1>. QED BY <1>3, <1>4, <1>5, <1>6

(* A command gets new requests, some to the GPU and some to the middleware. *)
LEMMA Issued ==
  ASSUME IInv, NEW q \in Queues, NEW R \in SUBSET Requests,
         NEW F \in Seq(Requests), NEW C \in Seq(Requests),
         \A r \in Requests : Times(F, r) + Times(C, r) = IF r \in R \ reqs[q] THEN 1 ELSE 0,
         \A r \in R : r.queue = q, reqs[q] \subseteq R,
         reqs' = [reqs EXCEPT ![q] = R],
         toGPU' = toGPU \o F, awaiting' = awaiting \o C,
         UNCHANGED <<gpu, returned, uvm>>
  PROVE  \A r \in Requests : Counted(r)'
<1>. TAKE r \in Requests
<1>1. TypeOK /\ Counted(r)
  BY DEF IInv
<1>2. Owes(r)' <=> IF r.queue = q THEN r \in R ELSE Owes(r)
  BY <1>1, SettledDebt DEF uvm
<1>3. /\ Times(toGPU', r) = Times(toGPU, r) + Times(F, r)
      /\ Times(awaiting', r) = Times(awaiting, r) + Times(C, r)
      /\ Times(F, r) \in Nat /\ Times(C, r) \in Nat
  BY <1>1, Lists, TimesConcat, TimesType
<1>4. Places(r)' = Places(r) + (IF r \in R \ reqs[q] THEN 1 ELSE 0)
  <2>1. UNCHANGED <<toDMA, returned, kernels, processing, flushing>>
    BY DEF gpu
  <2>2. Times(F, r) + Times(C, r) = IF r \in R \ reqs[q] THEN 1 ELSE 0
    OBVIOUS
  <2>3. /\ Times(toDMA', r) = Times(toDMA, r) /\ Times(returned', r) = Times(returned, r)
        /\ (r \in kernels \cup processing \cup {flushing})' <=> r \in kernels \cup processing \cup {flushing}
    BY <2>1
  <2>4. /\ Times(awaiting, r) \in Nat /\ Times(toGPU, r) \in Nat
        /\ Times(toDMA, r) \in Nat /\ Times(returned, r) \in Nat
    BY <1>1, Lists
  <2>. QED BY <1>3, <2>2, <2>3, <2>4, SMTT(30) DEF Places
<1>5. r.queue = q => (Owes(r) <=> r \in reqs[q])
  BY RequestKinds DEF Owes
<1>. QED BY <1>1, <1>2, <1>4, <1>5 DEF Counted

LEMMA FlushList ==
  ASSUME NEW q \in Queues
  PROVE  /\ FlushFirst(q) \in Seq(Requests)
         /\ \A r \in Elements(FlushFirst(q)) : r = FlushOf(q)
         /\ \A r : Times(FlushFirst(q), r) = IF r \in Elements(FlushFirst(q)) THEN 1 ELSE 0
         /\ l2Dirty => Elements(FlushFirst(q)) = {FlushOf(q)}
<1>. DEFINE f == FlushOf(q)
<1>1. f \in Requests
  BY RequestKinds
<1>. HIDE DEF f
<1>2. Elements(<<f>>) = {f} /\ Elements(<<>>) = {}
  BY DEF Elements
<1>3. \A r : Times(<<f>>, r) = (IF f = r THEN 1 ELSE 0) /\ Times(<<>>, r) = 0
  BY TimesOne, TimesNone
<1>4. FlushFirst(q) = IF l2Dirty THEN <<f>> ELSE <<>>
  BY DEF FlushFirst, f
<1>5. <<f>> \in Seq(Requests) /\ <<>> \in Seq(Requests)
  BY <1>1
<1>. QED BY <1>2, <1>3, <1>4, <1>5 DEF f

(* A copy starts whose requests are those of its flush and of its pages. *)
LEMMA CopyStarts ==
  ASSUME IInv, NEW q \in Queues, commands[q] # <<>>, ~running[q],
         Head(commands[q]).kind \in {"H2D", "D2H"},
         toGPU' = toGPU \o FlushFirst(q), awaiting' = awaiting \o CopyRequests(q),
         Settle(q, Elements(FlushFirst(q)) \cup Elements(CopyRequests(q))),
         cyclesLeft' \in -1..Cycles,
         UNCHANGED <<l2Dirty, pendingD2H, flushed>>, UNCHANGED <<gpu, returned, uvm>>
  PROVE  IInv'
<1>. DEFINE F == FlushFirst(q)
            C == CopyRequests(q)
            R == Elements(F) \cup Elements(C)
<1>1. TypeOK /\ OwnRequests /\ Deferred
  BY DEF IInv
<1>2. toGPU' = toGPU \o F /\ awaiting' = awaiting \o C /\ Settle(q, R)
  OBVIOUS
<1>3. /\ F \in Seq(Requests) /\ \A r \in Elements(F) : r = FlushOf(q)
      /\ \A r : Times(F, r) = IF r \in Elements(F) THEN 1 ELSE 0
  BY FlushList
<1>4. /\ C \in Seq(UserCopies) /\ C \in Seq(Requests)
      /\ \A r \in Elements(C) : r \in Requests /\ r.queue = q /\ r.kind \in {"H2D", "D2H"}
      /\ \A r : Times(C, r) = IF r \in Elements(C) THEN 1 ELSE 0
  BY <1>1, CopyList
<1>. HIDE DEF F, C
<1>5. FlushOf(q) \in Requests /\ FlushOf(q).queue = q /\ FlushOf(q).kind \notin {"H2D", "D2H"}
  BY RequestKinds DEF FlushOf
<1>6. R \in SUBSET Requests /\ \A r \in R : r.queue = q
  BY <1>3, <1>4, <1>5
<1>7. reqs[q] = {} /\ pendingD2H # q
  BY IdleQueue
<1>8. \A r \in Requests : Times(F, r) + Times(C, r) = IF r \in R \ reqs[q] THEN 1 ELSE 0
  BY <1>3, <1>4, <1>5, <1>7
<1>. HIDE DEF R
<1>9. /\ reqs' = [reqs EXCEPT ![q] = R] /\ OwnRequests'
      /\ commands' \in [Queues -> Seq(Commands)] /\ running' \in [Queues -> BOOLEAN]
      /\ reqs' \in [Queues -> SUBSET Requests]
      /\ \A p \in Queues \ {q} : commands'[p] = commands[p] /\ running'[p] = running[p]
  BY <1>1, <1>2, <1>6, Settled
<1>10. \A r \in Requests : Counted(r)'
  <2>1. reqs[q] \subseteq R /\ F \in Seq(Requests) /\ C \in Seq(Requests)
    BY <1>3, <1>4, <1>7
  <2>2. toGPU' = toGPU \o F /\ awaiting' = awaiting \o C /\ reqs' = [reqs EXCEPT ![q] = R]
    BY <1>2, <1>9
  <2>3. UNCHANGED <<gpu, returned, uvm>>
    OBVIOUS
  <2>4. R \in SUBSET Requests
    BY <1>6
  <2>5. \A r \in R : r.queue = q
    BY <1>6
  <2>. QED BY ONLY IInv, <1>8, <2>1, <2>2, <2>3, <2>4, <2>5, Issued
<1>11. TypeOK'
  <2>1. toGPU' \in Seq(Requests) /\ awaiting' \in Seq(UserCopies)
    BY <1>1, <1>2, <1>3, <1>4 DEF TypeOK
  <2>2. UNCHANGED <<l2Dirty, pendingD2H, flushed, flushing, kernels, toDMA,
                    processing, dirty, returned, location, moves>>
    BY DEF gpu, uvm
  <2>. QED BY <1>1, <1>9, <2>1, <2>2 DEF TypeOK, Commands
<1>12. Deferred'
  BY <1>1, <1>7, <1>9, OtherDeferred
<1>. QED BY <1>9, <1>10, <1>11, <1>12 DEF IInv

LEMMA H2DStep ==
  ASSUME IInv, NEW q \in Queues, ProcessMemCopyH2D(q)
  PROVE  IInv'
<1>. DEFINE F == FlushFirst(q)
            C == CopyRequests(q)
<1>1. /\ TypeOK /\ commands[q] # <<>> /\ ~running[q] /\ Head(commands[q]).kind \in {"H2D", "D2H"}
  BY DEF IInv, ProcessMemCopyH2D, IsNext
<1>2. /\ toGPU' = toGPU \o F /\ awaiting' = awaiting \o C /\ Settle(q, Elements(F \o C))
      /\ cyclesLeft' = Cycles
      /\ UNCHANGED <<l2Dirty, pendingD2H, flushed>> /\ UNCHANGED <<gpu, returned, uvm>>
  BY DEF ProcessMemCopyH2D
<1>3. F \in Seq(Requests) /\ C \in Seq(Requests)
  BY <1>1, FlushList, CopyList
<1>4. Elements(F \o C) = Elements(F) \cup Elements(C)
  BY <1>3, ElementsConcat
<1>5. Cycles \in -1..Cycles
  BY CopiesAssumption
<1>. QED BY <1>1, <1>2, <1>4, <1>5, CopyStarts

(* Only a command of the program takes a queue that is not its own place.  *)
LEMMA D2HStep ==
  ASSUME IInv, NEW q \in Queues, ProcessMemCopyD2H(q)
  PROVE  IInv'
<1>. DEFINE F == FlushFirst(q)
            C == CopyRequests(q)
            f == FlushOf(q)
<1>1. /\ TypeOK /\ OwnRequests /\ Deferred /\ commands[q] # <<>> /\ ~running[q]
      /\ Head(commands[q]).kind = "D2H"
  BY DEF IInv, ProcessMemCopyD2H, IsNext
<1>2. /\ toGPU' = toGPU \o F
      /\ UNCHANGED l2Dirty /\ UNCHANGED <<gpu, returned, uvm>>
  BY DEF ProcessMemCopyD2H
<1>3. CASE ~Defers(q)
  <2>1. ReadD2H(q, Elements(F)) /\ UNCHANGED <<pendingD2H, flushed>>
    BY <1>3 DEF ProcessMemCopyD2H
  <2>2. awaiting' = awaiting \o C /\ cyclesLeft' \in {cyclesLeft, Cycles}
        /\ Settle(q, Elements(F) \cup Elements(C))
    BY <2>1 DEF ReadD2H
  <2>3. cyclesLeft' \in -1..Cycles
    BY <1>1, <2>2, CopiesAssumption DEF TypeOK
  <2>. QED BY <1>1, <1>2, <2>1, <2>2, <2>3, CopyStarts
<1>4. CASE Defers(q)
  <2>1. /\ pendingD2H' = q /\ flushed' = FALSE /\ Await(q, {f})
        /\ UNCHANGED <<awaiting, cyclesLeft>>
    BY <1>4 DEF ProcessMemCopyD2H
  <2>2. f \in Requests /\ f.queue = q
    BY RequestKinds
  <2>3. F \in Seq(Requests) /\ <<>> \in Seq(Requests) /\ Elements(F) = {f}
        /\ \A r : Times(F, r) = IF r \in Elements(F) THEN 1 ELSE 0
    BY <1>4, FlushList DEF Defers
  <2>4. reqs[q] = {}
    BY <1>1, IdleQueue
  <2>5. \A r \in Requests : Times(F, r) + Times(<<>>, r) = IF r \in {f} \ reqs[q] THEN 1 ELSE 0
    BY <2>3, <2>4, TimesNone
  <2>6. awaiting' = awaiting \o <<>>
    BY <1>1, <2>1 DEF TypeOK
  <2>. HIDE DEF F, f
  <2>7. /\ reqs' = [reqs EXCEPT ![q] = {f}] /\ OwnRequests'
        /\ commands' \in [Queues -> Seq(Commands)] /\ running' \in [Queues -> BOOLEAN]
        /\ reqs' \in [Queues -> SUBSET Requests]
        /\ commands'[q] = commands[q] /\ running'[q]
    BY <1>1, <2>1, <2>2, Settled
  <2>8. \A r \in Requests : Counted(r)'
    <3>. DEFINE N == <<>>
                R == {f}
    <3>1. /\ R \in SUBSET Requests /\ reqs[q] \subseteq R /\ \A r \in R : r.queue = q
          /\ F \in Seq(Requests) /\ N \in Seq(Requests)
      BY <2>2, <2>3, <2>4
    <3>2. /\ reqs' = [reqs EXCEPT ![q] = R]
          /\ toGPU' = toGPU \o F /\ awaiting' = awaiting \o N
      BY <1>2, <2>6, <2>7
    <3>3. UNCHANGED <<gpu, returned, uvm>>
      BY <1>2
    <3>4. \A r \in Requests : Times(F, r) + Times(N, r) = IF r \in R \ reqs[q] THEN 1 ELSE 0
      BY <2>5
    <3>. HIDE DEF N, R
    <3>. QED BY <3>1, <3>2, <3>3, <3>4, Issued
  <2>9. TypeOK'
    <3>1. toGPU' \in Seq(Requests)
      BY <1>1, <1>2, <2>3 DEF TypeOK
    <3>2. UNCHANGED <<l2Dirty, flushing, kernels, toDMA, processing, dirty, returned, location, moves>>
      BY <1>2 DEF gpu, uvm
    <3>. QED BY <1>1, <2>1, <2>7, <3>1, <3>2 DEF TypeOK, Commands
  <2>10. Deferred'
    <3>1. reqs'[q] = {f}
      BY <1>1, <2>7 DEF TypeOK
    <3>. QED BY <1>1, <2>1, <2>7, <3>1 DEF Deferred, f, FlushOf
  <2>. QED BY <2>7, <2>8, <2>9, <2>10 DEF IInv
<1>. QED BY <1>3, <1>4

(* The deferred command has at most its flush; the copies are new. *)
LEMMA DeferredStep ==
  ASSUME IInv, ProcessDeferredD2H
  PROVE  IInv'
<1>. DEFINE q == pendingD2H
            C == CopyRequests(q)
            R == reqs[q] \cup Elements(C)
            N == <<>>
<1>1. /\ TypeOK /\ OwnRequests /\ q \in Queues /\ commands[q] # <<>>
      /\ Head(commands[q]).kind = "D2H" /\ reqs[q] \subseteq {FlushOf(q)}
  BY DEF IInv, ProcessDeferredD2H, TypeOK, Deferred, OwnRequests
<1>2. /\ awaiting' = awaiting \o C /\ cyclesLeft' \in {cyclesLeft, Cycles} /\ Settle(q, R)
      /\ pendingD2H' = None /\ flushed' = FALSE
      /\ UNCHANGED <<l2Dirty, toGPU>>
  BY DEF ProcessDeferredD2H, ReadD2H
<1>3. UNCHANGED <<gpu, returned, uvm>>
  BY DEF ProcessDeferredD2H
<1>4. /\ C \in Seq(UserCopies) /\ C \in Seq(Requests)
      /\ \A r \in Elements(C) : r \in Requests /\ r.queue = q /\ r.kind \in {"H2D", "D2H"}
      /\ \A r : Times(C, r) = IF r \in Elements(C) THEN 1 ELSE 0
  BY <1>1, CopyList
<1>. HIDE DEF C
<1>5. FlushOf(q) \in Requests /\ FlushOf(q).queue = q /\ FlushOf(q).kind \notin {"H2D", "D2H"}
  BY <1>1, RequestKinds DEF FlushOf
<1>6. R \in SUBSET Requests /\ (\A r \in R : r.queue = q) /\ reqs[q] \subseteq R
  BY <1>1, <1>4, <1>5
<1>7. \A r \in Requests : Times(N, r) + Times(C, r) = IF r \in R \ reqs[q] THEN 1 ELSE 0
  BY <1>1, <1>4, <1>5, TimesNone
<1>8. toGPU' = toGPU \o N /\ N \in Seq(Requests)
  BY <1>1, <1>2 DEF TypeOK
<1>. HIDE DEF R, N, q
<1>9. /\ reqs' = [reqs EXCEPT ![q] = R] /\ OwnRequests'
      /\ commands' \in [Queues -> Seq(Commands)] /\ running' \in [Queues -> BOOLEAN]
      /\ reqs' \in [Queues -> SUBSET Requests]
  BY <1>1, <1>2, <1>6, Settled
<1>10. \A r \in Requests : Counted(r)'
  <2>1. R \in SUBSET Requests /\ reqs[q] \subseteq R /\ \A r \in R : r.queue = q
    BY <1>6
  <2>2. /\ toGPU' = toGPU \o N /\ awaiting' = awaiting \o C
        /\ N \in Seq(Requests) /\ C \in Seq(Requests) /\ q \in Queues
    BY <1>1, <1>2, <1>4, <1>8
  <2>. QED BY <1>3, <1>7, <1>9, <2>1, <2>2, Issued, ZenonT(60)
<1>11. TypeOK'
  <2>1. awaiting' \in Seq(UserCopies) /\ cyclesLeft' \in -1..Cycles
    BY <1>1, <1>2, <1>4, CopiesAssumption DEF TypeOK
  <2>2. UNCHANGED <<flushing, kernels, toDMA, processing, dirty, returned, location, moves>>
    BY <1>3 DEF gpu, uvm
  <2>. QED BY <1>1, <1>2, <1>9, <2>1, <2>2 DEF TypeOK, Commands
<1>. QED BY <1>2, <1>9, <1>10, <1>11 DEF IInv, Deferred

-----------------------------------------------------------------------------
(* Steps that leave the queues alone.                                      *)

LEMMA QueuesAlone ==
  ASSUME OwnRequests, Deferred, UNCHANGED queues, UNCHANGED pendingD2H
  PROVE  OwnRequests' /\ Deferred'
BY DEF OwnRequests, Deferred, queues, FlushOf

(* The requests that are being worked on. *)
Held == kernels \cup processing \cup {flushing}

LEMMA PlacesCount ==
  ASSUME TypeOK, NEW r
  PROVE  /\ Times(awaiting, r) \in Nat /\ Times(toGPU, r) \in Nat
         /\ Times(toDMA, r) \in Nat /\ Times(returned, r) \in Nat
         /\ Places(r) = Times(awaiting, r) + Times(toGPU, r) + Times(toDMA, r) + Times(returned, r)
                           + (IF r \in Held THEN 1 ELSE 0)
BY Lists DEF Places, Held

(* Who is in a place is there once, and it is owed. *)
LEMMA InPlace ==
  ASSUME IInv, NEW r \in Requests, Places(r) # 0
  PROVE  Places(r) = 1 /\ Owes(r)
BY DEF IInv, Counted

LEMMA Moved ==
  ASSUME IInv, UNCHANGED <<reqs, location>>, \A r \in Requests : Places(r)' = Places(r)
  PROVE  \A r \in Requests : Counted(r)'
BY DEF IInv, Counted, Owes

LEMMA CountDownStep ==
  ASSUME IInv, CountDown
  PROVE  IInv'
<1>1. TypeOK /\ OwnRequests /\ Deferred
  BY DEF IInv
<1>2. /\ cyclesLeft' = cyclesLeft - 1 /\ cyclesLeft >= 0
      /\ \/ toGPU' = toGPU \o awaiting /\ awaiting' = <<>>
         \/ UNCHANGED <<toGPU, awaiting>>
      /\ UNCHANGED <<commands, reqs, running, l2Dirty, pendingD2H, flushed, flushing, kernels,
                     toDMA, processing, dirty, returned, location, moves>>
  BY DEF CountDown, queues, gpu, uvm
<1>3. OwnRequests' /\ Deferred'
  BY <1>1, <1>2, QueuesAlone DEF queues
<1>4. awaiting \in Seq(Requests) /\ toGPU \in Seq(Requests)
  BY <1>1, Lists
<1>5. ASSUME NEW r \in Requests PROVE Places(r)' = Places(r)
  <2>1. Times(toGPU', r) + Times(awaiting', r) = Times(toGPU, r) + Times(awaiting, r)
    <3>1. CASE toGPU' = toGPU \o awaiting /\ awaiting' = <<>>
      <4>1. Times(toGPU \o awaiting, r) = Times(toGPU, r) + Times(awaiting, r) /\ Times(<<>>, r) = 0
        BY <1>4, TimesConcat, TimesNone
      <4>2. Times(toGPU', r) = Times(toGPU \o awaiting, r) /\ Times(awaiting', r) = Times(<<>>, r)
        BY <3>1
      <4>. QED BY <1>1, <4>1, <4>2, PlacesCount
    <3>2. CASE UNCHANGED <<toGPU, awaiting>>
      BY <3>2
    <3>. QED BY <1>2, <3>1, <3>2
  <2>2. UNCHANGED <<toDMA, returned, kernels, processing, flushing>>
    BY <1>2
  <2>3. Times(toGPU', r) \in Nat /\ Times(awaiting', r) \in Nat
    <3>1. toGPU' \in Seq(Requests) /\ awaiting' \in Seq(Requests)
      <4>1. <<>> \in Seq(Requests) /\ toGPU \o awaiting \in Seq(Requests)
        BY <1>4
      <4>. QED BY <1>2, <1>4, <4>1
    <3>2. Times(toGPU', r) \in Nat
      BY <3>1, TimesType, Zenon
    <3>3. Times(awaiting', r) \in Nat
      BY <3>1, TimesType, Zenon
    <3>. QED BY <3>2, <3>3
  <2>4. /\ Times(toDMA', r) = Times(toDMA, r) /\ Times(returned', r) = Times(returned, r)
        /\ (r \in kernels \cup processing \cup {flushing})' <=> r \in kernels \cup processing \cup {flushing}
    BY <2>2
  <2>5. /\ Times(awaiting, r) \in Nat /\ Times(toGPU, r) \in Nat
        /\ Times(toDMA, r) \in Nat /\ Times(returned, r) \in Nat
    BY <1>1, Lists
  <2>. QED BY <2>1, <2>3, <2>4, <2>5 DEF Places
<1>6. \A r \in Requests : Counted(r)'
  BY <1>2, <1>5, Moved
<1>7. TypeOK'
  <2>1. toGPU' \in Seq(Requests) /\ awaiting' \in Seq(UserCopies)
    <3>1. <<>> \in Seq(UserCopies) /\ toGPU \o awaiting \in Seq(Requests)
      BY <1>4
    <3>. QED BY <1>1, <1>2, <3>1 DEF TypeOK
  <2>2. cyclesLeft' \in -1..Cycles
    BY <1>1, <1>2, CopiesAssumption DEF TypeOK
  <2>. QED BY <1>1, <1>2, <2>1, <2>2 DEF TypeOK
<1>. QED BY <1>3, <1>6, <1>7 DEF IInv

-----------------------------------------------------------------------------
(* Responses.                                                              *)

LEMMA HeadOwed ==
  ASSUME IInv, returned # <<>>
  PROVE  /\ Head(returned) \in Requests /\ Tail(returned) \in Seq(Requests)
         /\ Owes(Head(returned)) /\ Places(Head(returned)) = 1
         /\ \A r : Times(returned, r) = Times(Tail(returned), r) + (IF Head(returned) = r THEN 1 ELSE 0)
         /\ \A r : Times(Tail(returned), r) \in Nat
<1>. DEFINE h == Head(returned)
<1>1. TypeOK /\ returned \in Seq(Requests)
  BY Lists DEF IInv
<1>2. /\ h \in Requests /\ Tail(returned) \in Seq(Requests)
      /\ \A r : Times(returned, r) = Times(Tail(returned), r) + (IF h = r THEN 1 ELSE 0)
  BY <1>1, TimesTail
<1>3. \A r : Times(Tail(returned), r) \in Nat
  BY <1>2, TimesType
<1>4. Times(returned, h) > 0
  BY <1>2, <1>3
<1>5. Places(h) # 0
  BY <1>1, <1>4, PlacesCount
<1>6. Places(h) = 1 /\ Owes(h)
  BY <1>2, <1>5, InPlace
<1>. QED BY <1>2, <1>3, <1>6

(* What a response does to the places. *)
LEMMA Consumed ==
  ASSUME IInv, returned # <<>>, returned' = Tail(returned),
         UNCHANGED <<awaiting, toGPU, gpu>>, NEW r \in Requests
  PROVE  /\ r = Head(returned) => Places(r)' = 0
         /\ r # Head(returned) => Places(r)' = Places(r)
<1>1. TypeOK
  BY DEF IInv
<1>2. UNCHANGED <<awaiting, toGPU, toDMA, kernels, processing, flushing>>
  BY DEF gpu
<1>3. Times(returned', r) = Times(returned, r) - (IF Head(returned) = r THEN 1 ELSE 0)
  BY HeadOwed
<1>4. Places(r)' = Places(r) - (IF r = Head(returned) THEN 1 ELSE 0)
  BY <1>1, <1>2, <1>3, Lists, SMTT(30) DEF Places
<1>5. Places(Head(returned)) = 1 /\ Places(r) \in Nat
  <2>1. Times(awaiting, r) \in Nat /\ Times(toGPU, r) \in Nat
        /\ Times(toDMA, r) \in Nat /\ Times(returned, r) \in Nat
    BY <1>1, Lists
  <2>. QED BY <2>1, HeadOwed DEF Places
<1>. QED BY <1>4, <1>5

LEMMA ReturnStep ==
  ASSUME IInv, returned # <<>>, Head(returned).queue # None, returned' = Tail(returned),
         NEW q, q = Head(returned).queue, NEW R, R = reqs[q] \ {Head(returned)},
         Settle(q, R) \/ Await(q, R),
         pendingD2H = q /\ Head(returned).kind = "Flush" => Await(q, R),
         flushed' \in BOOLEAN, UNCHANGED <<l2Dirty, awaiting, cyclesLeft, pendingD2H, toGPU, gpu, uvm>>
  PROVE  IInv'
<1>. DEFINE h == Head(returned)
<1>1. TypeOK /\ OwnRequests /\ Deferred
  BY DEF IInv
<1>2. h \in Requests /\ q \in Queues /\ h \in reqs[q] /\ Tail(returned) \in Seq(Requests)
  BY HeadOwed, RequestKinds DEF Owes
<1>3. running[q] /\ commands[q] # <<>> /\ R \in SUBSET Requests /\ \A r \in R : r.queue = q
  BY <1>1, <1>2 DEF OwnRequests, TypeOK
<1>4. /\ reqs' = [reqs EXCEPT ![q] = R] /\ OwnRequests'
      /\ commands' \in [Queues -> Seq(Commands)] /\ running' \in [Queues -> BOOLEAN]
      /\ reqs' \in [Queues -> SUBSET Requests]
      /\ \A p \in Queues \ {q} : commands'[p] = commands[p] /\ running'[p] = running[p]
      /\ Await(q, R) => commands'[q] = commands[q] /\ running'[q]
  BY <1>1, <1>2, <1>3, Settled
<1>5. ASSUME NEW r \in Requests PROVE Counted(r)'
  <2>1. Owes(r)' <=> IF r.queue = q THEN r \in R ELSE Owes(r)
    BY <1>1, <1>2, <1>4, SettledDebt DEF uvm
  <2>2. /\ r = h => Places(r)' = 0
        /\ r # h => Places(r)' = Places(r)
    BY Consumed
  <2>3. Counted(r) /\ (r.queue = q => (Owes(r) <=> r \in reqs[q]))
    BY <1>2, RequestKinds DEF IInv, Owes
  <2>. QED BY <2>1, <2>2, <2>3 DEF Counted
<1>6. Deferred'
  <2>1. CASE pendingD2H # q
    BY <1>1, <1>2, <1>4, <2>1, OtherDeferred
  <2>2. CASE pendingD2H = q
    <3>1. pendingD2H # None /\ reqs[q] \subseteq {FlushOf(q)} /\ Head(commands[q]).kind = "D2H"
      BY <1>1, <1>2, <2>2, RequestKinds DEF Deferred
    <3>2. h.kind = "Flush" /\ R = {}
      BY <1>2, <3>1 DEF FlushOf
    <3>3. commands'[q] = commands[q] /\ running'[q] /\ reqs'[q] = {}
      BY <1>1, <1>2, <1>4, <2>2, <3>2 DEF TypeOK
    <3>. QED BY <2>2, <3>1, <3>3 DEF Deferred
  <2>. QED BY <2>1, <2>2
<1>7. TypeOK'
  <2>1. UNCHANGED <<l2Dirty, awaiting, cyclesLeft, pendingD2H, toGPU, flushing, kernels, toDMA,
                    processing, dirty, location, moves>>
    BY DEF gpu, uvm
  <2>. QED BY <1>1, <1>2, <1>4, <2>1 DEF TypeOK, Commands
<1>. QED BY <1>4, <1>5, <1>6, <1>7 DEF IInv

LEMMA CopyReturnStep ==
  ASSUME IInv, ProcessMemCopyReturn
  PROVE  IInv'
<1>. DEFINE q == Head(returned).queue
            R == reqs[q] \ {Head(returned)}
<1>1. /\ returned # <<>> /\ q # None /\ Head(returned).kind # "Flush"
      /\ returned' = Tail(returned) /\ Settle(q, R)
  BY DEF ProcessMemCopyReturn, Answers
<1>2. flushed' \in BOOLEAN /\ UNCHANGED <<l2Dirty, awaiting, cyclesLeft, pendingD2H, toGPU, gpu, uvm>>
  BY DEF ProcessMemCopyReturn, copier, IInv, TypeOK
<1>. HIDE DEF R
<1>3. R = reqs[q] \ {Head(returned)}
  BY DEF R
<1>. HIDE DEF q
<1>4. q = Head(returned).queue
  BY DEF q
<1>. QED BY <1>1, <1>2, <1>3, <1>4, ReturnStep

LEMMA LaunchReturnStep ==
  ASSUME IInv, ProcessLaunchKernelReturn
  PROVE  IInv'
<1>. DEFINE q == Head(returned).queue
            R == reqs[q] \ {Head(returned)}
<1>1. /\ returned # <<>> /\ q # None /\ Head(returned).kind # "Flush"
      /\ returned' = Tail(returned) /\ Settle(q, R)
  BY DEF ProcessLaunchKernelReturn, Answers
<1>2. flushed' \in BOOLEAN /\ UNCHANGED <<l2Dirty, awaiting, cyclesLeft, pendingD2H, toGPU, gpu, uvm>>
  BY DEF ProcessLaunchKernelReturn, copier, IInv, TypeOK
<1>. HIDE DEF R
<1>3. R = reqs[q] \ {Head(returned)}
  BY DEF R
<1>. HIDE DEF q
<1>4. q = Head(returned).queue
  BY DEF q
<1>. QED BY <1>1, <1>2, <1>3, <1>4, ReturnStep

LEMMA FlushReturnStep ==
  ASSUME IInv, ProcessFlushReturn
  PROVE  IInv'
<1>. DEFINE q == Head(returned).queue
            R == reqs[q] \ {Head(returned)}
<1>1. returned # <<>> /\ q # None /\ returned' = Tail(returned) /\ SettleFlushed(q, R)
  BY DEF ProcessFlushReturn, Answers
<1>2. UNCHANGED <<l2Dirty, awaiting, cyclesLeft, pendingD2H, toGPU, gpu, uvm>>
  BY DEF ProcessFlushReturn
<1>5. pendingD2H = q => R = {}
  BY <1>1, HeadOwed, RequestKinds DEF IInv, Deferred, Owes
<1>. HIDE DEF R
<1>3. R = reqs[q] \ {Head(returned)}
  BY DEF R
<1>. HIDE DEF q
<1>4. q = Head(returned).queue
  BY DEF q
<1>6. Settle(q, R) \/ Await(q, R)
  BY <1>1 DEF SettleFlushed
<1>7. flushed' \in BOOLEAN /\ (pendingD2H = q => Await(q, R))
  BY <1>1, <1>5 DEF SettleFlushed, IInv, TypeOK
<1>. QED BY <1>1, <1>2, <1>3, <1>4, <1>6, <1>7, ReturnStep

-----------------------------------------------------------------------------
(* Migrations.                                                             *)

Locations == {"Host", "ToGPU", "GPU", "Flushing", "ToHost"}

(* Of the two migrations of a page, the one that its location names is owed. *)
LEMMA MovedDebt ==
  ASSUME TypeOK, NEW p \in Managed, NEW L \in Locations,
         location' = [location EXCEPT ![p] = L], UNCHANGED reqs
  PROVE  /\ location' \in [Managed -> Locations]
         /\ \A r \in Requests :
              Owes(r)' <=> IF r.queue = None /\ r.page = p
                           THEN L = IF r.kind = "H2D" THEN "ToGPU" ELSE "ToHost"
                           ELSE Owes(r)
<1>1. location \in [Managed -> Locations]
  BY DEF TypeOK, Locations
<1>2. \A r \in Requests : r.queue = None => r.page \in Managed
  BY RequestKinds
<1>. QED BY <1>1, <1>2 DEF Owes

(* A migration is sent for a page that has none. *)
LEMMA Sent ==
  ASSUME IInv, NEW p \in Managed, NEW L \in Locations, NEW kind \in {"H2D", "D2H"},
         L = (IF kind = "H2D" THEN "ToGPU" ELSE "ToHost"),
         location[p] \notin {"ToGPU", "ToHost"}, location' = [location EXCEPT ![p] = L],
         toGPU' = Append(toGPU, Copy(kind, None, p)), moves' \in 0..MaxMoves, dirty' \subseteq dirty,
         UNCHANGED <<queues, l2Dirty, copier, flushing, kernels, toDMA, processing, returned>>
  PROVE  IInv'
<1>. DEFINE m == Copy(kind, None, p)
<1>1. TypeOK /\ OwnRequests /\ Deferred
  BY DEF IInv
<1>2. m \in Requests /\ m.queue = None /\ m.kind = kind /\ m.page = p
  BY RequestKinds DEF Copy
<1>3. OwnRequests' /\ Deferred'
  BY <1>1, QueuesAlone DEF copier
<1>4. ASSUME NEW r \in Requests PROVE Counted(r)'
  <2>1. Owes(r)' <=> IF r.queue = None /\ r.page = p
                     THEN L = IF r.kind = "H2D" THEN "ToGPU" ELSE "ToHost"
                     ELSE Owes(r)
    BY <1>1, MovedDebt DEF queues
  <2>2. r.queue = None /\ r.page = p => ~Owes(r) /\ Places(r) = 0
    BY DEF Owes, IInv, Counted
  <2>3. r.queue = None /\ r.page = p => (Owes(r)' <=> r = m)
    <3>1. r.queue = None => r \in Migrations
      BY RequestKinds
    <3>2. m \in Migrations
      BY RequestKinds
    <3>3. \A a, b \in Migrations : a.page = b.page /\ a.kind = b.kind => a = b
      BY DEF Migrations
    <3>4. r \in Migrations => r.kind \in {"H2D", "D2H"}
      BY DEF Migrations
    <3>. QED BY <1>2, <2>1, <3>1, <3>2, <3>3, <3>4
  <2>4. Times(toGPU', r) = Times(toGPU, r) + (IF m = r THEN 1 ELSE 0)
    BY <1>1, <1>2, Lists, TimesAppend
  <2>5. UNCHANGED <<awaiting, toDMA, returned, kernels, processing, flushing>>
    BY DEF copier
  <2>6. Places(r)' = Places(r) + (IF m = r THEN 1 ELSE 0)
    BY <1>1, <2>4, <2>5, Lists, SMTT(30) DEF Places
  <2>7. CASE r.queue = None /\ r.page = p
    <3>1. Places(r) = 0 /\ (Owes(r)' <=> r = m)
      BY <2>2, <2>3, <2>7
    <3>. QED BY <2>6, <3>1 DEF Counted
  <2>8. CASE ~(r.queue = None /\ r.page = p)
    <3>1. (Owes(r)' <=> Owes(r)) /\ r # m /\ Counted(r)
      BY <1>2, <2>1, <2>8 DEF IInv
    <3>. QED BY <2>6, <3>1 DEF Counted
  <2>. QED BY <2>7, <2>8
<1>5. TypeOK'
  <2>1. toGPU' \in Seq(Requests) /\ location' \in [Managed -> Locations] /\ dirty' \subseteq Pages
    <3>1. UNCHANGED reqs
      BY DEF queues
    <3>2. location' \in [Managed -> Locations]
      BY <1>1, <3>1, MovedDebt
    <3>3. toGPU' \in Seq(Requests)
      BY <1>1, <1>2, Lists
    <3>. QED BY <1>1, <3>2, <3>3 DEF TypeOK
  <2>2. UNCHANGED <<commands, reqs, running, l2Dirty, awaiting, cyclesLeft, pendingD2H, flushed,
                    flushing, kernels, toDMA, processing, returned>>
    BY DEF queues, copier
  <2>. QED BY <1>1, <2>1, <2>2 DEF TypeOK, Locations
<1>. QED BY <1>3, <1>4, <1>5 DEF IInv

LEMMA AdmitStep ==
  ASSUME IInv, NEW p \in Managed, Admit(p)
  PROVE  IInv'
<1>1. /\ location[p] \notin {"ToGPU", "ToHost"} /\ location' = [location EXCEPT ![p] = "ToGPU"]
      /\ toGPU' = Append(toGPU, Copy("H2D", None, p)) /\ dirty' \subseteq dirty
      /\ UNCHANGED <<queues, l2Dirty, copier, flushing, kernels, toDMA, processing, returned>>
  BY DEF Admit, gpu
<1>2. moves' \in 0..MaxMoves
  BY CopiesAssumption DEF Admit, IInv, TypeOK
<1>3. \E L \in Locations, kind \in {"H2D", "D2H"} :
        L = "ToGPU" /\ kind = "H2D" /\ L = (IF kind = "H2D" THEN "ToGPU" ELSE "ToHost")
  BY DEF Locations
<1>. QED BY <1>1, <1>2, <1>3, Sent

LEMMA EvictionD2HStep ==
  ASSUME IInv, NEW p \in Managed, EvictionStartD2H(p)
  PROVE  IInv'
<1>1. /\ location[p] \notin {"ToGPU", "ToHost"} /\ location' = [location EXCEPT ![p] = "ToHost"]
      /\ toGPU' = Append(toGPU, Copy("D2H", None, p)) /\ dirty' \subseteq dirty
      /\ UNCHANGED <<queues, l2Dirty, copier, flushing, kernels, toDMA, processing, returned>>
  BY DEF EvictionStartD2H
<1>2. moves' \in 0..MaxMoves
  BY DEF EvictionStartD2H, IInv, TypeOK
<1>3. \E L \in Locations, kind \in {"H2D", "D2H"} :
        L = "ToHost" /\ kind = "D2H" /\ L = (IF kind = "H2D" THEN "ToGPU" ELSE "ToHost")
  BY DEF Locations
<1>. QED BY <1>1, <1>2, <1>3, Sent

LEMMA BeginEvictionStep ==
  ASSUME IInv, NEW p \in Managed, BeginEviction(p)
  PROVE  IInv'
<1>1. TypeOK /\ OwnRequests /\ Deferred
  BY DEF IInv
<1>2. /\ location[p] = "GPU" /\ location' = [location EXCEPT ![p] = "Flushing"]
      /\ UNCHANGED <<commands, reqs, running, l2Dirty, awaiting, cyclesLeft, pendingD2H, flushed,
                     toGPU, flushing, kernels, toDMA, processing, dirty, returned>>
  BY DEF BeginEviction, queues, copier, gpu
<1>3. OwnRequests' /\ Deferred'
  BY <1>1, <1>2, QueuesAlone DEF queues
<1>4. "Flushing" \in Locations
  BY DEF Locations
<1>5. /\ location' \in [Managed -> Locations]
      /\ \A r \in Requests : Owes(r)' <=> IF r.queue = None /\ r.page = p THEN FALSE ELSE Owes(r)
  BY <1>1, <1>2, <1>4, MovedDebt
<1>6. ASSUME NEW r \in Requests PROVE Counted(r)'
  <2>1. Owes(r)' <=> Owes(r)
    BY <1>2, <1>5 DEF Owes
  <2>2. Places(r)' = Places(r)
    BY <1>2 DEF Places
  <2>. QED BY <2>1, <2>2 DEF Counted, IInv
<1>7. moves' \in 0..MaxMoves
  BY <1>1, CopiesAssumption DEF BeginEviction, TypeOK
<1>8. TypeOK'
  BY <1>1, <1>2, <1>5, <1>7 DEF TypeOK, Locations
<1>. QED BY <1>3, <1>6, <1>8 DEF IInv

LEMMA ClaimStep ==
  ASSUME IInv, ClaimUVMDMAReturn
  PROVE  IInv'
<1>. DEFINE h == Head(returned)
            p == Head(returned).page
            L == IF location[p] = "ToGPU" THEN "GPU" ELSE "Host"
<1>1. TypeOK /\ OwnRequests /\ Deferred
  BY DEF IInv
<1>2. /\ returned # <<>> /\ h.queue = None /\ returned' = Tail(returned)
      /\ UNCHANGED <<commands, reqs, running, l2Dirty, awaiting, cyclesLeft, pendingD2H, flushed,
                     toGPU, flushing, kernels, toDMA, processing, dirty, moves>>
  BY DEF ClaimUVMDMAReturn, queues, copier, gpu
<1>3. h \in Requests /\ h \in Migrations /\ p \in Managed /\ Owes(h) /\ Tail(returned) \in Seq(Requests)
  BY <1>2, HeadOwed, RequestKinds
<1>4. location' = [location EXCEPT ![p] = L]
  BY DEF ClaimUVMDMAReturn, Landed
<1>. HIDE DEF L
<1>5. L \in Locations /\ L \notin {"ToGPU", "ToHost"}
  BY DEF L, Locations
<1>6. OwnRequests' /\ Deferred'
  BY <1>1, <1>2, QueuesAlone DEF queues
<1>7. /\ location' \in [Managed -> Locations]
      /\ \A r \in Requests :
           Owes(r)' <=> IF r.queue = None /\ r.page = p THEN FALSE ELSE Owes(r)
  <2>. HIDE DEF p
  <2>. QED BY <1>1, <1>2, <1>3, <1>4, <1>5, MovedDebt
<1>8. ASSUME NEW r \in Requests PROVE Counted(r)'
  <2>1. r.queue = None /\ r.page = p /\ Owes(r) => r = h
    <3>1. r.queue = None => r \in Migrations
      BY RequestKinds
    <3>2. \A a, b \in Migrations : a.page = b.page /\ a.kind = b.kind => a = b
      BY DEF Migrations
    <3>3. h.page = p /\ h.kind \in {"H2D", "D2H"}
      BY <1>3 DEF Migrations
    <3>4. r.queue = None /\ r.page = p /\ Owes(r) => r.kind = h.kind
      <4>1. r \in Migrations => r.kind \in {"H2D", "D2H"}
        BY DEF Migrations
      <4>. QED BY <1>2, <1>3, <3>1, <3>3, <4>1 DEF Owes
    <3>. QED BY <1>3, <3>1, <3>2, <3>3, <3>4
  <2>2. /\ r = h => Places(r)' = 0
        /\ r # h => Places(r)' = Places(r)
    BY <1>2, Consumed DEF gpu
  <2>. QED BY <1>2, <1>7, <2>1, <2>2 DEF Counted, IInv
<1>9. TypeOK'
  BY <1>1, <1>2, <1>3, <1>7 DEF TypeOK, Locations
<1>. QED BY <1>6, <1>8, <1>9 DEF IInv

-----------------------------------------------------------------------------
(* The GPU: requests move from place to place.                             *)

(* The first request to the GPU. *)
LEMMA HandledRequest ==
  ASSUME IInv, toGPU # <<>>
  PROVE  /\ Head(toGPU) \in Requests /\ Tail(toGPU) \in Seq(Requests)
         /\ Head(toGPU) \notin Held
         /\ \A r : Times(toGPU, r) = Times(Tail(toGPU), r) + (IF Head(toGPU) = r THEN 1 ELSE 0)
         /\ \A r : Times(Tail(toGPU), r) \in Nat
<1>. DEFINE h == Head(toGPU)
<1>1. TypeOK /\ toGPU \in Seq(Requests)
  BY Lists DEF IInv
<1>2. /\ h \in Requests /\ Tail(toGPU) \in Seq(Requests)
      /\ \A r : Times(toGPU, r) = Times(Tail(toGPU), r) + (IF h = r THEN 1 ELSE 0)
  BY <1>1, TimesTail
<1>3. \A r : Times(Tail(toGPU), r) \in Nat
  BY <1>2, TimesType
<1>4. Times(toGPU, h) > 0
  BY <1>2, <1>3
<1>5. Places(h) # 0
  BY <1>1, <1>4, PlacesCount, SMTT(30)
<1>6. Places(h) = 1
  BY <1>2, <1>5, InPlace
<1>7. h \notin Held
  BY <1>1, <1>4, <1>6, PlacesCount
<1>. QED BY <1>2, <1>3, <1>7

(* From the port of the command processor to what it works on. *)
LEMMA TakenUp ==
  ASSUME IInv, toGPU # <<>>, toGPU' = Tail(toGPU),
         \A r \in Requests : r \in Held' <=> r \in Held \/ r = Head(toGPU),
         UNCHANGED <<awaiting, toDMA, returned>>, NEW r \in Requests
  PROVE  Places(r)' = Places(r)
<1>1. TypeOK
  BY DEF IInv
<1>2. Times(toGPU', r) = Times(toGPU, r) - (IF Head(toGPU) = r THEN 1 ELSE 0)
  BY HandledRequest
<1>3. /\ Times(awaiting', r) = Times(awaiting, r)
      /\ Times(toDMA', r) = Times(toDMA, r) /\ Times(returned', r) = Times(returned, r)
  OBVIOUS
<1>4. (r \in Held' <=> r \in Held \/ r = Head(toGPU)) /\ Head(toGPU) \notin Held
  BY HandledRequest
<1>5. /\ Times(awaiting, r) \in Nat /\ Times(toGPU, r) \in Nat
      /\ Times(toDMA, r) \in Nat /\ Times(returned, r) \in Nat
      /\ Places(r) = Times(awaiting, r) + Times(toGPU, r) + Times(toDMA, r) + Times(returned, r)
                        + (IF r \in Held THEN 1 ELSE 0)
  BY <1>1, PlacesCount
<1>6. Places(r)' = Times(awaiting', r) + Times(toGPU', r) + Times(toDMA', r) + Times(returned', r)
                     + (IF r \in Held' THEN 1 ELSE 0)
  BY DEF Places, Held
<1>7. CASE r = Head(toGPU)
  <2>1. r \in Held' /\ r \notin Held /\ Times(toGPU', r) = Times(toGPU, r) - 1
    BY <1>2, <1>4, <1>7
  <2>. QED BY <1>3, <1>5, <1>6, <2>1
<1>8. CASE r # Head(toGPU)
  <2>1. (r \in Held' <=> r \in Held) /\ Times(toGPU', r) = Times(toGPU, r)
    BY <1>2, <1>4, <1>5, <1>8
  <2>. QED BY <1>3, <1>5, <1>6, <2>1
<1>. QED BY <1>7, <1>8

(* From what is worked on to the responses. *)
LEMMA HandedBack ==
  ASSUME IInv, NEW h \in Requests, h \in Held, returned' = Append(returned, h),
         \A r \in Requests : r \in Held' <=> r \in Held /\ r # h,
         UNCHANGED <<awaiting, toGPU, toDMA>>, NEW r \in Requests
  PROVE  Places(r)' = Places(r)
<1>1. TypeOK
  BY DEF IInv
<1>2. Times(returned', r) = Times(returned, r) + (IF h = r THEN 1 ELSE 0)
  BY <1>1, Lists, TimesAppend
<1>3. /\ Times(awaiting', r) = Times(awaiting, r)
      /\ Times(toDMA', r) = Times(toDMA, r) /\ Times(toGPU', r) = Times(toGPU, r)
  OBVIOUS
<1>4. r \in Held' <=> r \in Held /\ r # h
  OBVIOUS
<1>. QED BY <1>1, <1>2, <1>3, <1>4, Lists DEF Places, Held

(* What moves leaves everything else as it is. *)
LEMMA GPUStep ==
  ASSUME IInv, UNCHANGED <<queues, l2Dirty, copier, uvm>>,
         toGPU' \in Seq(Requests), flushing' \in Flushes \cup {None}, kernels' \subseteq Launches,
         toDMA' \in Seq(Copies), processing' \subseteq Copies, returned' \in Seq(Requests),
         dirty' \subseteq Pages, \A r \in Requests : Places(r)' = Places(r)
  PROVE  IInv'
<1>1. UNCHANGED <<commands, reqs, running, l2Dirty, awaiting, cyclesLeft, pendingD2H, flushed,
                  location, moves>>
  BY DEF queues, copier, uvm
<1>2. TypeOK'
  BY <1>1 DEF IInv, TypeOK
<1>3. OwnRequests' /\ Deferred'
  BY <1>1, QueuesAlone DEF IInv, queues
<1>4. \A r \in Requests : Counted(r)'
  BY <1>1, Moved
<1>. QED BY <1>2, <1>3, <1>4 DEF IInv

LEMMA LaunchReqStep ==
  ASSUME IInv, ProcessLaunchKernelReq
  PROVE  IInv'
<1>. DEFINE h == Head(toGPU)
<1>1. /\ toGPU # <<>> /\ toGPU' = Tail(toGPU) /\ h.kind = "Launch" /\ kernels' = kernels \cup {h}
      /\ UNCHANGED <<queues, l2Dirty, copier, uvm>>
      /\ UNCHANGED <<awaiting, flushing, toDMA, processing, returned, dirty>>
  BY DEF ProcessLaunchKernelReq, Handles, copier
<1>2. h \in Requests /\ h \in Launches /\ Tail(toGPU) \in Seq(Requests)
  BY <1>1, HandledRequest, RequestKinds
<1>3. \A r \in Requests : r \in Held' <=> r \in Held \/ r = h
  BY <1>1 DEF Held
<1>4. \A r \in Requests : Places(r)' = Places(r)
  BY <1>1, <1>3, TakenUp
<1>5. kernels' \subseteq Launches
  BY <1>1, <1>2 DEF IInv, TypeOK
<1>6. /\ flushing' \in Flushes \cup {None} /\ toDMA' \in Seq(Copies) /\ processing' \subseteq Copies
      /\ returned' \in Seq(Requests) /\ dirty' \subseteq Pages /\ toGPU' \in Seq(Requests)
  BY <1>1, <1>2 DEF IInv, TypeOK
<1>. QED BY <1>1, <1>4, <1>5, <1>6, GPUStep

LEMMA FlushReqStep ==
  ASSUME IInv, ProcessFlushReq
  PROVE  IInv'
<1>. DEFINE h == Head(toGPU)
<1>1. /\ toGPU # <<>> /\ toGPU' = Tail(toGPU) /\ h.kind = "Flush" /\ flushing = None /\ flushing' = h
      /\ UNCHANGED <<queues, l2Dirty, copier, uvm>>
      /\ UNCHANGED <<awaiting, kernels, toDMA, processing, returned, dirty>>
  BY DEF ProcessFlushReq, Handles, copier
<1>2. h \in Requests /\ h \in Flushes /\ Tail(toGPU) \in Seq(Requests)
  BY <1>1, HandledRequest, RequestKinds
<1>3. \A r \in Requests : r \in Held' <=> r \in Held \/ r = h
  BY <1>1, RequestKinds DEF Held
<1>4. \A r \in Requests : Places(r)' = Places(r)
  BY <1>1, <1>3, TakenUp
<1>5. /\ flushing' \in Flushes \cup {None} /\ kernels' \subseteq Launches /\ toDMA' \in Seq(Copies)
      /\ processing' \subseteq Copies /\ returned' \in Seq(Requests) /\ dirty' \subseteq Pages
      /\ toGPU' \in Seq(Requests)
  BY <1>1, <1>2 DEF IInv, TypeOK
<1>. QED BY <1>1, <1>4, <1>5, GPUStep

LEMMA CopyReqStep ==
  ASSUME IInv, ProcessMemCopyReq
  PROVE  IInv'
<1>. DEFINE h == Head(toGPU)
<1>1. /\ toGPU # <<>> /\ toGPU' = Tail(toGPU) /\ h.kind \in {"H2D", "D2H"} /\ toDMA' = Append(toDMA, h)
      /\ UNCHANGED <<queues, l2Dirty, copier, uvm>>
      /\ UNCHANGED <<awaiting, flushing, kernels, processing, returned, dirty>>
  BY DEF ProcessMemCopyReq, Handles, copier
<1>2. h \in Requests /\ h \in Copies /\ Tail(toGPU) \in Seq(Requests) /\ TypeOK
  BY <1>1, HandledRequest, RequestKinds DEF IInv
<1>3. ASSUME NEW r \in Requests PROVE Places(r)' = Places(r)
  <2>1. Times(toDMA', r) = Times(toDMA, r) + (IF h = r THEN 1 ELSE 0)
    BY <1>1, <1>2, Lists, TimesAppend
  <2>2. Times(toGPU', r) = Times(toGPU, r) - (IF h = r THEN 1 ELSE 0)
    BY <1>1, HandledRequest
  <2>. QED BY <1>1, <1>2, <2>1, <2>2, Lists DEF Places
<1>4. /\ flushing' \in Flushes \cup {None} /\ kernels' \subseteq Launches /\ toDMA' \in Seq(Copies)
      /\ processing' \subseteq Copies /\ returned' \in Seq(Requests) /\ dirty' \subseteq Pages
      /\ toGPU' \in Seq(Requests)
  BY <1>1, <1>2 DEF TypeOK
<1>. QED BY <1>1, <1>3, <1>4, GPUStep

LEMMA CacheFlushStep ==
  ASSUME IInv, ProcessRegularCacheFlush
  PROVE  IInv'
<1>1. /\ flushing # None /\ dirty' = {} /\ flushing' = None /\ returned' = Append(returned, flushing)
      /\ UNCHANGED <<queues, l2Dirty, copier, uvm>>
      /\ UNCHANGED <<awaiting, toGPU, kernels, toDMA, processing>>
  BY DEF ProcessRegularCacheFlush, copier
<1>2. flushing \in Flushes /\ flushing \in Requests /\ flushing \in Held /\ TypeOK
  BY <1>1 DEF IInv, TypeOK, Held, Requests
<1>3. flushing \notin kernels /\ flushing \notin processing
  BY <1>2 DEF TypeOK, Launches, Flushes, Copies, UserCopies, Migrations
<1>4. \A r \in Requests : r \in Held' <=> r \in Held /\ r # flushing
  BY <1>1, <1>3, RequestKinds DEF Held
<1>5. \A r \in Requests : Places(r)' = Places(r)
  BY <1>1, <1>2, <1>4, HandedBack
<1>6. /\ flushing' \in Flushes \cup {None} /\ kernels' \subseteq Launches /\ toDMA' \in Seq(Copies)
      /\ processing' \subseteq Copies /\ returned' \in Seq(Requests) /\ dirty' \subseteq Pages
      /\ toGPU' \in Seq(Requests)
  BY <1>1, <1>2 DEF TypeOK
<1>. QED BY <1>1, <1>5, <1>6, GPUStep

LEMMA KernelWritesStep ==
  ASSUME IInv, NEW k \in kernels, NEW p \in Pages, KernelWrites(k, p)
  PROVE  IInv'
<1>1. /\ dirty' = dirty \cup {p}
      /\ UNCHANGED <<queues, l2Dirty, copier, uvm>>
      /\ UNCHANGED <<awaiting, toGPU, flushing, kernels, toDMA, processing, returned>>
  BY DEF KernelWrites, copier
<1>2. \A r \in Requests : Places(r)' = Places(r)
  BY <1>1 DEF Places
<1>3. /\ flushing' \in Flushes \cup {None} /\ kernels' \subseteq Launches /\ toDMA' \in Seq(Copies)
      /\ processing' \subseteq Copies /\ returned' \in Seq(Requests) /\ dirty' \subseteq Pages
      /\ toGPU' \in Seq(Requests)
  BY <1>1 DEF IInv, TypeOK
<1>. QED BY <1>1, <1>2, <1>3, GPUStep

LEMMA CompleteKernelStep ==
  ASSUME IInv, NEW k \in kernels, CompleteKernel(k)
  PROVE  IInv'
<1>1. /\ kernels' = kernels \ {k} /\ returned' = Append(returned, k)
      /\ UNCHANGED <<queues, l2Dirty, copier, uvm>>
      /\ UNCHANGED <<awaiting, toGPU, flushing, toDMA, processing, dirty>>
  BY DEF CompleteKernel, copier
<1>2. k \in Launches /\ k \in Requests /\ k \in Held /\ TypeOK
  BY DEF IInv, TypeOK, Held, Requests
<1>3. k # flushing /\ k \notin processing
  <2>1. k.kind = "Launch"
    BY <1>2 DEF Launches
  <2>2. k \notin Copies /\ k \notin Flushes /\ k # None
    BY <1>2, <2>1, RequestKinds
  <2>. QED BY <1>2, <2>2 DEF TypeOK
<1>4. \A r \in Requests : r \in Held' <=> r \in Held /\ r # k
  BY <1>1, <1>3 DEF Held
<1>5. \A r \in Requests : Places(r)' = Places(r)
  BY <1>1, <1>2, <1>4, HandedBack
<1>6. /\ flushing' \in Flushes \cup {None} /\ kernels' \subseteq Launches /\ toDMA' \in Seq(Copies)
      /\ processing' \subseteq Copies /\ returned' \in Seq(Requests) /\ dirty' \subseteq Pages
      /\ toGPU' \in Seq(Requests)
  BY <1>1, <1>2 DEF TypeOK
<1>. QED BY <1>1, <1>5, <1>6, GPUStep

LEMMA FinishCopyStep ==
  ASSUME IInv, NEW c \in processing, FinishCopy(c)
  PROVE  IInv'
<1>1. /\ processing' = processing \ {c} /\ returned' = Append(returned, c)
      /\ UNCHANGED <<queues, l2Dirty, copier, uvm>>
      /\ UNCHANGED <<awaiting, toGPU, flushing, kernels, toDMA, dirty>>
  BY DEF FinishCopy, copier
<1>2. c \in Copies /\ c \in Requests /\ c \in Held /\ TypeOK
  BY DEF IInv, TypeOK, Held, Requests
<1>3. c # flushing /\ c \notin kernels
  BY <1>2, RequestKinds DEF TypeOK, Launches, Flushes, Copies, UserCopies, Migrations
<1>4. \A r \in Requests : r \in Held' <=> r \in Held /\ r # c
  BY <1>1, <1>3 DEF Held
<1>5. \A r \in Requests : Places(r)' = Places(r)
  BY <1>1, <1>2, <1>4, HandedBack
<1>6. /\ flushing' \in Flushes \cup {None} /\ kernels' \subseteq Launches /\ toDMA' \in Seq(Copies)
      /\ processing' \subseteq Copies /\ returned' \in Seq(Requests) /\ dirty' \subseteq Pages
      /\ toGPU' \in Seq(Requests)
  BY <1>1, <1>2 DEF TypeOK
<1>. QED BY <1>1, <1>5, <1>6, GPUStep

(* A copy that the DMA engine takes is not yet among those it processes.   *)
LEMMA ParseStep ==
  ASSUME IInv, ParseFromCP
  PROVE  IInv'
<1>. DEFINE h == Head(toDMA)
<1>1. /\ toDMA # <<>> /\ toDMA' = Tail(toDMA) /\ processing' = processing \cup {h}
      /\ UNCHANGED <<queues, l2Dirty, copier, uvm>>
      /\ UNCHANGED <<awaiting, toGPU, flushing, kernels, returned, dirty>>
  BY DEF ParseFromCP, copier
<1>2. TypeOK /\ toDMA \in Seq(Copies)
  BY DEF IInv, TypeOK
<1>3. /\ h \in Copies /\ Tail(toDMA) \in Seq(Copies)
      /\ \A r : Times(toDMA, r) = Times(Tail(toDMA), r) + (IF h = r THEN 1 ELSE 0)
  BY <1>1, <1>2, TimesTail
<1>4. \A r : Times(Tail(toDMA), r) \in Nat
  BY <1>3, TimesType
<1>5. h \in Requests /\ Times(toDMA, h) > 0
  BY <1>3, <1>4 DEF Requests
<1>6. h \notin Held
  <2>1. Places(h) # 0
    BY <1>2, <1>5, PlacesCount
  <2>2. Places(h) = 1
    BY <1>5, <2>1, InPlace
  <2>. QED BY <1>2, <1>5, <2>2, PlacesCount
<1>7. ASSUME NEW r \in Requests PROVE Places(r)' = Places(r)
  <2>1. Times(toDMA', r) = Times(toDMA, r) - (IF h = r THEN 1 ELSE 0)
    BY <1>1, <1>3, <1>4
  <2>2. r \in Held' <=> r \in Held \/ r = h
    BY <1>1 DEF Held
  <2>. QED BY <1>1, <1>2, <1>6, <2>1, <2>2, Lists, SMTT(30) DEF Places, Held
<1>8. /\ flushing' \in Flushes \cup {None} /\ kernels' \subseteq Launches /\ toDMA' \in Seq(Copies)
      /\ processing' \subseteq Copies /\ returned' \in Seq(Requests) /\ dirty' \subseteq Pages
      /\ toGPU' \in Seq(Requests)
  BY <1>1, <1>2, <1>3 DEF TypeOK
<1>. QED BY <1>1, <1>7, <1>8, GPUStep

-----------------------------------------------------------------------------
LEMMA InitIInv == Init => IInv
<1>. SUFFICES ASSUME Init PROVE IInv
  OBVIOUS
<1>1. TypeOK
  <2>1. Cycles \in Nat /\ MaxMoves \in Nat /\ Program \in [Queues -> Seq([kind : Kinds, pages : SUBSET Pages])]
    BY CopiesAssumption
  <2>2. <<>> \in Seq(UserCopies) /\ <<>> \in Seq(Requests) /\ <<>> \in Seq(Copies) /\ 0 \in -1..Cycles
        /\ MaxMoves \in 0..MaxMoves
    BY <2>1
  <2>3. [q \in Queues |-> {}] \in [Queues -> SUBSET Requests]
    OBVIOUS
  <2>4. [p \in Managed |-> "Host"] \in [Managed -> {"Host", "ToGPU", "GPU", "Flushing", "ToHost"}]
    OBVIOUS
  <2>. QED BY <2>1, <2>2, <2>3, <2>4 DEF Init, TypeOK
<1>2. OwnRequests /\ Deferred
  BY RequestKinds DEF Init, OwnRequests, Deferred
<1>3. ASSUME NEW r \in Requests PROVE Counted(r)
  <2>1. Places(r) = 0
    BY TimesNone, RequestKinds DEF Init, Places
  <2>2. ~Owes(r)
    BY RequestKinds DEF Init, Owes
  <2>. QED BY <2>1, <2>2 DEF Counted
<1>. QED BY <1>1, <1>2, <1>3 DEF IInv

LEMMA StepIInv == IInv /\ [Next]_vars => IInv'
<1>. SUFFICES ASSUME IInv, [Next]_vars PROVE IInv'
  OBVIOUS
<1>1. CASE Driver
  BY <1>1, LaunchStep, H2DStep, D2HStep, DeferredStep, CountDownStep, CopyReturnStep,
     FlushReturnStep, LaunchReturnStep, ClaimStep DEF Driver
<1>2. CASE UVM
  BY <1>2, AdmitStep, BeginEvictionStep, EvictionD2HStep DEF UVM
<1>3. CASE GPU
  BY <1>3, LaunchReqStep, FlushReqStep, CopyReqStep, CacheFlushStep, ParseStep,
     CompleteKernelStep, KernelWritesStep, FinishCopyStep DEF GPU
<1>4. CASE UNCHANGED vars
  <2>1. UNCHANGED <<commands, reqs, running, l2Dirty, awaiting, cyclesLeft, pendingD2H, flushed,
                    toGPU, flushing, kernels, toDMA, processing, returned, dirty, location, moves>>
    BY <1>4 DEF vars
  <2>2. \A r \in Requests : Places(r)' = Places(r)
    BY <2>1 DEF Places
  <2>. QED BY <2>1, <2>2, GPUStep DEF queues, copier, uvm, IInv, TypeOK
<1>. QED BY <1>1, <1>2, <1>3, <1>4 DEF Next

LEMMA Inductive == Spec => []IInv
<1>. QED BY InitIInv, StepIInv, PTL DEF Spec

(* The queues and ports hold what may be in them, for every program.       *)
THEOREM TypeCorrect == Spec => []TypeOK
<1>1. IInv => TypeOK
  BY DEF IInv
<1>. QED BY <1>1, Inductive, PTL

(* For every program, every number of queues, pages and dispatchers: each  *)
(* request that a command or a migration waits for is on its way, or its   *)
(* response is, exactly once; no other request or response is.             *)
THEOREM EveryRequestOwedOnce == Spec => []OwedOnce
<1>1. IInv => OwedOnce
  <2>. SUFFICES ASSUME IInv, NEW r \in Requests PROVE Places(r) = IF r \in Owed THEN 1 ELSE 0
    BY DEF OwedOnce
  <2>1. r \in Owed <=> Owes(r)
    BY OwedIsOwes DEF IInv
  <2>. QED BY <2>1 DEF IInv, Counted
<1>. QED BY <1>1, Inductive, PTL

-----------------------------------------------------------------------------
(* Copies see memory.                                                      *)
(*                                                                         *)
(* A copy that may find newer data in the caches has a flush before it, on *)
(* the one way that both take.                                             *)

(* No command of a queue copies what a kernel of another queue may write:  *)
(* their order is the program's business.                                  *)
NoRaces ==
  \A q, s \in Queues : q # s =>
    \A i \in 1..Len(Program[q]), j \in 1..Len(Program[s]) :
      Program[q][i].kind = "Kernel" /\ Program[s][j].kind # "Kernel"
        => Program[q][i].pages \cap Program[s][j].pages = {}

OfProgram ==
  \A q \in Queues : \A i \in 1..Len(commands[q]) :
    \E j \in 1..Len(Program[q]) : commands[q][i] = Program[q][j]

(* A queue awaits what its first command asks for. *)
Fits(r, cmd) ==
  /\ r.kind = "Launch" => cmd.kind = "Kernel"
  /\ r.kind \in {"H2D", "D2H"} => cmd.kind # "Kernel" /\ r.page \in cmd.pages

Fitting == \A q \in Queues : \A r \in reqs[q] : Fits(r, Head(commands[q]))

(* The middleware knows of every kernel, and what is dirty. *)
Marked ==
  ~l2Dirty =>
    dirty = {} /\ kernels = {} /\ \A i \in 1..Len(toGPU) : toGPU[i].kind # "Launch"

(* The caches hold nothing of a managed page that is on its way or away. *)
OffGPU == \A p \in Managed : location[p] \in {"Host", "ToGPU", "ToHost"} => p \notin dirty

(* A flush reaches the caches before what is at place i to the GPU. *)
FlushBefore(i) == flushing # None \/ \E j \in 1..(i - 1) : toGPU[j].kind = "Flush"

(* The pages of what waits in the middleware. *)
AwaitingPages  == {r.page : r \in Elements(awaiting)}
DeferringPages == IF pendingD2H = None THEN {} ELSE Head(commands[pendingD2H]).pages

DMAClean   == \A r \in processing \cup Elements(toDMA) : r.page \notin dirty
LineClean  == \A i \in 1..Len(toGPU) : toGPU[i].page \in dirty => FlushBefore(i)
AwaitClean == \A p \in dirty : p \in AwaitingPages => FlushBefore(Len(toGPU) + 1)
DeferClean == \A p \in dirty : p \in DeferringPages => FlushBefore(Len(toGPU) + 1)

FlushedFirst ==
  /\ OfProgram /\ Fitting /\ Marked /\ OffGPU
  /\ DMAClean /\ LineClean /\ AwaitClean /\ DeferClean

(* A kernel writes no page that a copy is on its way for, or deferred for. *)
LEMMA KernelsApart ==
  ASSUME NoRaces, IInv, OfProgram, Fitting, NEW k \in kernels,
         NEW p \in OnGPU(Head(commands[k.queue]).pages)
  PROVE  /\ \A c \in Requests : c.kind \in {"H2D", "D2H"} /\ Places(c) # 0 => c.page # p
         /\ p \notin DeferringPages
         /\ p \in Managed => location[p] = "GPU"
<1>. DEFINE q == k.queue
<1>0. TypeOK /\ OwnRequests /\ Deferred
  BY DEF IInv
<1>1. k \in Requests /\ k.kind = "Launch" /\ q \in Queues /\ k \in Held
  BY <1>0 DEF TypeOK, Launches, Requests, Held
<1>2. Owes(k)
  <2>1. Places(k) # 0
    BY <1>0, <1>1, PlacesCount
  <2>. QED BY <1>1, <2>1, InPlace
<1>3. k \in reqs[q]
  BY <1>1, <1>2, RequestKinds DEF Owes
<1>4. commands[q] # <<>> /\ Head(commands[q]).kind = "Kernel"
  BY <1>0, <1>1, <1>3 DEF Fitting, Fits, OwnRequests
<1>5. p \in Head(commands[q]).pages /\ (p \in Managed => location[p] = "GPU")
  BY DEF OnGPU
<1>6. ASSUME NEW s \in Queues, commands[s] # <<>>, Head(commands[s]).kind # "Kernel"
      PROVE  p \notin Head(commands[s]).pages
  <2>1. s # q
    BY <1>4, <1>6
  <2>2. commands[q] \in Seq(Commands) /\ commands[s] \in Seq(Commands)
    BY <1>0, <1>1 DEF TypeOK, Commands
  <2>3. /\ 1 \in 1..Len(commands[q]) /\ Head(commands[q]) = commands[q][1]
        /\ 1 \in 1..Len(commands[s]) /\ Head(commands[s]) = commands[s][1]
    BY <1>4, <1>6, <2>2
  <2>4. PICK i \in 1..Len(Program[q]) : Head(commands[q]) = Program[q][i]
    BY <1>1, <2>3, SMTT(30) DEF OfProgram
  <2>5. PICK j \in 1..Len(Program[s]) : Head(commands[s]) = Program[s][j]
    BY <2>3 DEF OfProgram
  <2>6. Program[q][i].pages \cap Program[s][j].pages = {}
    BY <1>1, <1>4, <1>6, <2>1, <2>4, <2>5 DEF NoRaces
  <2>. QED BY <1>5, <2>4, <2>5, <2>6
<1>7. ASSUME NEW c \in Requests, c.kind \in {"H2D", "D2H"}, Places(c) # 0
      PROVE  c.page # p
  <2>1. Owes(c)
    BY <1>7, InPlace
  <2>2. CASE c.queue = None
    <3>1. c.page \in Managed /\ location[c.page] # "GPU"
      BY <2>1, <2>2, RequestKinds DEF Owes
    <3>. QED BY <1>5, <3>1
  <2>3. CASE c.queue # None
    <3>1. c.queue \in Queues /\ c \in reqs[c.queue]
      BY <2>1, <2>3, RequestKinds DEF Owes
    <3>2. /\ commands[c.queue] # <<>> /\ Head(commands[c.queue]).kind # "Kernel"
          /\ c.page \in Head(commands[c.queue]).pages
      BY <1>0, <1>7, <3>1 DEF Fitting, Fits, OwnRequests
    <3>. QED BY <1>6, <3>1, <3>2
  <2>. QED BY <2>2, <2>3
<1>8. p \notin DeferringPages
  <2>. SUFFICES ASSUME pendingD2H # None PROVE p \notin Head(commands[pendingD2H]).pages
    BY DEF DeferringPages
  <2>1. pendingD2H \in Queues /\ commands[pendingD2H] # <<>> /\ Head(commands[pendingD2H]).kind = "D2H"
    BY <1>0 DEF TypeOK, Deferred, OwnRequests
  <2>. QED BY <1>6, <2>1
<1>. QED BY <1>5, <1>7, <1>8

(* The line to the GPU gets longer at its end. *)
LEMMA LineGrows ==
  ASSUME TypeOK, LineClean, NEW F \in Seq(Requests), toGPU' = toGPU \o F,
         UNCHANGED flushing, dirty' \subseteq dirty,
         \A i \in 1..Len(F) : F[i].page \in dirty' => FlushBefore(Len(toGPU) + 1)
  PROVE  /\ LineClean'
         /\ FlushBefore(Len(toGPU) + 1) => FlushBefore(Len(toGPU) + 1)'
         /\ Len(F) > 0 /\ F[1].kind = "Flush" => FlushBefore(Len(toGPU) + 1)'
<1>. DEFINE n == Len(toGPU)
<1>0. toGPU \in Seq(Requests) /\ F \in Seq(Requests)
  BY Lists
<1>1. /\ n \in Nat /\ Len(F) \in Nat /\ Len(toGPU') = n + Len(F)
      /\ \A i \in 1..n : toGPU'[i] = toGPU[i]
      /\ \A i \in 1..Len(F) : toGPU'[n + i] = F[i]
  BY <1>0
<1>. HIDE DEF n
<1>2. ASSUME NEW i \in 1..(n + 1), NEW k \in Nat, i <= k, FlushBefore(i)
      PROVE  flushing' # None \/ \E j \in 1..(k - 1) : toGPU'[j].kind = "Flush"
  <2>. SUFFICES ASSUME flushing = None PROVE \E j \in 1..(k - 1) : toGPU'[j].kind = "Flush"
    OBVIOUS
  <2>1. PICK j \in 1..(i - 1) : toGPU[j].kind = "Flush"
    BY <1>2 DEF FlushBefore
  <2>2. j \in 1..n /\ j \in 1..(k - 1)
    BY <1>1, <1>2
  <2>. QED BY <1>1, <2>1, <2>2
<1>3. LineClean'
  <2>. SUFFICES ASSUME NEW i \in 1..Len(toGPU'), toGPU'[i].page \in dirty'
                PROVE  flushing' # None \/ \E j \in 1..(i - 1) : toGPU'[j].kind = "Flush"
    BY DEF LineClean, FlushBefore
  <2>0. i \in Nat
    BY <1>1
  <2>1. CASE i <= n
    <3>1. i \in 1..n /\ i \in 1..(n + 1) /\ i <= i /\ i \in 1..Len(toGPU)
      BY <1>1, <2>0, <2>1 DEF n
    <3>2. toGPU[i].page \in dirty
      BY <1>1, <3>1
    <3>3. FlushBefore(i)
      BY <3>1, <3>2 DEF LineClean
    <3>. QED BY <1>2, <2>0, <3>1, <3>3
  <2>2. CASE i > n
    <3>1. i - n \in 1..Len(F) /\ n + (i - n) = i /\ n + 1 \in 1..(n + 1) /\ n + 1 <= i
      BY <1>1, <2>0, <2>2
    <3>2. F[i - n].page \in dirty'
      BY <1>1, <3>1
    <3>3. FlushBefore(n + 1)
      BY <3>1, <3>2 DEF n
    <3>. QED BY <1>2, <2>0, <3>1, <3>3
  <2>. QED BY <1>1, <2>0, <2>1, <2>2
<1>4. FlushBefore(Len(toGPU) + 1) => FlushBefore(Len(toGPU) + 1)'
  <2>. DEFINE i == n + 1
              k == Len(toGPU') + 1
  <2>1. FlushBefore(Len(toGPU) + 1) <=> FlushBefore(i)
    BY DEF n
  <2>2. FlushBefore(Len(toGPU) + 1)'
          <=> flushing' # None \/ \E j \in 1..(k - 1) : toGPU'[j].kind = "Flush"
    BY DEF FlushBefore
  <2>3. i \in 1..(n + 1) /\ k \in Nat /\ i <= k
    BY <1>1
  <2>. HIDE DEF i, k
  <2>4. FlushBefore(i) => flushing' # None \/ \E j \in 1..(k - 1) : toGPU'[j].kind = "Flush"
    BY <1>2, <2>3
  <2>. QED BY <2>1, <2>2, <2>4
<1>5. Len(F) > 0 /\ F[1].kind = "Flush" => FlushBefore(Len(toGPU) + 1)'
  <2>. SUFFICES ASSUME Len(F) > 0, F[1].kind = "Flush"
                PROVE  \E j \in 1..(Len(toGPU') + 1 - 1) : toGPU'[j].kind = "Flush"
    BY DEF FlushBefore
  <2>1. 1 \in 1..Len(F) /\ n + 1 \in 1..(Len(toGPU') + 1 - 1)
    BY <1>1
  <2>. QED BY <1>1, <2>1
<1>. QED BY <1>3, <1>4, <1>5

(* The first of the line is taken; a flush is under way at once. *)
LEMMA LineMoves ==
  ASSUME TypeOK, LineClean, toGPU # <<>>, toGPU' = Tail(toGPU), UNCHANGED dirty,
         flushing # None \/ Head(toGPU).kind = "Flush" => flushing' # None
  PROVE  /\ LineClean'
         /\ FlushBefore(Len(toGPU) + 1) => FlushBefore(Len(toGPU) + 1)'
         /\ Head(toGPU).page \in dirty => flushing # None
<1>. DEFINE n == Len(toGPU)
<1>0. toGPU \in Seq(Requests)
  BY Lists
<1>1. /\ n \in Nat \ {0} /\ Len(toGPU') = n - 1
      /\ Head(toGPU) = toGPU[1]
      /\ \A i \in 1..(n - 1) : toGPU'[i] = toGPU[i + 1]
  BY <1>0
<1>. HIDE DEF n
<1>2. ASSUME NEW i \in 2..(n + 1), FlushBefore(i)
      PROVE  flushing' # None \/ \E j \in 1..(i - 1 - 1) : toGPU'[j].kind = "Flush"
  <2>. SUFFICES ASSUME flushing = None, toGPU[1].kind # "Flush"
                PROVE  \E j \in 1..(i - 1 - 1) : toGPU'[j].kind = "Flush"
    BY <1>1
  <2>1. PICK j \in 1..(i - 1) : toGPU[j].kind = "Flush"
    BY <1>2 DEF FlushBefore
  <2>2. j # 1
    BY <2>1
  <2>3. j - 1 \in 1..(i - 1 - 1) /\ j - 1 \in 1..(n - 1) /\ (j - 1) + 1 = j
    BY <1>1, <2>1, <2>2
  <2>4. toGPU'[j - 1] = toGPU[j]
    BY <1>1, <2>3
  <2>. QED BY <2>1, <2>3, <2>4
<1>3. LineClean'
  <2>. SUFFICES ASSUME NEW i \in 1..Len(toGPU'), toGPU'[i].page \in dirty
                PROVE  flushing' # None \/ \E j \in 1..(i - 1) : toGPU'[j].kind = "Flush"
    BY DEF LineClean, FlushBefore
  <2>1. i + 1 \in 1..n /\ i + 1 \in 2..(n + 1) /\ (i + 1) - 1 = i /\ toGPU[i + 1].page \in dirty
    BY <1>1
  <2>2. FlushBefore(i + 1)
    BY <2>1 DEF LineClean, n
  <2>3. flushing' # None \/ \E j \in 1..(i + 1 - 1 - 1) : toGPU'[j].kind = "Flush"
    BY <1>2, <2>1, <2>2
  <2>4. i + 1 - 1 - 1 = i - 1
    BY <1>1
  <2>. QED BY <2>3, <2>4
<1>4. FlushBefore(Len(toGPU) + 1) => FlushBefore(Len(toGPU) + 1)'
  <2>. DEFINE i == n + 1
              k == Len(toGPU') + 1
  <2>1. FlushBefore(Len(toGPU) + 1) <=> FlushBefore(i)
    BY DEF n
  <2>2. FlushBefore(Len(toGPU) + 1)'
          <=> flushing' # None \/ \E j \in 1..(k - 1) : toGPU'[j].kind = "Flush"
    BY DEF FlushBefore
  <2>3. i \in 2..(n + 1) /\ i - 1 - 1 = k - 1
    BY <1>1
  <2>. HIDE DEF i, k
  <2>4. FlushBefore(i) => flushing' # None \/ \E j \in 1..(i - 1 - 1) : toGPU'[j].kind = "Flush"
    BY <1>2, <2>3
  <2>. QED BY <2>1, <2>2, <2>3, <2>4
<1>5. Head(toGPU).page \in dirty => flushing # None
  <2>. SUFFICES ASSUME toGPU[1].page \in dirty PROVE flushing # None
    BY <1>1
  <2>1. 1 \in 1..Len(toGPU)
    BY <1>1 DEF n
  <2>2. FlushBefore(1)
    BY <2>1 DEF LineClean
  <2>. QED BY <2>2 DEF FlushBefore
<1>. QED BY <1>3, <1>4, <1>5

(* What the parts rest on stays. *)
LEMMA QueuesFit ==
  ASSUME OfProgram, Fitting, UNCHANGED <<commands, reqs>>
  PROVE  OfProgram' /\ Fitting'
BY DEF OfProgram, Fitting

LEMMA SettledFits ==
  ASSUME IInv, OfProgram, Fitting, NEW q \in Queues, commands[q] # <<>>,
         NEW R \in SUBSET Requests, \A r \in R : r.queue = q,
         Settle(q, R) \/ Await(q, R), \A r \in R : Fits(r, Head(commands[q]))
  PROVE  OfProgram' /\ Fitting'
<1>1. TypeOK /\ OwnRequests
  BY DEF IInv
<1>2. /\ reqs' = [reqs EXCEPT ![q] = R] /\ reqs \in [Queues -> SUBSET Requests]
      /\ \A p \in Queues \ {q} : commands'[p] = commands[p]
  BY <1>1, Settled DEF TypeOK
<1>3. \/ commands'[q] = commands[q]
      \/ commands'[q] = Tail(commands[q]) /\ R = {}
  BY <1>1 DEF Settle, Complete, Await, TypeOK
<1>4. commands[q] \in Seq(Commands)
  BY <1>1 DEF TypeOK, Commands
<1>5. OfProgram'
  <2>. SUFFICES ASSUME NEW s \in Queues, NEW i \in 1..Len(commands'[s])
                PROVE  \E j \in 1..Len(Program[s]) : commands'[s][i] = Program[s][j]
    BY DEF OfProgram
  <2>1. CASE commands'[s] = commands[s]
    BY <2>1 DEF OfProgram
  <2>2. CASE s = q /\ commands'[q] = Tail(commands[q])
    <3>1. i + 1 \in 1..Len(commands[q]) /\ commands'[q][i] = commands[q][i + 1]
      BY <1>4, <2>2
    <3>2. \E j \in 1..Len(Program[q]) : commands[q][i + 1] = Program[q][j]
      BY <3>1 DEF OfProgram
    <3>. QED BY <2>2, <3>1, <3>2
  <2>. QED BY <1>2, <1>3, <2>1, <2>2
<1>6. Fitting'
  <2>. SUFFICES ASSUME NEW s \in Queues, NEW r \in reqs'[s] PROVE Fits(r, Head(commands'[s]))
    BY DEF Fitting, Fits
  <2>1. CASE s # q
    <3>1. reqs'[s] = reqs[s] /\ commands'[s] = commands[s]
      BY <1>2, <2>1
    <3>. QED BY <3>1 DEF Fitting
  <2>2. CASE s = q
    <3>1. reqs'[q] = R
      BY <1>2
    <3>. QED BY <1>3, <2>2, <3>1
  <2>. QED BY <2>1, <2>2
<1>. QED BY <1>5, <1>6

LEMMA LineAlone ==
  ASSUME LineClean, UNCHANGED <<toGPU, flushing>>, dirty' \subseteq dirty
  PROVE  LineClean' /\ (FlushBefore(Len(toGPU) + 1) => FlushBefore(Len(toGPU) + 1)')
BY DEF LineClean, FlushBefore

(* What waits stays behind its flush. *)
LEMMA WaitAlone ==
  ASSUME AwaitClean, DeferClean, dirty' \subseteq dirty,
         FlushBefore(Len(toGPU) + 1) => FlushBefore(Len(toGPU) + 1)',
         AwaitingPages' \subseteq AwaitingPages, DeferringPages' \subseteq DeferringPages
  PROVE  AwaitClean' /\ DeferClean'
BY DEF AwaitClean, DeferClean

LEMMA DeferringAlone ==
  ASSUME UNCHANGED pendingD2H, pendingD2H # None => commands'[pendingD2H] = commands[pendingD2H]
  PROVE  DeferringPages' = DeferringPages
BY DEF DeferringPages

LEMMA FirstIsFlush ==
  ASSUME NEW q \in Queues
  PROVE  /\ FlushFirst(q) \in Seq(Requests)
         /\ \A i \in 1..Len(FlushFirst(q)) : FlushFirst(q)[i] = FlushOf(q)
         /\ l2Dirty => Len(FlushFirst(q)) > 0 /\ FlushFirst(q)[1].kind = "Flush"
<1>. DEFINE f == FlushOf(q)
<1>1. f \in Requests /\ f.kind = "Flush"
  BY RequestKinds DEF FlushOf
<1>. HIDE DEF f
<1>2. FlushFirst(q) = IF l2Dirty THEN <<f>> ELSE <<>>
  BY DEF FlushFirst, f
<1>3. /\ FlushFirst(q) \in Seq(Requests)
      /\ \A i \in 1..Len(FlushFirst(q)) : FlushFirst(q)[i] = f
      /\ l2Dirty => Len(FlushFirst(q)) > 0 /\ FlushFirst(q)[1].kind = "Flush"
  BY <1>1, <1>2
<1>. QED BY <1>3 DEF f

(* A command is split into copies of its kind, of its pages. *)
LEMMA CopyPages ==
  ASSUME TypeOK, NEW q \in Queues, commands[q] # <<>>,
         Head(commands[q]).kind \in {"H2D", "D2H"}
  PROVE  \A r \in Elements(CopyRequests(q)) :
           Fits(r, Head(commands[q])) /\ r.page \in Head(commands[q]).pages
<1>. DEFINE cmd == Head(commands[q])
            S   == OnGPU(cmd.pages)
            on  == Ascending(S)
<1>1. cmd \in Commands
  <2>1. commands[q] \in Seq(Commands)
    BY DEF TypeOK, Commands
  <2>. QED BY <2>1
<1>2. S \in SUBSET Pages /\ S \subseteq cmd.pages /\ Pages \subseteq Int /\ IsFiniteSet(Pages)
  BY <1>1, CopiesAssumption DEF OnGPU, Commands
<1>3. S \in SUBSET Int /\ IsFiniteSet(S)
  BY <1>2, FS_Subset
<1>4. on \in Seq(S) /\ Len(on) \in Nat
  BY <1>3, AscendingList
<1>. HIDE DEF on, S
<1>5. \A i \in 1..Len(on) : on[i] \in cmd.pages
  <2>1. \A i \in 1..Len(on) : on[i] \in S
    BY <1>4
  <2>. QED BY <1>2, <2>1
<1>6. CopyRequests(q) = [i \in 1..Len(on) |-> Copy(cmd.kind, q, on[i])]
  BY Zenon DEF CopyRequests, on, S
<1>7. ASSUME NEW r \in Elements(CopyRequests(q))
      PROVE  Fits(r, cmd) /\ r.page \in cmd.pages
  <2>. DEFINE s == CopyRequests(q)
  <2>1. PICK i \in 1..Len(s) : r = s[i]
    BY <1>7 DEF Elements
  <2>2. i \in 1..Len(on) /\ r = Copy(cmd.kind, q, on[i])
    BY <1>4, <1>6, <2>1
  <2>3. r.kind = cmd.kind /\ r.page \in cmd.pages
    BY <1>5, <2>2 DEF Copy
  <2>. QED BY <2>3 DEF Fits
<1>. QED BY <1>7

(* No page is called None. *)
LEMMA NoPage ==
  ASSUME TypeOK
  PROVE  /\ None \notin dirty
         /\ \A q \in Queues : FlushOf(q).page = None /\ LaunchOf(q).page = None
         /\ \A r \in Requests : r.page \in dirty => r \in Copies
BY CopiesAssumption
   DEF TypeOK, FlushOf, LaunchOf, Requests, Launches, Flushes, Copies, UserCopies, Migrations

(* A new command goes to the GPU with F, and awaits its turn with C: if    *)
(* anything is dirty, F is its flush. *)
LEMMA IssuedFlushed ==
  ASSUME IInv, FlushedFirst, NEW q \in Queues, commands[q] # <<>>, ~running[q],
         NEW R \in SUBSET Requests, \A r \in R : r.queue = q,
         Settle(q, R) \/ Await(q, R), \A r \in R : Fits(r, Head(commands[q])),
         NEW F \in Seq(Requests), \A i \in 1..Len(F) : F[i].page = None, toGPU' = toGPU \o F,
         NEW C \in Seq(Requests), awaiting' = awaiting \o C,
         l2Dirty => l2Dirty', ~l2Dirty' => \A i \in 1..Len(F) : F[i].kind # "Launch",
         pendingD2H' \in {pendingD2H, q},
         dirty # {} /\ (C # <<>> \/ pendingD2H' = q) => Len(F) > 0 /\ F[1].kind = "Flush",
         UNCHANGED <<gpu, uvm>>
  PROVE  FlushedFirst'
<1>1. /\ TypeOK /\ OwnRequests /\ OfProgram /\ Fitting /\ Marked /\ OffGPU
      /\ DMAClean /\ LineClean /\ AwaitClean /\ DeferClean
  BY DEF IInv, FlushedFirst
<1>2. UNCHANGED <<flushing, kernels, toDMA, processing, dirty, location>>
  BY DEF gpu, uvm
<1>3. OfProgram' /\ Fitting'
  BY <1>1, SettledFits
<1>4. OffGPU' /\ DMAClean'
  BY <1>1, <1>2 DEF OffGPU, DMAClean
<1>5. toGPU \in Seq(Requests) /\ awaiting \in Seq(Requests)
  BY <1>1, Lists
<1>6. Marked'
  <2>. SUFFICES ASSUME ~l2Dirty', NEW i \in 1..Len(toGPU') PROVE toGPU'[i].kind # "Launch"
    BY <1>1, <1>2 DEF Marked
  <2>1. CASE i <= Len(toGPU)
    <3>1. i \in 1..Len(toGPU) /\ toGPU'[i] = toGPU[i]
      BY <1>5, <2>1
    <3>. QED BY <1>1, <3>1 DEF Marked
  <2>2. CASE i > Len(toGPU)
    <3>1. i - Len(toGPU) \in 1..Len(F) /\ toGPU'[i] = F[i - Len(toGPU)]
      BY <1>5, <2>2
    <3>. QED BY <3>1
  <2>. QED BY <1>5, <2>1, <2>2
<1>7. \A i \in 1..Len(F) : F[i].page \in dirty' => FlushBefore(Len(toGPU) + 1)
  BY <1>1, <1>2, NoPage
<1>8. /\ LineClean'
      /\ FlushBefore(Len(toGPU) + 1) => FlushBefore(Len(toGPU) + 1)'
      /\ Len(F) > 0 /\ F[1].kind = "Flush" => FlushBefore(Len(toGPU) + 1)'
  BY <1>1, <1>2, <1>7, LineGrows
<1>9. AwaitClean'
  <2>. SUFFICES ASSUME NEW p \in dirty, p \in AwaitingPages'
                PROVE  FlushBefore(Len(toGPU) + 1)'
    BY <1>2 DEF AwaitClean
  <2>1. Elements(awaiting') = Elements(awaiting) \cup Elements(C)
    BY <1>5, ElementsConcat
  <2>2. CASE p \in AwaitingPages
    BY <1>1, <1>8, <2>2 DEF AwaitClean
  <2>3. CASE p \notin AwaitingPages
    <3>1. Elements(C) # {}
      BY <2>1, <2>3 DEF AwaitingPages
    <3>2. C # <<>>
      BY <3>1 DEF Elements
    <3>. QED BY <1>8, <3>2
  <2>. QED BY <2>2, <2>3
<1>10. DeferClean'
  <2>. SUFFICES ASSUME NEW p \in dirty, p \in DeferringPages'
                PROVE  FlushBefore(Len(toGPU) + 1)'
    BY <1>2 DEF DeferClean
  <2>1. CASE pendingD2H' = q
    BY <1>8, <2>1
  <2>2. CASE pendingD2H' # q
    <3>1. pendingD2H' = pendingD2H
      BY <2>2
    <3>2. pendingD2H # None => commands'[pendingD2H] = commands[pendingD2H]
      BY <1>1, <2>2, <3>1, Settled DEF TypeOK
    <3>3. DeferringPages' = DeferringPages
      BY <3>1, <3>2, DeferringAlone
    <3>. QED BY <1>1, <1>8, <3>3 DEF DeferClean
  <2>. QED BY <2>1, <2>2
<1>. QED BY <1>3, <1>4, <1>6, <1>8, <1>9, <1>10 DEF FlushedFirst

LEMMA LaunchFlushed ==
  ASSUME IInv, FlushedFirst, NEW q \in Queues, ProcessLaunchKernel(q)
  PROVE  FlushedFirst'
<1>. DEFINE R == {LaunchOf(q)}
            F == <<LaunchOf(q)>>
            C == <<>>
<1>1. /\ commands[q] # <<>> /\ ~running[q] /\ Head(commands[q]).kind = "Kernel"
      /\ Await(q, R) /\ toGPU' = Append(toGPU, LaunchOf(q)) /\ l2Dirty' = TRUE
      /\ UNCHANGED <<awaiting, pendingD2H>> /\ UNCHANGED <<gpu, uvm>>
  BY DEF ProcessLaunchKernel, IsNext, copier
<1>2. LaunchOf(q) \in Requests /\ LaunchOf(q).queue = q /\ LaunchOf(q).kind = "Launch"
      /\ LaunchOf(q).page = None /\ q # None
  BY RequestKinds, NoPage DEF IInv, LaunchOf
<1>3. toGPU \in Seq(Requests) /\ awaiting \in Seq(Requests) /\ pendingD2H # q
  BY <1>1, Lists, IdleQueue DEF IInv
<1>4. toGPU' = toGPU \o F /\ awaiting' = awaiting \o C /\ F \in Seq(Requests) /\ C \in Seq(Requests)
      /\ \A i \in 1..Len(F) : F[i].page = None
  BY <1>1, <1>2, <1>3
<1>5. R \in SUBSET Requests /\ \A r \in R : r.queue = q /\ Fits(r, Head(commands[q]))
  BY <1>1, <1>2 DEF Fits
<1>6. C = <<>>
  OBVIOUS
<1>. HIDE DEF R, F, C
<1>. QED BY <1>1, <1>3, <1>4, <1>5, <1>6, IssuedFlushed

LEMMA CopyStartsFlushed ==
  ASSUME IInv, FlushedFirst, NEW q \in Queues, commands[q] # <<>>, ~running[q],
         Head(commands[q]).kind \in {"H2D", "D2H"},
         toGPU' = toGPU \o FlushFirst(q), awaiting' = awaiting \o CopyRequests(q),
         Settle(q, Elements(FlushFirst(q)) \cup Elements(CopyRequests(q))),
         UNCHANGED <<l2Dirty, pendingD2H>>, UNCHANGED <<gpu, uvm>>
  PROVE  FlushedFirst'
<1>. DEFINE F == FlushFirst(q)
            C == CopyRequests(q)
            R == Elements(F) \cup Elements(C)
<1>1. /\ F \in Seq(Requests) /\ \A i \in 1..Len(F) : F[i] = FlushOf(q)
      /\ l2Dirty => Len(F) > 0 /\ F[1].kind = "Flush"
  BY FirstIsFlush
<1>2. /\ FlushOf(q) \in Requests /\ FlushOf(q).queue = q /\ FlushOf(q).page = None
      /\ FlushOf(q).kind = "Flush" /\ TypeOK
  BY RequestKinds, NoPage DEF IInv, FlushOf
<1>3. /\ C \in Seq(Requests)
      /\ \A r \in Elements(C) : r \in Requests /\ r.queue = q /\ Fits(r, Head(commands[q]))
  BY <1>2, CopyList, CopyPages
<1>4. \A r \in Elements(F) : r = FlushOf(q)
  BY FlushList
<1>5. toGPU' = toGPU \o F /\ awaiting' = awaiting \o C /\ Settle(q, R)
  OBVIOUS
<1>. HIDE DEF F, C
<1>6. R \in SUBSET Requests /\ \A r \in R : r.queue = q /\ Fits(r, Head(commands[q]))
  BY <1>2, <1>3, <1>4 DEF Fits
<1>7. /\ \A i \in 1..Len(F) : F[i].page = None /\ F[i].kind # "Launch"
      /\ dirty # {} => Len(F) > 0 /\ F[1].kind = "Flush"
  BY <1>1, <1>2 DEF FlushedFirst, Marked
<1>. HIDE DEF R
<1>. QED BY <1>1, <1>3, <1>5, <1>6, <1>7, IssuedFlushed

LEMMA H2DFlushed ==
  ASSUME IInv, FlushedFirst, NEW q \in Queues, ProcessMemCopyH2D(q)
  PROVE  FlushedFirst'
<1>. DEFINE F == FlushFirst(q)
            C == CopyRequests(q)
<1>1. /\ TypeOK /\ commands[q] # <<>> /\ ~running[q] /\ Head(commands[q]).kind \in {"H2D", "D2H"}
  BY DEF IInv, ProcessMemCopyH2D, IsNext
<1>2. /\ toGPU' = toGPU \o F /\ awaiting' = awaiting \o C /\ Settle(q, Elements(F \o C))
      /\ UNCHANGED <<l2Dirty, pendingD2H>> /\ UNCHANGED <<gpu, uvm>>
  BY DEF ProcessMemCopyH2D
<1>3. F \in Seq(Requests) /\ C \in Seq(Requests)
  BY <1>1, FlushList, CopyList
<1>4. Elements(F \o C) = Elements(F) \cup Elements(C)
  BY <1>3, ElementsConcat
<1>. QED BY <1>1, <1>2, <1>4, CopyStartsFlushed

LEMMA D2HFlushed ==
  ASSUME IInv, FlushedFirst, NEW q \in Queues, ProcessMemCopyD2H(q)
  PROVE  FlushedFirst'
<1>. DEFINE F == FlushFirst(q)
            C == CopyRequests(q)
<1>1. /\ TypeOK /\ commands[q] # <<>> /\ ~running[q] /\ Head(commands[q]).kind = "D2H"
  BY DEF IInv, ProcessMemCopyD2H, IsNext
<1>2. toGPU' = toGPU \o F /\ UNCHANGED l2Dirty /\ UNCHANGED <<gpu, uvm>>
  BY DEF ProcessMemCopyD2H
<1>3. CASE ~Defers(q)
  <2>1. ReadD2H(q, Elements(F)) /\ UNCHANGED pendingD2H
    BY <1>3 DEF ProcessMemCopyD2H
  <2>2. awaiting' = awaiting \o C /\ Settle(q, Elements(F) \cup Elements(C))
    BY <2>1 DEF ReadD2H
  <2>. QED BY <1>1, <1>2, <2>1, <2>2, CopyStartsFlushed
<1>4. CASE Defers(q)
  <2>. DEFINE R == {FlushOf(q)}
              N == <<>>
  <2>1. pendingD2H' = q /\ Await(q, R) /\ UNCHANGED awaiting /\ l2Dirty
    BY <1>4 DEF ProcessMemCopyD2H, Defers
  <2>2. /\ FlushOf(q) \in Requests /\ FlushOf(q).queue = q /\ FlushOf(q).page = None
        /\ FlushOf(q).kind = "Flush"
    BY <1>1, RequestKinds, NoPage DEF FlushOf
  <2>3. /\ F \in Seq(Requests) /\ \A i \in 1..Len(F) : F[i] = FlushOf(q)
        /\ Len(F) > 0 /\ F[1].kind = "Flush"
    BY <2>1, FirstIsFlush
  <2>. HIDE DEF F
  <2>4. \A i \in 1..Len(F) : F[i].page = None /\ F[i].kind # "Launch"
    BY <2>2, <2>3
  <2>5. R \in SUBSET Requests /\ \A r \in R : r.queue = q /\ Fits(r, Head(commands[q]))
    BY <2>2 DEF Fits
  <2>6. N \in Seq(Requests) /\ awaiting' = awaiting \o N
    BY <1>1, <2>1 DEF TypeOK
  <2>. HIDE DEF R, N
  <2>. QED BY <1>1, <1>2, <2>1, <2>3, <2>4, <2>5, <2>6, IssuedFlushed
<1>. QED BY <1>3, <1>4

(* The deferred copies join those that wait: their flush is before them.   *)
LEMMA DeferredFlushed ==
  ASSUME IInv, FlushedFirst, ProcessDeferredD2H
  PROVE  FlushedFirst'
<1>. DEFINE q == pendingD2H
            C == CopyRequests(q)
            R == reqs[q] \cup Elements(C)
<1>1. /\ TypeOK /\ OwnRequests /\ OfProgram /\ Fitting /\ Marked /\ OffGPU
      /\ DMAClean /\ LineClean /\ AwaitClean /\ DeferClean
  BY DEF IInv, FlushedFirst
<1>2. /\ q \in Queues /\ q # None /\ commands[q] # <<>> /\ Head(commands[q]).kind = "D2H"
  BY DEF IInv, ProcessDeferredD2H, TypeOK, Deferred, OwnRequests
<1>3. /\ awaiting' = awaiting \o C /\ Settle(q, R) /\ pendingD2H' = None
      /\ UNCHANGED <<l2Dirty, toGPU, flushing, kernels, toDMA, processing, dirty, location>>
  BY DEF ProcessDeferredD2H, ReadD2H, gpu, uvm
<1>4. /\ C \in Seq(Requests)
      /\ \A r \in Elements(C) : r \in Requests /\ r.queue = q
      /\ \A r \in Elements(C) : Fits(r, Head(commands[q])) /\ r.page \in Head(commands[q]).pages
  BY <1>1, <1>2, CopyList, CopyPages
<1>. HIDE DEF C
<1>5. R \in SUBSET Requests /\ \A r \in R : r.queue = q /\ Fits(r, Head(commands[q]))
  BY <1>1, <1>2, <1>4 DEF TypeOK, OwnRequests, Fitting
<1>. HIDE DEF R
<1>6. OfProgram' /\ Fitting'
  <2>. HIDE DEF q
  <2>. QED BY <1>1, <1>2, <1>3, <1>5, SettledFits
<1>7. LineClean' /\ (FlushBefore(Len(toGPU) + 1) => FlushBefore(Len(toGPU) + 1)')
  BY <1>1, <1>3, LineAlone
<1>8. Marked' /\ OffGPU' /\ DMAClean'
  BY <1>1, <1>3 DEF Marked, OffGPU, DMAClean
<1>9. DeferClean'
  BY <1>3 DEF DeferClean, DeferringPages
<1>10. AwaitClean'
  <2>. SUFFICES ASSUME NEW p \in dirty, p \in AwaitingPages'
                PROVE  FlushBefore(Len(toGPU) + 1)
    BY <1>3, <1>7 DEF AwaitClean
  <2>1. Elements(awaiting') = Elements(awaiting) \cup Elements(C)
    BY <1>1, <1>3, <1>4, Lists, ElementsConcat
  <2>2. p \in AwaitingPages \/ p \in DeferringPages
    BY <1>2, <1>4, <2>1 DEF AwaitingPages, DeferringPages
  <2>. QED BY <1>1, <2>2 DEF AwaitClean, DeferClean
<1>. QED BY <1>6, <1>7, <1>8, <1>9, <1>10 DEF FlushedFirst

(* The middleware sends what waited. *)
LEMMA CountDownFlushed ==
  ASSUME IInv, FlushedFirst, CountDown
  PROVE  FlushedFirst'
<1>1. /\ TypeOK /\ OfProgram /\ Fitting /\ Marked /\ OffGPU
      /\ DMAClean /\ LineClean /\ AwaitClean /\ DeferClean
  BY DEF IInv, FlushedFirst
<1>2. /\ \/ toGPU' = toGPU \o awaiting /\ awaiting' = <<>>
         \/ UNCHANGED <<toGPU, awaiting>>
      /\ UNCHANGED <<commands, reqs, l2Dirty, pendingD2H, flushing, kernels,
                     toDMA, processing, dirty, location>>
  BY DEF CountDown, queues, gpu, uvm
<1>3. OfProgram' /\ Fitting'
  BY <1>1, <1>2, QueuesFit
<1>4. OffGPU' /\ DMAClean' /\ DeferringPages' = DeferringPages
  BY <1>1, <1>2 DEF OffGPU, DMAClean, DeferringPages
<1>5. CASE UNCHANGED <<toGPU, awaiting>>
  <2>1. LineClean' /\ (FlushBefore(Len(toGPU) + 1) => FlushBefore(Len(toGPU) + 1)')
    BY <1>1, <1>2, <1>5, LineAlone
  <2>2. AwaitClean' /\ DeferClean'
    BY <1>1, <1>2, <1>4, <1>5, <2>1 DEF AwaitClean, DeferClean, AwaitingPages
  <2>3. Marked'
    BY <1>1, <1>2, <1>5 DEF Marked
  <2>. QED BY <1>3, <1>4, <2>1, <2>2, <2>3 DEF FlushedFirst
<1>6. CASE toGPU' = toGPU \o awaiting /\ awaiting' = <<>>
  <2>1. awaiting \in Seq(UserCopies) /\ awaiting \in Seq(Requests) /\ toGPU \in Seq(Requests)
    BY <1>1, Lists DEF TypeOK
  <2>2. \A i \in 1..Len(awaiting) : awaiting[i].page \in dirty' => FlushBefore(Len(toGPU) + 1)
    BY <1>1, <1>2 DEF AwaitClean, AwaitingPages, Elements
  <2>3. LineClean' /\ (FlushBefore(Len(toGPU) + 1) => FlushBefore(Len(toGPU) + 1)')
    BY <1>1, <1>2, <1>6, <2>1, <2>2, LineGrows
  <2>4. AwaitingPages' = {}
    BY <1>6 DEF AwaitingPages, Elements
  <2>5. AwaitClean' /\ DeferClean'
    BY <1>1, <1>2, <1>4, <2>3, <2>4 DEF AwaitClean, DeferClean
  <2>6. Marked'
    <3>. SUFFICES ASSUME ~l2Dirty', NEW i \in 1..Len(toGPU') PROVE toGPU'[i].kind # "Launch"
      BY <1>1, <1>2 DEF Marked
    <3>1. CASE i <= Len(toGPU)
      <4>1. i \in 1..Len(toGPU) /\ toGPU'[i] = toGPU[i]
        BY <1>6, <2>1, <3>1
      <4>. QED BY <1>1, <1>2, <4>1 DEF Marked
    <3>2. CASE i > Len(toGPU)
      <4>1. i - Len(toGPU) \in 1..Len(awaiting) /\ toGPU'[i] = awaiting[i - Len(toGPU)]
        BY <1>6, <2>1, <3>2
      <4>2. toGPU'[i] \in UserCopies
        BY <2>1, <4>1
      <4>. QED BY <4>2 DEF UserCopies
    <3>. QED BY <1>6, <2>1, <3>1, <3>2
  <2>. QED BY <1>3, <1>4, <2>3, <2>5, <2>6 DEF FlushedFirst
<1>. QED BY <1>2, <1>5, <1>6

(* Steps that move nothing to the GPU. *)
LEMMA LineKept ==
  ASSUME FlushedFirst, OfProgram', Fitting', OffGPU', DMAClean',
         UNCHANGED <<l2Dirty, awaiting, toGPU, flushing>>, dirty' \subseteq dirty,
         kernels' \subseteq kernels, DeferringPages' \subseteq DeferringPages
  PROVE  FlushedFirst'
<1>1. Marked /\ LineClean /\ AwaitClean /\ DeferClean
  BY DEF FlushedFirst
<1>2. LineClean' /\ (FlushBefore(Len(toGPU) + 1) => FlushBefore(Len(toGPU) + 1)')
  BY <1>1, LineAlone
<1>3. AwaitClean' /\ DeferClean'
  BY <1>1, <1>2 DEF AwaitClean, DeferClean, AwaitingPages
<1>4. Marked'
  BY <1>1 DEF Marked
<1>. QED BY <1>2, <1>3, <1>4 DEF FlushedFirst

LEMMA ReturnFlushed ==
  ASSUME IInv, FlushedFirst, returned # <<>>, Head(returned).queue # None,
         NEW q, q = Head(returned).queue, NEW R, R = reqs[q] \ {Head(returned)},
         Settle(q, R) \/ Await(q, R),
         pendingD2H = q => Await(q, R),
         UNCHANGED <<l2Dirty, awaiting, pendingD2H, toGPU, gpu, uvm>>
  PROVE  FlushedFirst'
<1>. DEFINE h == Head(returned)
<1>1. TypeOK /\ OwnRequests /\ OfProgram /\ Fitting /\ OffGPU /\ DMAClean
  BY DEF IInv, FlushedFirst
<1>2. h \in Requests /\ q \in Queues /\ h \in reqs[q]
  BY HeadOwed, RequestKinds DEF Owes
<1>3. /\ commands[q] # <<>> /\ R \in SUBSET Requests
      /\ \A r \in R : r.queue = q /\ Fits(r, Head(commands[q]))
  BY <1>1, <1>2 DEF OwnRequests, TypeOK, Fitting
<1>4. OfProgram' /\ Fitting'
  BY <1>1, <1>2, <1>3, SettledFits
<1>5. UNCHANGED <<l2Dirty, awaiting, toGPU, flushing, kernels, toDMA, processing, dirty, location>>
  BY DEF gpu, uvm
<1>6. pendingD2H # None => commands'[pendingD2H] = commands[pendingD2H]
  <2>1. CASE pendingD2H = q
    BY <2>1 DEF Await
  <2>2. CASE pendingD2H # q
    <3>1. \A s \in Queues \ {q} : commands'[s] = commands[s]
      <4>1. \A r \in R : r.queue = q
        BY <1>3
      <4>. QED BY <1>1, <1>2, <1>3, <4>1, Settled
    <3>. QED BY <1>1, <2>2, <3>1 DEF TypeOK
  <2>. QED BY <2>1, <2>2
<1>7. DeferringPages' = DeferringPages
  BY <1>6, DeferringAlone
<1>8. OffGPU' /\ DMAClean'
  BY <1>1, <1>5 DEF OffGPU, DMAClean
<1>. QED BY <1>4, <1>5, <1>7, <1>8, LineKept

(* The deferred command awaits nothing but a flush. *)
LEMMA ReturnOfOther ==
  ASSUME IInv, returned # <<>>, Head(returned).queue # None, Head(returned).kind # "Flush"
  PROVE  pendingD2H # Head(returned).queue
<1>1. Head(returned) \in reqs[Head(returned).queue]
  BY HeadOwed, RequestKinds DEF Owes
<1>. QED BY <1>1 DEF IInv, Deferred, FlushOf

LEMMA CopyReturnFlushed ==
  ASSUME IInv, FlushedFirst, ProcessMemCopyReturn
  PROVE  FlushedFirst'
<1>. DEFINE q == Head(returned).queue
            R == reqs[q] \ {Head(returned)}
<1>1. /\ returned # <<>> /\ q # None /\ Head(returned).kind # "Flush" /\ Settle(q, R)
      /\ UNCHANGED <<l2Dirty, awaiting, pendingD2H, toGPU, gpu, uvm>>
  BY DEF ProcessMemCopyReturn, Answers, copier
<1>2. pendingD2H # q
  BY <1>1, ReturnOfOther
<1>3. \E s, S : /\ s = Head(returned).queue /\ S = reqs[s] \ {Head(returned)}
                /\ Settle(s, S) /\ pendingD2H # s
  BY <1>1, <1>2
<1>. QED BY <1>1, <1>3, ReturnFlushed

LEMMA LaunchReturnFlushed ==
  ASSUME IInv, FlushedFirst, ProcessLaunchKernelReturn
  PROVE  FlushedFirst'
<1>. DEFINE q == Head(returned).queue
            R == reqs[q] \ {Head(returned)}
<1>1. /\ returned # <<>> /\ q # None /\ Head(returned).kind # "Flush" /\ Settle(q, R)
      /\ UNCHANGED <<l2Dirty, awaiting, pendingD2H, toGPU, gpu, uvm>>
  BY DEF ProcessLaunchKernelReturn, Answers, copier
<1>2. pendingD2H # q
  BY <1>1, ReturnOfOther
<1>3. \E s, S : /\ s = Head(returned).queue /\ S = reqs[s] \ {Head(returned)}
                /\ Settle(s, S) /\ pendingD2H # s
  BY <1>1, <1>2
<1>. QED BY <1>1, <1>3, ReturnFlushed

LEMMA FlushReturnFlushed ==
  ASSUME IInv, FlushedFirst, ProcessFlushReturn
  PROVE  FlushedFirst'
<1>. DEFINE q == Head(returned).queue
            R == reqs[q] \ {Head(returned)}
<1>1. /\ returned # <<>> /\ q # None /\ SettleFlushed(q, R)
      /\ UNCHANGED <<l2Dirty, awaiting, pendingD2H, toGPU, gpu, uvm>>
  BY DEF ProcessFlushReturn, Answers
<1>2. pendingD2H = q => R = {}
  BY <1>1, HeadOwed, RequestKinds DEF IInv, Deferred, Owes
<1>3. (Settle(q, R) \/ Await(q, R)) /\ (pendingD2H = q => Await(q, R))
  BY <1>1, <1>2 DEF SettleFlushed
<1>4. \E s, S : /\ s = Head(returned).queue /\ S = reqs[s] \ {Head(returned)}
                /\ Settle(s, S) \/ Await(s, S)
                /\ pendingD2H = s => Await(s, S)
  BY <1>3
<1>. QED BY <1>1, <1>4, ReturnFlushed

(* A page is clean when it leaves the GPU, and while it is away. *)
LEMMA ClaimFlushed ==
  ASSUME IInv, FlushedFirst, ClaimUVMDMAReturn
  PROVE  FlushedFirst'
<1>. DEFINE p == Head(returned).page
<1>1. OfProgram /\ Fitting /\ OffGPU /\ DMAClean /\ TypeOK
  BY DEF IInv, FlushedFirst
<1>2. /\ returned # <<>> /\ Head(returned).queue = None /\ location' = Landed(p)
      /\ UNCHANGED <<commands, reqs, l2Dirty, awaiting, pendingD2H,
                     toGPU, flushing, kernels, toDMA, processing, dirty>>
  BY DEF ClaimUVMDMAReturn, queues, copier, gpu
<1>3. p \in Managed /\ location[p] \in {"ToGPU", "ToHost"}
  BY <1>2, HeadOwed, RequestKinds DEF Owes
<1>4. OffGPU'
  <2>1. \A x \in Managed : x # p => location'[x] = location[x]
    BY <1>1, <1>2 DEF Landed, TypeOK
  <2>2. p \notin dirty
    BY <1>1, <1>3 DEF OffGPU
  <2>. HIDE DEF p
  <2>. QED BY <1>1, <1>2, <2>1, <2>2 DEF OffGPU
<1>5. OfProgram' /\ Fitting' /\ DMAClean' /\ DeferringPages' = DeferringPages
  BY <1>1, <1>2, QueuesFit DEF DMAClean, DeferringPages
<1>. QED BY <1>2, <1>4, <1>5, LineKept

LEMMA BeginEvictionFlushed ==
  ASSUME IInv, FlushedFirst, NEW p \in Managed, BeginEviction(p)
  PROVE  FlushedFirst'
<1>1. OfProgram /\ Fitting /\ OffGPU /\ DMAClean /\ TypeOK
  BY DEF IInv, FlushedFirst
<1>2. /\ location' = [location EXCEPT ![p] = "Flushing"]
      /\ UNCHANGED <<commands, reqs, l2Dirty, awaiting, pendingD2H,
                     toGPU, flushing, kernels, toDMA, processing, dirty>>
  BY DEF BeginEviction, queues, copier, gpu
<1>3. OffGPU'
  BY <1>1, <1>2 DEF OffGPU, TypeOK
<1>4. OfProgram' /\ Fitting' /\ DMAClean' /\ DeferringPages' = DeferringPages
  BY <1>1, <1>2, QueuesFit DEF DMAClean, DeferringPages
<1>. QED BY <1>2, <1>3, <1>4, LineKept

LEMMA SentFlushed ==
  ASSUME IInv, FlushedFirst, NEW p \in Managed, NEW L, NEW kind \in {"H2D", "D2H"},
         p \notin dirty', dirty' \subseteq dirty, location' = [location EXCEPT ![p] = L],
         toGPU' = Append(toGPU, Copy(kind, None, p)),
         UNCHANGED <<commands, reqs, l2Dirty, awaiting, pendingD2H,
                     flushing, kernels, toDMA, processing>>
  PROVE  FlushedFirst'
<1>. DEFINE m == Copy(kind, None, p)
            F == <<m>>
<1>1. /\ TypeOK /\ OfProgram /\ Fitting /\ Marked /\ OffGPU
      /\ DMAClean /\ LineClean /\ AwaitClean /\ DeferClean
  BY DEF IInv, FlushedFirst
<1>2. m \in Requests /\ m.kind # "Launch" /\ m.page = p
  BY RequestKinds DEF Copy
<1>3. OfProgram' /\ Fitting' /\ DMAClean' /\ DeferringPages' = DeferringPages
  BY <1>1, QueuesFit DEF DMAClean, DeferringPages
<1>4. OffGPU'
  BY <1>1 DEF OffGPU, TypeOK
<1>5. toGPU \in Seq(Requests)
  BY <1>1, Lists
<1>. HIDE DEF m
<1>6. toGPU' = Append(toGPU, m)
  BY DEF m
<1>7. F \in Seq(Requests) /\ toGPU' = toGPU \o F /\ \A i \in 1..Len(F) : F[i].page \notin dirty'
  BY <1>2, <1>5, <1>6
<1>. HIDE DEF F
<1>8. LineClean' /\ (FlushBefore(Len(toGPU) + 1) => FlushBefore(Len(toGPU) + 1)')
  BY <1>1, <1>7, LineGrows
<1>9. AwaitClean' /\ DeferClean'
  BY <1>1, <1>3, <1>8 DEF AwaitClean, DeferClean, AwaitingPages
<1>10. Marked'
  <2>1. \A i \in 1..Len(toGPU') : toGPU'[i] = IF i <= Len(toGPU) THEN toGPU[i] ELSE m
    BY <1>2, <1>5, <1>6
  <2>2. Len(toGPU') = Len(toGPU) + 1 /\ Len(toGPU) \in Nat
    BY <1>2, <1>5, <1>6
  <2>. QED BY <1>1, <1>2, <2>1, <2>2 DEF Marked
<1>. QED BY <1>3, <1>4, <1>8, <1>9, <1>10 DEF FlushedFirst

LEMMA AdmitFlushed ==
  ASSUME IInv, FlushedFirst, NEW p \in Managed, Admit(p)
  PROVE  FlushedFirst'
<1>1. /\ location[p] = "Host" /\ location' = [location EXCEPT ![p] = "ToGPU"]
      /\ toGPU' = Append(toGPU, Copy("H2D", None, p))
      /\ UNCHANGED <<commands, reqs, l2Dirty, awaiting, pendingD2H,
                     flushing, kernels, toDMA, processing, dirty>>
  BY DEF Admit, queues, copier, gpu
<1>2. p \notin dirty
  BY <1>1 DEF FlushedFirst, OffGPU
<1>3. "H2D" \in {"H2D", "D2H"} /\ p \notin dirty' /\ dirty' \subseteq dirty
  BY <1>1, <1>2
<1>. QED BY <1>1, <1>3, SentFlushed

LEMMA EvictionD2HFlushed ==
  ASSUME IInv, FlushedFirst, NEW p \in Managed, EvictionStartD2H(p)
  PROVE  FlushedFirst'
<1>1. /\ location' = [location EXCEPT ![p] = "ToHost"] /\ dirty' = dirty \ {p}
      /\ toGPU' = Append(toGPU, Copy("D2H", None, p))
      /\ UNCHANGED <<commands, reqs, l2Dirty, awaiting, pendingD2H,
                     flushing, kernels, toDMA, processing>>
  BY DEF EvictionStartD2H, queues, copier
<1>2. "D2H" \in {"H2D", "D2H"} /\ p \notin dirty' /\ dirty' \subseteq dirty
  BY <1>1
<1>. QED BY <1>1, <1>2, SentFlushed

(* The command processor takes the first request. *)
LEMMA HandledFlushed ==
  ASSUME IInv, FlushedFirst, toGPU # <<>>, toGPU' = Tail(toGPU),
         flushing # None \/ Head(toGPU).kind = "Flush" => flushing' # None,
         DMAClean', ~l2Dirty => kernels' = {},
         UNCHANGED <<commands, reqs, l2Dirty, awaiting, pendingD2H, dirty, location>>
  PROVE  FlushedFirst'
<1>1. /\ TypeOK /\ OfProgram /\ Fitting /\ Marked /\ OffGPU
      /\ LineClean /\ AwaitClean /\ DeferClean
  BY DEF IInv, FlushedFirst
<1>2. LineClean' /\ (FlushBefore(Len(toGPU) + 1) => FlushBefore(Len(toGPU) + 1)')
  BY <1>1, LineMoves
<1>3. OfProgram' /\ Fitting' /\ OffGPU'
  BY <1>1, QueuesFit DEF OffGPU
<1>4. AwaitClean' /\ DeferClean'
  BY <1>1, <1>2 DEF AwaitClean, DeferClean, AwaitingPages, DeferringPages
<1>5. Marked'
  <2>1. toGPU \in Seq(Requests)
    BY <1>1, Lists
  <2>2. \A i \in 1..Len(toGPU') : i + 1 \in 1..Len(toGPU) /\ toGPU'[i] = toGPU[i + 1]
    BY <2>1
  <2>. QED BY <1>1, <2>2 DEF Marked
<1>. QED BY <1>2, <1>3, <1>4, <1>5 DEF FlushedFirst

LEMMA LaunchReqFlushed ==
  ASSUME IInv, FlushedFirst, ProcessLaunchKernelReq
  PROVE  FlushedFirst'
<1>1. /\ toGPU # <<>> /\ toGPU' = Tail(toGPU) /\ Head(toGPU).kind = "Launch"
      /\ UNCHANGED <<commands, reqs, l2Dirty, awaiting, pendingD2H,
                     flushing, toDMA, processing, dirty, location>>
  BY DEF ProcessLaunchKernelReq, Handles, queues, copier, uvm
<1>2. l2Dirty
  <2>1. toGPU \in Seq(Requests)
    BY Lists DEF IInv
  <2>2. 1 \in 1..Len(toGPU) /\ toGPU[1].kind = "Launch"
    BY <1>1, <2>1
  <2>. QED BY <2>2 DEF FlushedFirst, Marked
<1>3. DMAClean'
  BY <1>1 DEF FlushedFirst, DMAClean
<1>. QED BY <1>1, <1>2, <1>3, HandledFlushed

LEMMA FlushReqFlushed ==
  ASSUME IInv, FlushedFirst, ProcessFlushReq
  PROVE  FlushedFirst'
<1>1. /\ toGPU # <<>> /\ toGPU' = Tail(toGPU) /\ flushing' = Head(toGPU)
      /\ UNCHANGED <<commands, reqs, l2Dirty, awaiting, pendingD2H,
                     kernels, toDMA, processing, dirty, location>>
  BY DEF ProcessFlushReq, Handles, queues, copier, uvm
<1>2. flushing' # None
  BY <1>1, HandledRequest, RequestKinds
<1>3. DMAClean' /\ (~l2Dirty => kernels' = {})
  BY <1>1 DEF FlushedFirst, DMAClean, Marked
<1>. QED BY <1>1, <1>2, <1>3, HandledFlushed

(* No flush is under way, so none was before the copy. *)
LEMMA CopyReqFlushed ==
  ASSUME IInv, FlushedFirst, ProcessMemCopyReq
  PROVE  FlushedFirst'
<1>1. /\ toGPU # <<>> /\ toGPU' = Tail(toGPU) /\ Head(toGPU).kind \in {"H2D", "D2H"}
      /\ toDMA' = Append(toDMA, Head(toGPU)) /\ flushing = None
      /\ UNCHANGED <<commands, reqs, l2Dirty, awaiting, pendingD2H,
                     flushing, kernels, processing, dirty, location>>
  BY DEF ProcessMemCopyReq, Handles, CachesQuiet, queues, copier, uvm
<1>2. TypeOK /\ LineClean /\ DMAClean /\ Marked
  BY DEF IInv, FlushedFirst
<1>3. Head(toGPU).page \notin dirty
  BY <1>1, <1>2, LineMoves
<1>4. Head(toGPU) \in Requests /\ toDMA \in Seq(Requests)
  BY <1>1, <1>2, HandledRequest, Lists
<1>5. Elements(toDMA') = Elements(toDMA) \cup {Head(toGPU)}
  BY <1>1, <1>4, AppendList
<1>6. DMAClean'
  BY <1>1, <1>2, <1>3, <1>5 DEF DMAClean
<1>7. ~l2Dirty => kernels' = {}
  BY <1>1, <1>2 DEF Marked
<1>. QED BY <1>1, <1>6, <1>7, HandledFlushed

LEMMA CacheFlushFlushed ==
  ASSUME IInv, FlushedFirst, ProcessRegularCacheFlush
  PROVE  FlushedFirst'
<1>1. /\ dirty' = {}
      /\ UNCHANGED <<commands, reqs, l2Dirty, awaiting, pendingD2H,
                     toGPU, kernels, toDMA, processing, location>>
  BY DEF ProcessRegularCacheFlush, queues, copier, uvm
<1>2. OfProgram' /\ Fitting'
  BY <1>1, QueuesFit DEF FlushedFirst
<1>3. OffGPU' /\ DMAClean' /\ LineClean' /\ AwaitClean' /\ DeferClean' /\ Marked'
  BY <1>1 DEF FlushedFirst, OffGPU, DMAClean, LineClean, AwaitClean, DeferClean, Marked
<1>. QED BY <1>2, <1>3 DEF FlushedFirst

(* What a kernel writes, nobody copies. *)
LEMMA KernelWritesFlushed ==
  ASSUME NoRaces, IInv, FlushedFirst, NEW k \in kernels, NEW p \in Pages, KernelWrites(k, p)
  PROVE  FlushedFirst'
<1>1. /\ TypeOK /\ OfProgram /\ Fitting /\ Marked /\ OffGPU
      /\ DMAClean /\ LineClean /\ AwaitClean /\ DeferClean
  BY DEF IInv, FlushedFirst
<1>2. /\ dirty' = dirty \cup {p} /\ p \in OnGPU(Head(commands[k.queue]).pages)
      /\ UNCHANGED <<commands, reqs, l2Dirty, awaiting, pendingD2H,
                     toGPU, flushing, kernels, toDMA, processing, location>>
  BY DEF KernelWrites, queues, copier, uvm
<1>3. /\ \A c \in Requests : c.kind \in {"H2D", "D2H"} /\ Places(c) # 0 => c.page # p
      /\ p \notin DeferringPages
      /\ p \in Managed => location[p] = "GPU"
  BY <1>1, <1>2, KernelsApart
<1>4. p # None
  BY CopiesAssumption
<1>5. \A c \in Requests : c.page = p => c.kind \in {"H2D", "D2H"} /\ Places(c) = 0
  <2>1. \A c \in Requests : c.page = p => c.kind \in {"H2D", "D2H"}
    BY <1>4 DEF Requests, Launches, Flushes, Copies, UserCopies, Migrations
  <2>. QED BY <1>3, <2>1
<1>6. /\ awaiting \in Seq(Requests) /\ toGPU \in Seq(Requests) /\ toDMA \in Seq(Requests)
      /\ processing \subseteq Requests
  BY <1>1, Lists DEF TypeOK, Requests
<1>7. \A c \in Requests : Places(c) = 0 =>
        c \notin Elements(awaiting) /\ c \notin Elements(toGPU) /\ c \notin Elements(toDMA) /\ c \notin processing
  <2>. SUFFICES ASSUME NEW c \in Requests, Places(c) = 0
                PROVE  c \notin Elements(awaiting) /\ c \notin Elements(toGPU)
                         /\ c \notin Elements(toDMA) /\ c \notin processing
    OBVIOUS
  <2>1. /\ Times(awaiting, c) = 0 /\ Times(toGPU, c) = 0 /\ Times(toDMA, c) = 0 /\ c \notin Held
    <3>1. /\ Times(awaiting, c) \in Nat /\ Times(toGPU, c) \in Nat
          /\ Times(toDMA, c) \in Nat /\ Times(returned, c) \in Nat
          /\ Places(c) = Times(awaiting, c) + Times(toGPU, c) + Times(toDMA, c) + Times(returned, c)
                            + (IF c \in Held THEN 1 ELSE 0)
      BY <1>1, PlacesCount
    <3>. DEFINE v == Times(awaiting, c)
                w == Times(toGPU, c)
                x == Times(toDMA, c)
                y == Times(returned, c)
                z == IF c \in Held THEN 1 ELSE 0
    <3>2. v \in Nat /\ w \in Nat /\ x \in Nat /\ y \in Nat /\ z \in Nat
          /\ (z = 0 => c \notin Held) /\ v + w + x + y + z = 0
      BY <3>1
    <3>. HIDE DEF v, w, x, y, z
    <3>3. v = 0 /\ w = 0 /\ x = 0 /\ z = 0
      BY ONLY <3>2
    <3>. QED BY <3>2, <3>3 DEF v, w, x
  <2>2. c \notin Elements(awaiting)
    BY <1>6, <2>1, TimesType
  <2>3. c \notin Elements(toGPU)
    BY <1>6, <2>1, TimesType
  <2>4. c \notin Elements(toDMA)
    BY <1>6, <2>1, TimesType
  <2>. QED BY <2>1, <2>2, <2>3, <2>4 DEF Held
<1>8. \A i \in 1..Len(toGPU) : toGPU[i] \in Requests /\ toGPU[i] \in Elements(toGPU)
  BY <1>6 DEF Elements
<1>9. \A i \in 1..Len(toGPU) : toGPU[i].page # p
  BY <1>5, <1>7, <1>8
<1>10. Elements(awaiting) \subseteq Requests /\ Elements(toDMA) \subseteq Requests
  BY <1>6 DEF Elements
<1>11. p \notin AwaitingPages /\ \A r \in processing \cup Elements(toDMA) : r.page # p
  BY <1>5, <1>6, <1>7, <1>10 DEF AwaitingPages
<1>12. OfProgram' /\ Fitting' /\ OffGPU' /\ DMAClean'
  BY <1>1, <1>2, <1>3, <1>11, QueuesFit DEF OffGPU, DMAClean
<1>13. LineClean' /\ AwaitClean' /\ DeferClean'
  <2>1. LineClean'
    BY <1>1, <1>2, <1>9 DEF LineClean, FlushBefore
  <2>2. AwaitClean' /\ DeferClean'
    BY <1>1, <1>2, <1>3, <1>11
       DEF AwaitClean, DeferClean, FlushBefore, AwaitingPages, DeferringPages
  <2>. QED BY <2>1, <2>2
<1>14. Marked'
  BY <1>1, <1>2 DEF Marked
<1>. QED BY <1>12, <1>13, <1>14 DEF FlushedFirst

LEMMA CompleteKernelFlushed ==
  ASSUME IInv, FlushedFirst, NEW k \in kernels, CompleteKernel(k)
  PROVE  FlushedFirst'
<1>1. /\ kernels' = kernels \ {k}
      /\ UNCHANGED <<commands, reqs, l2Dirty, awaiting, pendingD2H,
                     toGPU, flushing, toDMA, processing, dirty, location>>
  BY DEF CompleteKernel, queues, copier, uvm
<1>2. OfProgram' /\ Fitting' /\ OffGPU' /\ DMAClean' /\ DeferringPages' = DeferringPages
  BY <1>1, QueuesFit DEF FlushedFirst, OffGPU, DMAClean, DeferringPages
<1>. QED BY <1>1, <1>2, LineKept

LEMMA FinishCopyFlushed ==
  ASSUME IInv, FlushedFirst, NEW c \in processing, FinishCopy(c)
  PROVE  FlushedFirst'
<1>1. /\ processing' = processing \ {c}
      /\ UNCHANGED <<commands, reqs, l2Dirty, awaiting, pendingD2H,
                     toGPU, flushing, kernels, toDMA, dirty, location>>
  BY DEF FinishCopy, queues, copier, uvm
<1>2. OfProgram' /\ Fitting' /\ OffGPU' /\ DMAClean' /\ DeferringPages' = DeferringPages
  BY <1>1, QueuesFit DEF FlushedFirst, OffGPU, DMAClean, DeferringPages
<1>. QED BY <1>1, <1>2, LineKept

LEMMA ParseFlushed ==
  ASSUME IInv, FlushedFirst, ParseFromCP
  PROVE  FlushedFirst'
<1>1. /\ toDMA # <<>> /\ toDMA' = Tail(toDMA) /\ processing' = processing \cup {Head(toDMA)}
      /\ UNCHANGED <<commands, reqs, l2Dirty, awaiting, pendingD2H,
                     toGPU, flushing, kernels, dirty, location>>
  BY DEF ParseFromCP, queues, copier, uvm
<1>2. toDMA \in Seq(Requests)
  BY Lists DEF IInv
<1>3. Head(toDMA) \in Elements(toDMA) /\ Elements(toDMA') \subseteq Elements(toDMA)
  BY <1>1, <1>2 DEF Elements
<1>4. DMAClean'
  BY <1>1, <1>3 DEF FlushedFirst, DMAClean
<1>5. OfProgram' /\ Fitting' /\ OffGPU' /\ DeferringPages' = DeferringPages
  BY <1>1, QueuesFit DEF FlushedFirst, OffGPU, DeferringPages
<1>. QED BY <1>1, <1>4, <1>5, LineKept

LEMMA InitFlushed == Init => FlushedFirst
<1>. SUFFICES ASSUME Init PROVE FlushedFirst
  OBVIOUS
<1>1. /\ commands = Program /\ reqs = [q \in Queues |-> {}] /\ dirty = {} /\ kernels = {} /\ toGPU = <<>>
  BY DEF Init
<1>2. OfProgram /\ Fitting
  BY <1>1 DEF OfProgram, Fitting
<1>3. Marked /\ OffGPU /\ DMAClean /\ LineClean /\ AwaitClean /\ DeferClean
  BY <1>1 DEF Marked, OffGPU, DMAClean, LineClean, AwaitClean, DeferClean
<1>. QED BY <1>2, <1>3 DEF FlushedFirst

LEMMA StepFlushed ==
  ASSUME NoRaces, IInv, FlushedFirst, [Next]_vars
  PROVE  FlushedFirst'
<1>1. CASE Driver
  BY <1>1, LaunchFlushed, H2DFlushed, D2HFlushed, DeferredFlushed, CountDownFlushed,
     CopyReturnFlushed, FlushReturnFlushed, LaunchReturnFlushed, ClaimFlushed DEF Driver
<1>2. CASE UVM
  BY <1>2, AdmitFlushed, BeginEvictionFlushed, EvictionD2HFlushed DEF UVM
<1>3. CASE GPU
  BY <1>3, LaunchReqFlushed, FlushReqFlushed, CopyReqFlushed, CacheFlushFlushed, ParseFlushed,
     CompleteKernelFlushed, KernelWritesFlushed, FinishCopyFlushed DEF GPU
<1>4. CASE UNCHANGED vars
  <2>1. UNCHANGED <<commands, reqs, l2Dirty, awaiting, pendingD2H,
                    toGPU, flushing, kernels, toDMA, processing, dirty, location>>
    BY <1>4 DEF vars
  <2>2. OfProgram' /\ Fitting' /\ OffGPU' /\ DMAClean' /\ DeferringPages' = DeferringPages
    BY <2>1, QueuesFit DEF FlushedFirst, OffGPU, DMAClean, DeferringPages
  <2>. QED BY <2>1, <2>2, LineKept
<1>. QED BY <1>1, <1>2, <1>3, <1>4 DEF Next

(* For every program without races between queues, and every migration:    *)
(* while the DMA engine copies a page, the caches hold nothing newer of    *)
(* it.  Every flush that a copy needs stays before it, from the middleware *)
(* to the engine, whatever other commands put in between.                  *)
THEOREM FlushesComeFirst == ASSUME NoRaces PROVE Spec => []CopiesSeeMemory
<1>1. Init => IInv /\ FlushedFirst
  BY InitIInv, InitFlushed
<1>2. IInv /\ FlushedFirst /\ [Next]_vars => IInv' /\ FlushedFirst'
  BY StepIInv, StepFlushed
<1>3. IInv /\ FlushedFirst => CopiesSeeMemory
  BY DEF FlushedFirst, DMAClean, CopiesSeeMemory
<1>. QED BY <1>1, <1>2, <1>3, PTL DEF Spec
=============================================================================
