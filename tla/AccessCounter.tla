--------------------------- MODULE AccessCounter ---------------------------
(***************************************************************************)
(* The UVM access counter of a GPU                                         *)
(* (src/mgpusim/amd/timing/accesscounter).                                 *)
(*                                                                         *)
(* It sits between the address translators (port Top) and the memory of    *)
(* the host (port Bottom), under the control of the driver (port Ctrl).    *)
(* Remote reads are forwarded and counted; a remote write is held until    *)
(* the driver has made its region local or has refused to.                 *)
(*                                                                         *)
(* The component is one record: its fields and the queues of its ports.    *)
(* Its only handler is Tick, which runs the operators below in the order   *)
(* of the code; nothing can come between them.                             *)
(***************************************************************************)
EXTENDS OrderedLists

CONSTANTS
  Keys,            \* RegionKey: the 64KB regions
  Requests,        \* remote accesses: records [id, write, region]
  Threshold,       \* remote accesses of a region that raise a notification
  MaxOutstanding,  \* accesses in flight over PCIe, 0 for no limit
  BufferSize,      \* capacity of each direction of each port
  ReqPerCycle      \* numReqPerCycle

ASSUME CounterAssumption ==
  /\ IsFiniteSet(Keys)
  /\ IsFiniteSet(Requests)
  /\ \A q \in Requests : q.region \in Keys /\ q.write \in BOOLEAN
  /\ Threshold \in Nat \ {0} /\ MaxOutstanding \in Nat
  /\ BufferSize \in Nat \ {0} /\ ReqPerCycle \in Nat \ {0}

Commands ==
  [kind : {"Reset", "Drain"}, region : Keys]
    \cup [kind : {"ResetAll"}]
    \cup [kind : {"Replay"}, region : Keys, refused : BOOLEAN]
Reports  == [kind : {"Notify", "Drained"}, region : Keys]
Answers  == [kind : {"Done", "Retry"}, req : Requests]

(* type Comp.  A counter that was deleted reads 0 and is not latched.  The *)
(* count is only ever compared with the threshold and stops there.         *)
Counters ==
  [topIn : Seq(Requests), topOut : Seq(Answers),
   bottomIn : Seq(Requests), bottomOut : Seq(Requests),
   ctrlIn : Seq(Commands), ctrlOut : Seq(Reports),
   count : [Keys -> 0..Threshold],
   latched : SUBSET Keys,
   transactions : SUBSET Requests,
   stalledWrites : [Keys -> Seq(Requests)],
   pendingNotifications : Seq(Keys),
   pendingRetries : Seq(Requests),
   pendingRemoteWrites : Seq(Requests)]

InitialCounter ==
  [topIn |-> <<>>, topOut |-> <<>>, bottomIn |-> <<>>, bottomOut |-> <<>>,
   ctrlIn |-> <<>>, ctrlOut |-> <<>>,
   count |-> [k \in Keys |-> 0],
   latched |-> {},
   transactions |-> {},
   stalledWrites |-> [k \in Keys |-> <<>>],
   pendingNotifications |-> <<>>,
   pendingRetries |-> <<>>,
   pendingRemoteWrites |-> <<>>]

Full(queue) == Len(queue) >= BufferSize

AtOutstandingLimit(m) ==
  MaxOutstanding > 0 /\ Cardinality(m.transactions) >= MaxOutstanding

-----------------------------------------------------------------------------
(* Counting and notifying.                                                 *)

(* notifyRegion: at most one notification until the region is re-armed. *)
NotifyRegion(m, k) ==
  IF k \in m.latched
  THEN m
  ELSE [m EXCEPT !.latched = @ \cup {k},
                 !.pendingNotifications = Append(@, k)]

CountAccepted(m, k) ==
  LET m1 == [m EXCEPT !.count[k] = IF @ < Threshold THEN @ + 1 ELSE @]
  IN  IF m1.count[k] < Threshold THEN m1 ELSE NotifyRegion(m1, k)

(* resetRegion: re-arms a region; writes it still holds ask again. *)
ResetSilently(m, k) ==   \* mutant: writes it holds do not ask again
  [m EXCEPT !.count[k] = 0, !.latched = @ \ {k},
            !.pendingNotifications = Keep(@, Keys \ {k})]
ResetLatch(m, k) ==      \* mutant: what waits to be sent is left there
  [m EXCEPT !.count[k] = 0, !.latched = @ \ {k}]
ResetRegion(m, k) ==
  LET m1 == [m EXCEPT !.count[k] = 0,
                      !.latched = @ \ {k},
                      !.pendingNotifications = Keep(@, Keys \ {k})]
  IN  IF m.stalledWrites[k] = <<>> THEN m1 ELSE NotifyRegion(m1, k)

(* ResetAll, at a kernel boundary: only the notifications still to be sent *)
(* for held writes survive.                                                *)
ResetEverything(m) ==    \* mutant: all notifications are dropped
  [m EXCEPT !.count = [k \in Keys |-> 0], !.latched = {}, !.pendingNotifications = <<>>]
ResetAll(m) ==
  LET kept == {k \in Elements(m.pendingNotifications) : m.stalledWrites[k] # <<>>}
  IN  [m EXCEPT !.count = [k \in Keys |-> 0],
                !.latched = kept,
                !.pendingNotifications = Keep(@, kept)]

(* releaseRange: the held writes are retried, or done remotely if the      *)
(* driver refused to bring the region in.                                  *)
ReleaseTwice(m, k, refused) ==   \* mutant: the held writes stay held
  [m EXCEPT !.pendingRetries = @ \o m.stalledWrites[k], !.latched = @ \ {k}]
ReleaseKeys(m, k, refused) ==    \* mutant: queues the region for the writes
  [m EXCEPT !.stalledWrites[k] = <<>>, !.pendingRetries = Append(@, k)]
ReleaseRange(m, k, refused) ==
  LET writes == m.stalledWrites[k]
      m1     == ResetRegion([m EXCEPT !.stalledWrites[k] = <<>>], k)
  IN  IF refused
      THEN [m1 EXCEPT !.pendingRemoteWrites = @ \o writes]
      ELSE [m1 EXCEPT !.pendingRetries = @ \o writes]

-----------------------------------------------------------------------------
(* The parts of a tick.                                                    *)

KeepTransaction(m) ==   \* mutant: an answered access stays outstanding
  IF m.bottomIn = <<>> \/ Full(m.topOut)
  THEN m
  ELSE [m EXCEPT !.bottomIn = Tail(@),
                 !.topOut = Append(@, [kind |-> "Done", req |-> Head(m.bottomIn)])]
ProcessBottomResponse(m) ==
  IF m.bottomIn = <<>> \/ Full(m.topOut)
  THEN m
  ELSE [m EXCEPT !.bottomIn = Tail(@),
                 !.topOut = Append(@, [kind |-> "Done", req |-> Head(m.bottomIn)]),
                 !.transactions = @ \ {Head(m.bottomIn)}]

(* forwardRequest, trackTransaction, countAccepted. *)
Forward(m, req) ==
  CountAccepted([m EXCEPT !.bottomOut = Append(@, req),
                          !.transactions = @ \cup {req}], req.region)

CanForward(m) == ~AtOutstandingLimit(m) /\ ~Full(m.bottomOut)

(* forwardRead and handleWrite: a read that cannot go stays in the port    *)
(* and holds up what is behind it.                                         *)
ProcessTopMessage(m) ==
  LET req  == Head(m.topIn)
      rest == [m EXCEPT !.topIn = Tail(@)]
  IN  IF m.topIn = <<>> THEN m
      ELSE IF req.write
      THEN NotifyRegion(
             [rest EXCEPT !.stalledWrites[req.region] = Append(@, req)], req.region)
      ELSE IF CanForward(m) THEN Forward(rest, req) ELSE m

InTransit(m, k) == \E q \in m.transactions : q.region = k   \* mutant
HasOutstanding(m, k) ==
  \E q \in m.transactions \cup Elements(m.pendingRemoteWrites) : q.region = k

(* A drain waits at the head of the port, and commands behind it with it. *)
ProcessCtrlMessage(m) ==
  LET c    == Head(m.ctrlIn)
      rest == [m EXCEPT !.ctrlIn = Tail(@)]
  IN  IF m.ctrlIn = <<>> THEN m
      ELSE CASE c.kind = "ResetAll" -> ResetAll(rest)
             [] c.kind = "Reset"    -> ResetRegion(rest, c.region)
             [] c.kind = "Replay"   -> ReleaseRange(rest, c.region, c.refused)
             [] c.kind = "Drain"    ->
                  IF HasOutstanding(m, c.region) \/ Full(m.ctrlOut)
                  THEN m
                  ELSE [rest EXCEPT !.ctrlOut =
                          Append(@, [kind |-> "Drained", region |-> c.region])]

RetryNotification(m) ==
  IF m.pendingNotifications = <<>> \/ Full(m.ctrlOut)
  THEN m
  ELSE [m EXCEPT !.pendingNotifications = Tail(@),
                 !.ctrlOut = Append(@, [kind |-> "Notify",
                                        region |-> Head(m.pendingNotifications)])]

SendPendingRetry(m) ==
  IF m.pendingRetries = <<>> \/ Full(m.topOut)
  THEN m
  ELSE [m EXCEPT !.pendingRetries = Tail(@),
                 !.topOut = Append(@, [kind |-> "Retry", req |-> Head(m.pendingRetries)])]

SendPendingRemoteWrite(m) ==
  IF m.pendingRemoteWrites = <<>> \/ ~CanForward(m)
  THEN m
  ELSE Forward([m EXCEPT !.pendingRemoteWrites = Tail(@)], Head(m.pendingRemoteWrites))

(* The requests of one cycle: responses and new requests in turn. *)
ProcessRequests(m) ==
  LET after[i \in 0..ReqPerCycle] ==
        IF i = 0 THEN m ELSE ProcessTopMessage(ProcessBottomResponse(after[i - 1]))
  IN  after[ReqPerCycle]

Ticked(m) ==
  SendPendingRemoteWrite(SendPendingRetry(RetryNotification(
    ProcessCtrlMessage(ProcessRequests(m)))))
=============================================================================
