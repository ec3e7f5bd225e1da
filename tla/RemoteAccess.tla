---------------------------- MODULE RemoteAccess ----------------------------
(***************************************************************************)
(* The access counter between its three neighbours: the address            *)
(* translators whose requests it carries, the memory of the host, and the  *)
(* driver that migrates regions and commands it.                           *)
(*                                                                         *)
(* The driver appears with what the counter can tell of it: per region the *)
(* phase of its service, which regions are local, and the commands on      *)
(* their way, in the order of the UVM manager.  Module UVMManager has the  *)
(* rest.  Control messages pass the command processor unchanged.           *)
(***************************************************************************)
EXTENDS AccessCounter

CONSTANTS
  Repeats,      \* the program performs each access again and again
  GMMUStalls,   \* the GMMU may be slow to take the replays meant for it
  MaxCommands   \* bound: commands on their way when new work is started

ASSUME RemoteAssumption ==
  Repeats \in BOOLEAN /\ GMMUStalls \in BOOLEAN /\ MaxCommands \in Nat

VARIABLES
  ac,        \* the access counter
  access,    \* the translators: how far each request is
  memory,    \* requests in the memory of the host
  driver,    \* the service of each region
  local,     \* the regions on the GPU
  commands,  \* the control send queue of the driver
  relayed,   \* the counter has its copy of the first of them
  resets     \* counter resets the driver has still to send

vars == <<ac, access, memory, driver, local, commands, relayed, resets>>

TypeOK ==
  /\ ac \in Counters
  /\ access \in [Requests -> {"Idle", "Routed", "Sent", "Done"}]
  /\ memory \subseteq Requests
  /\ driver \in [Keys -> {"Idle", "Serving", "Draining", "Copying", "Evicting"}]
  /\ local \subseteq Keys
  /\ commands \in Seq(Commands)
  /\ relayed \in BOOLEAN
  /\ resets \subseteq Keys

Init ==
  /\ ac = InitialCounter
  /\ access = [q \in Requests |-> "Idle"]
  /\ memory = {}
  /\ driver = [k \in Keys |-> "Idle"]
  /\ local = {}
  /\ commands = <<>>
  /\ relayed = FALSE
  /\ resets = {}

Tick ==
  /\ ac' = Ticked(ac)
  /\ UNCHANGED <<relayed, access, memory, driver, local, commands, resets>>

-----------------------------------------------------------------------------
(* The address translators.                                                *)

(* A translation comes back.  While a region is not local it is remote:    *)
(* the driver invalidates the TLBs only when the migration is complete.    *)
Translate(q) ==
  /\ access[q] = "Idle"
  /\ access' = [access EXCEPT ![q] = IF q.region \in local THEN "Done" ELSE "Routed"]
  /\ UNCHANGED <<relayed, ac, memory, driver, local, commands, resets>>

(* parseTranslation sends the request on its route once the port takes it. *)
Issue(q) ==
  /\ access[q] = "Routed" /\ ~Full(ac.topIn)
  /\ access' = [access EXCEPT ![q] = "Sent"]
  /\ ac' = [ac EXCEPT !.topIn = Append(@, q)]
  /\ UNCHANGED <<relayed, memory, driver, local, commands, resets>>

(* respond, handleRemoteRetry: a retried request is translated again. *)
Respond ==
  /\ ac.topOut # <<>>
  /\ LET answer == Head(ac.topOut)
     IN  access' = [access EXCEPT ![answer.req] =
                      IF answer.kind = "Retry" THEN "Idle" ELSE "Done"]
  /\ ac' = [ac EXCEPT !.topOut = Tail(@)]
  /\ UNCHANGED <<relayed, memory, driver, local, commands, resets>>

(* The program comes back to an address. *)
Again(q) ==
  /\ Repeats /\ access[q] = "Done"
  /\ access' = [access EXCEPT ![q] = "Idle"]
  /\ UNCHANGED <<relayed, ac, memory, driver, local, commands, resets>>

-----------------------------------------------------------------------------
(* The memory of the host, behind PCIe.                                    *)

Arrive ==
  /\ ac.bottomOut # <<>>
  /\ memory' = memory \cup {Head(ac.bottomOut)}
  /\ ac' = [ac EXCEPT !.bottomOut = Tail(@)]
  /\ UNCHANGED <<relayed, access, driver, local, commands, resets>>

Perform(q) ==
  /\ q \in memory /\ ~Full(ac.bottomIn)
  /\ memory' = memory \ {q}
  /\ ac' = [ac EXCEPT !.bottomIn = Append(@, q)]
  /\ UNCHANGED <<relayed, access, driver, local, commands, resets>>

-----------------------------------------------------------------------------
(* The driver.                                                             *)

(* onAccessCounterNotify and onControlRsp: a notification is swallowed if  *)
(* somebody already has the region.                                        *)
Report ==
  /\ ac.ctrlOut # <<>>
  /\ LET report == Head(ac.ctrlOut)
         k      == report.region
     IN  driver' = [driver EXCEPT ![k] =
                      CASE report.kind = "Notify" /\ @ = "Idle"      -> "Serving"
                        [] report.kind = "Notify" /\ @ # "Idle"      -> @
                        [] report.kind = "Drained"                   -> "Copying"]
  /\ ac' = [ac EXCEPT !.ctrlOut = Tail(@)]
  /\ UNCHANGED <<relayed, access, memory, local, commands, resets>>

Command(c) == commands' = Append(commands, c)

(* serviceFaultLocked: a resident region needs only the replay. *)
ServeResident(k) ==
  /\ driver[k] = "Serving" /\ k \in local
  /\ driver' = [driver EXCEPT ![k] = "Idle"]
  /\ Command([kind |-> "Replay", region |-> k, refused |-> FALSE])
  /\ UNCHANGED <<relayed, ac, access, memory, local, resets>>

(* deferAdmission: there is no room for the region. *)
Refuse(k) ==
  /\ driver[k] = "Serving" /\ k \notin local
  /\ driver' = [driver EXCEPT ![k] = "Idle"]
  /\ Command([kind |-> "Replay", region |-> k, refused |-> TRUE])
  /\ UNCHANGED <<relayed, ac, access, memory, local, resets>>

(* deferAdmission refuses all regions it had selected, also those of       *)
(* neighbours, whether or not they have asked.                             *)
RefuseNeighbour(k) ==
  /\ driver[k] \in {"Idle", "Serving"} /\ k \notin local
  /\ Len(commands) < MaxCommands
  /\ Command([kind |-> "Replay", region |-> k, refused |-> TRUE])
  /\ UNCHANGED <<relayed, ac, access, memory, driver, local, resets>>

(* startCPUToGPUMigration, drainRegionsThen: as the service of the region, *)
(* or by prefetch for a neighbour.                                         *)
StartMigration(k) ==
  /\ k \notin local
  /\ \/ driver[k] = "Serving"
     \/ driver[k] = "Idle" /\ Len(commands) < MaxCommands
  /\ driver' = [driver EXCEPT ![k] = "Draining"]
  /\ Command([kind |-> "Drain", region |-> k])
  /\ UNCHANGED <<relayed, ac, access, memory, local, resets>>

(* finishMigrationLocked: the data has been copied and is published, the   *)
(* counter is reset and the region replayed.                               *)
FinishMigration(k) ==
  /\ driver[k] = "Copying"
  /\ driver' = [driver EXCEPT ![k] = "Idle"]
  /\ local' = local \cup {k}
  /\ resets' = resets \cup {k}
  /\ Command([kind |-> "Replay", region |-> k, refused |-> FALSE])
  /\ UNCHANGED <<relayed, ac, access, memory>>

BeginEviction(k) ==
  /\ driver[k] = "Idle" /\ k \in local /\ Len(commands) < MaxCommands
  /\ driver' = [driver EXCEPT ![k] = "Evicting"]
  /\ UNCHANGED <<relayed, ac, access, memory, local, commands, resets>>

(* finalizeEviction: no replay, but a reset. *)
FinalizeEviction(k) ==
  /\ driver[k] = "Evicting"
  /\ driver' = [driver EXCEPT ![k] = "Idle"]
  /\ local' = local \ {k}
  /\ resets' = resets \cup {k}
  /\ UNCHANGED <<relayed, ac, access, memory, commands>>

(* resetUVMAccessCounters, when a kernel starts. *)
KernelBoundary ==
  /\ Len(commands) < MaxCommands
  /\ Command([kind |-> "ResetAll"])
  /\ UNCHANGED <<relayed, ac, access, memory, driver, local, resets>>

(* sendPendingControl and sendPendingAccessCounterReset, with the relay by *)
(* the command processor.                                                  *)
SendCommand ==
  /\ commands # <<>> /\ ~Full(ac.ctrlIn)
  /\ ac' = [ac EXCEPT !.ctrlIn = Append(@, Head(commands))]
  /\ commands' = Tail(commands)
  /\ relayed' = FALSE
  /\ UNCHANGED <<access, memory, driver, local, resets>>

(* forwardReplay gives the counter its copy of a replay before it sends    *)
(* the original to the GMMU.  When the GMMU cannot take that the replay    *)
(* stays at the head, with all that is behind it, and the counter is given *)
(* a copy again.                                                           *)
RelayReplayAgain ==
  /\ GMMUStalls
  /\ commands # <<>> /\ Head(commands).kind = "Replay" /\ ~Full(ac.ctrlIn)
  /\ ac' = [ac EXCEPT !.ctrlIn = Append(@, Head(commands))]
  /\ relayed' = TRUE
  /\ UNCHANGED <<access, memory, driver, local, commands, resets>>

SendReset(k) ==
  /\ k \in resets /\ ~relayed /\ ~Full(ac.ctrlIn)
  /\ ac' = [ac EXCEPT !.ctrlIn = Append(@, [kind |-> "Reset", region |-> k])]
  /\ resets' = resets \ {k}
  /\ UNCHANGED <<relayed, access, memory, driver, local, commands>>

-----------------------------------------------------------------------------
Next ==
  \/ Tick
  \/ \E q \in Requests : Translate(q) \/ Issue(q) \/ Again(q) \/ Perform(q)
  \/ Respond
  \/ Arrive
  \/ Report
  \/ \E k \in Keys : ServeResident(k) \/ Refuse(k) \/ RefuseNeighbour(k)
  \/ \E k \in Keys : StartMigration(k) \/ FinishMigration(k)
  \/ \E k \in Keys : BeginEviction(k) \/ FinalizeEviction(k)
  \/ KernelBoundary
  \/ SendCommand \/ RelayReplayAgain
  \/ \E k \in Keys : SendReset(k)

Spec == Init /\ [][Next]_vars

(* Components tick while they can make progress (for the counter this is   *)
(* written out, its tick being enabled when it changes something); the     *)
(* memory and the driver finish what they have.  A tick of the driver      *)
(* tries both its queues, so neither shuts the other out.  Nothing obliges *)
(* the driver to prefetch, to evict or to start a kernel, or the program   *)
(* to come back.                                                           *)
Fairness ==
  /\ []<>(Ticked(ac) = ac) \/ []<><<Tick>>_vars
  /\ WF_vars(Respond) /\ WF_vars(Arrive) /\ WF_vars(Report)
  /\ SF_vars(SendCommand) /\ \A k \in Keys : SF_vars(SendReset(k))
  /\ \A q \in Requests : WF_vars(Translate(q)) /\ WF_vars(Issue(q)) /\ WF_vars(Perform(q))
  /\ \A k \in Keys :
       /\ WF_vars(ServeResident(k) \/ Refuse(k) \/ StartMigration(k))
       /\ WF_vars(FinishMigration(k)) /\ WF_vars(FinalizeEviction(k))

FairSpec == Spec /\ Fairness

-----------------------------------------------------------------------------
(* Properties.                                                             *)

(* How often q is somewhere between its translator and the answer. *)
Copies(q) ==
  LET times(s) == Cardinality({i \in 1..Len(s) : s[i] = q})
  IN  times(ac.topIn) + times(ac.stalledWrites[q.region])
        + times(ac.pendingRemoteWrites) + times(ac.pendingRetries)
        + times(ac.bottomOut) + times(ac.bottomIn)
        + Cardinality({q} \cap memory)
        + Cardinality({i \in 1..Len(ac.topOut) : ac.topOut[i].req = q})

(* A request that was sent is in exactly one place until it is answered:   *)
(* holding, releasing, refusing and retrying lose none and double none.    *)
(* It has a transaction while it is on the far side of the counter.        *)
EachRequestOnce ==
  \A q \in Requests :
    /\ Copies(q) = IF access[q] = "Sent" THEN 1 ELSE 0
    /\ q \in ac.transactions <=>
         q \in memory \cup Elements(ac.bottomOut) \cup Elements(ac.bottomIn)

(* The notifications that wait to be sent are of latched regions, one of   *)
(* each.  One that was sent is not counted: a kernel boundary unlatches    *)
(* its region, which may then ask again (counter.go:109).                  *)
AskedOnce ==
  /\ Elements(ac.pendingNotifications) \subseteq ac.latched
  /\ Cardinality(Elements(ac.pendingNotifications)) = Len(ac.pendingNotifications)

(* What will make the driver or the counter look at region k again. *)
Cared(k) ==
  \/ k \in Elements(ac.pendingNotifications)
  \/ [kind |-> "Notify", region |-> k] \in Elements(ac.ctrlOut)
  \/ driver[k] # "Idle"
  \/ k \in resets
  \/ \E c \in Elements(commands) \cup Elements(ac.ctrlIn) :
       c.kind \in {"Reset", "Replay"} /\ c.region = k

(* No held write is forgotten: through swallowed notifications, evictions, *)
(* resets and kernel boundaries somebody still has its region.             *)
HeldIsCaredFor == \A k \in Keys : ac.stalledWrites[k] # <<>> => Cared(k)

(* The copy of a region that a migration takes is authoritative: from the  *)
(* drain to the end of the copy no write to it is on its way to the host.  *)
SnapshotAuthoritative ==
  \A k \in Keys : driver[k] = "Copying" =>
    ~\E q \in ac.transactions \cup Elements(ac.pendingRemoteWrites) :
       q.write /\ q.region = k

(* Each remote access that was sent is answered. *)
AccessesEnd == \A q \in Requests : (access[q] = "Sent") ~> (access[q] # "Sent")

(* Each drain is answered. *)
DrainsEnd == \A k \in Keys : (driver[k] = "Draining") ~> (driver[k] # "Draining")
=============================================================================
