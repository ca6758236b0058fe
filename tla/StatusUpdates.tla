---------------------------- MODULE StatusUpdates ----------------------------
(***************************************************************************)
(* How statuses reach the API server: the status update handler and its    *)
(* writers (internal/k8s/status.go), the load balancer address updater     *)
(* (internal/k8s/statusaddress.go) and the leader's load balancer status   *)
(* writer (cmd/contour/ingressstatus.go).                                  *)
(*                                                                         *)
(* The goroutines are the event handler, which sends the statuses of a DAG *)
(* rebuild; the informer of the Envoy service; the load balancer status    *)
(* writer; one informer per object; and the status update handler, which   *)
(* reads objects from the informer cache and writes them to the API        *)
(* server.  An object is the sequence of its versions, so that a resource  *)
(* version is an index; a version holds the status of the DAG and the load *)
(* balancer address.                                                       *)
(***************************************************************************)
EXTENDS Integers, Sequences

CONSTANTS
  Objects,         \* Ingress, HTTPProxy and Gateway objects
  Matching,        \* those of our ingress class, or our Gateway
  Addresses,       \* load balancer addresses
  DagStatuses,     \* statuses that a DAG rebuild may give an object
  ChannelCap,      \* capacity of updateChannel
  Steps,           \* retry.DefaultBackoff.Steps
  MaxRebuilds,     \* bound on DAG rebuilds
  MaxServices,     \* bound on changes to the service's address
  MaxTouches,      \* bound on writes by others
  Empty,           \* no address
  None             \* no status update

ASSUME StatusAssumption ==
  /\ Matching \subseteq Objects
  /\ Empty \notin Addresses
  /\ ChannelCap \in Nat \ {0} /\ Steps \in Nat \ {0}

VARIABLES
  versions,        \* API server: by object, its versions so far
  cachedRv,        \* informer cache: by object, the version it holds
  service,         \* address in the status of the Envoy service
  serviceQueue,    \* notifications for the service watcher
  lbStatus,        \* loadBalancerStatusWriter.lbStatus, of capacity 1
  writer,          \* loadBalancerStatusWriter: "off", "running", "stopped"
  todo, wSend,     \* its objects still to handle, its update being sent
  LBStatus,        \* StatusAddressUpdater.LBStatus
  handledRv, iSend,\* by object: version its informer has handled, update being sent
  want, dagSend,   \* by object: status in the last DAG, update still to be sent
  enabled,         \* StatusUpdateHandler.sendUpdates is closed
  updateChannel,
  upd, got, attempts,  \* apply: the update, version read by Get or 0, attempts so far
  rebuilds, touches, changes,
  dropped,         \* history: an update was dropped by Send
  skewed           \* history, by object: a DAG status was skipped or given up
                   \* because of an outdated cache, and none was applied since

apiVars     == <<versions, cachedRv, touches>>
serviceVars == <<service, serviceQueue, changes>>
writerVars  == <<writer, todo, wSend, LBStatus>>
iVars       == <<handledRv, iSend>>
dagVars     == <<want, dagSend, rebuilds>>
handlerVars == <<upd, got, attempts, skewed>>
channelVars == <<enabled, updateChannel, dropped>>
vars == <<apiVars, serviceVars, lbStatus, writerVars, iVars, dagVars, handlerVars, channelVars>>

Update(o, field, value) == [object |-> o, field |-> field, value |-> value]

Updates == [object : Objects, field : {"address", "dag"}, value : Addresses \cup DagStatuses]

\* No update looks like the absence of one.
ASSUME NoneAssumption == None \notin Updates

Latest(o) == versions[o][Len(versions[o])]

-----------------------------------------------------------------------------
(* StatusUpdateWriter.Send: dropped until the handler runs, blocking on a  *)
(* full channel afterwards.                                                *)

SendOnChannel(u) ==
  /\ Len(updateChannel) < ChannelCap
  /\ updateChannel' = Append(updateChannel, u)
  /\ UNCHANGED <<enabled, dropped>>

Drop == dropped' = TRUE /\ UNCHANGED <<enabled, updateChannel>>

Send(u) == \/ enabled /\ SendOnChannel(u)
           \/ ~enabled /\ Drop

-----------------------------------------------------------------------------
(* StatusAddressUpdater.OnAdd: the update it sends, from a copy of         *)
(* LBStatus taken under the mutex, or None.                                *)

addressUpdate(o, lb) ==
  IF lb # Empty /\ o \in Matching THEN Update(o, "address", lb) ELSE None

-----------------------------------------------------------------------------
(* The environment: the API server, other writers, the Envoy service.      *)

\* Another client writes the object and leaves the status alone.
Touch(o) ==
  /\ touches < MaxTouches
  /\ touches' = touches + 1
  /\ versions' = [versions EXCEPT ![o] = Append(@, Latest(o))]
  /\ UNCHANGED <<cachedRv, serviceVars, lbStatus, writerVars, iVars, dagVars, handlerVars,
                 channelVars>>

\* The informer cache receives the next version of the object.
WatchEvent(o) ==
  /\ cachedRv[o] < Len(versions[o])
  /\ cachedRv' = [cachedRv EXCEPT ![o] = @ + 1]
  /\ UNCHANGED <<versions, touches, serviceVars, lbStatus, writerVars, iVars, dagVars,
                 handlerVars, channelVars>>

\* The service gets another address, or loses it or is deleted.
ServiceChange(a) ==
  /\ changes < MaxServices
  /\ changes' = changes + 1
  /\ a # service
  /\ service' = a
  /\ serviceQueue' = Append(serviceQueue, a)
  /\ UNCHANGED <<apiVars, lbStatus, writerVars, iVars, dagVars, handlerVars, channelVars>>

-----------------------------------------------------------------------------
(* ServiceStatusLoadBalancerWatcher, on the service informer's goroutine.  *)

notify ==
  /\ serviceQueue # <<>>
  /\ Len(lbStatus) < 1
  /\ lbStatus' = Append(lbStatus, Head(serviceQueue))
  /\ serviceQueue' = Tail(serviceQueue)
  /\ UNCHANGED <<apiVars, service, changes, writerVars, iVars, dagVars, handlerVars, channelVars>>

-----------------------------------------------------------------------------
(* loadBalancerStatusWriter.Start                                          *)

\* Registering with the informers replays every object in the cache.
WriterStart ==
  /\ writer = "off"
  /\ writer' = "running"
  /\ handledRv' = [o \in Objects |-> cachedRv[o] - 1]
  /\ UNCHANGED <<apiVars, serviceVars, lbStatus, todo, wSend, LBStatus, iSend, dagVars,
                 handlerVars, channelVars>>

\* case lbs := <-isw.lbStatus: set the address and list the objects.
WriterReceive ==
  /\ writer = "running"
  /\ todo = {} /\ wSend = None
  /\ lbStatus # <<>>
  /\ lbStatus' = Tail(lbStatus)
  /\ LBStatus' = Head(lbStatus)
  /\ todo' = Objects
  /\ UNCHANGED <<apiVars, serviceVars, writer, wSend, iVars, dagVars, handlerVars, channelVars>>

\* u.OnAdd of a listed object, up to its Send.
WriterOnAdd(o) ==
  /\ o \in todo /\ wSend = None
  /\ todo' = todo \ {o}
  /\ wSend' = addressUpdate(o, LBStatus)
  /\ UNCHANGED <<apiVars, serviceVars, lbStatus, writer, LBStatus, iVars, dagVars, handlerVars,
                 channelVars>>

WriterSend ==
  /\ wSend # None
  /\ Send(wSend)
  /\ wSend' = None
  /\ UNCHANGED <<apiVars, serviceVars, lbStatus, writer, todo, LBStatus, iVars, dagVars,
                 handlerVars>>

\* The load balancer status is cleared, since the informers cannot be stopped.
addressAfterStop == Empty

\* case <-ctx.Done()
WriterStop ==
  /\ writer = "running"
  /\ todo = {} /\ wSend = None
  /\ writer' = "stopped"
  /\ LBStatus' = addressAfterStop
  /\ UNCHANGED <<apiVars, serviceVars, lbStatus, todo, wSend, iVars, dagVars, handlerVars,
                 channelVars>>

-----------------------------------------------------------------------------
(* StatusAddressUpdater.OnAdd and OnUpdate, on an informer's goroutine.    *)

InformerOnUpdate_Ignored(o) ==
  /\ writer # "off"
  /\ handledRv[o] < cachedRv[o]
  /\ handledRv' = [handledRv EXCEPT ![o] = @ + 1]
  /\ UNCHANGED <<iSend, apiVars, serviceVars, lbStatus, writerVars, dagVars, handlerVars, channelVars>>

InformerOnUpdate(o) ==
  /\ writer # "off"
  /\ iSend[o] = None
  /\ handledRv[o] < cachedRv[o]
  /\ handledRv' = [handledRv EXCEPT ![o] = @ + 1]
  /\ iSend' = [iSend EXCEPT ![o] = addressUpdate(o, LBStatus)]
  /\ UNCHANGED <<apiVars, serviceVars, lbStatus, writerVars, dagVars, handlerVars, channelVars>>

InformerSend(o) ==
  /\ iSend[o] # None
  /\ Send(iSend[o])
  /\ iSend' = [iSend EXCEPT ![o] = None]
  /\ UNCHANGED <<apiVars, serviceVars, lbStatus, writerVars, handledRv, dagVars, handlerVars>>

-----------------------------------------------------------------------------
(* The event handler: a rebuild computes statuses and sends one by one.    *)

Rebuild ==
  /\ rebuilds < MaxRebuilds
  /\ \A o \in Objects : dagSend[o] = None
  /\ rebuilds' = rebuilds + 1
  /\ want' \in [Objects -> DagStatuses]
  /\ dagSend' = [o \in Objects |-> Update(o, "dag", want'[o])]
  /\ UNCHANGED <<apiVars, serviceVars, lbStatus, writerVars, iVars, handlerVars, channelVars>>

DagSend(o) ==
  /\ dagSend[o] # None
  /\ Send(dagSend[o])
  /\ dagSend' = [dagSend EXCEPT ![o] = None]
  /\ UNCHANGED <<apiVars, serviceVars, lbStatus, writerVars, iVars, want, rebuilds, handlerVars>>

-----------------------------------------------------------------------------
(* StatusUpdateHandler                                                     *)

HandlerStart ==
  /\ ~enabled
  /\ enabled' = TRUE
  /\ UNCHANGED <<apiVars, serviceVars, lbStatus, writerVars, iVars, dagVars, handlerVars,
                 updateChannel, dropped>>

HandlerReceive ==
  /\ enabled
  /\ upd = None
  /\ updateChannel # <<>>
  /\ upd' = Head(updateChannel)
  /\ updateChannel' = Tail(updateChannel)
  /\ UNCHANGED <<apiVars, serviceVars, lbStatus, writerVars, iVars, dagVars, got, attempts,
                 skewed, enabled, dropped>>

\* apply is through with the update.
Applied == upd' = None /\ got' = 0 /\ attempts' = 0

\* Whether the DAG status of the object is left behind by apply.
Skew(behind) ==
  skewed' = IF upd.field = "dag" THEN [skewed EXCEPT ![upd.object] = behind] ELSE skewed

Mutate(version, u) == [version EXCEPT ![u.field] = u.value]

noop_AddressOnly(version, u) == Mutate(version, u).address = version.address

\* isStatusEqual(obj, newObj)
noop(version, u) == Mutate(version, u) = version

\* client.Get reads from the informer cache; no write for a status that is
\* already there.
Get ==
  /\ upd # None /\ got = 0
  /\ LET rv == cachedRv[upd.object]  IN
       IF noop(versions[upd.object][rv], upd)
         THEN Applied /\ Skew(rv < Len(versions[upd.object]))
         ELSE got' = rv /\ UNCHANGED <<upd, attempts, skewed>>
  /\ UNCHANGED <<apiVars, serviceVars, lbStatus, writerVars, iVars, dagVars, channelVars>>

conflict_AddressesOnly == upd.field = "address" /\ got # Len(versions[upd.object])

\* The API server refuses a write based on an old version.
conflict == got # Len(versions[upd.object])

\* Status().Update succeeds with the object that Get read.
StatusUpdate ==
  /\ got # 0
  /\ ~conflict
  /\ versions' = [versions EXCEPT ![upd.object] = Append(@, Mutate(@[got], upd))]
  /\ Applied
  /\ Skew(FALSE)
  /\ UNCHANGED <<cachedRv, touches, serviceVars, lbStatus, writerVars, iVars, dagVars,
                 channelVars>>

again == attempts + 1 < Steps

\* retry.OnError retries a conflict, at most Steps attempts in all.
StatusConflict ==
  /\ got # 0
  /\ conflict
  /\ IF again
       THEN attempts' = attempts + 1 /\ got' = 0 /\ UNCHANGED <<upd, skewed>>
       ELSE Applied /\ Skew(TRUE)
  /\ UNCHANGED <<apiVars, serviceVars, lbStatus, writerVars, iVars, dagVars, channelVars>>

-----------------------------------------------------------------------------

Init ==
  /\ \E s \in DagStatuses :
       /\ versions = [o \in Objects |-> <<[dag |-> s, address |-> Empty]>>]
       /\ want = [o \in Objects |-> s]
  /\ cachedRv = [o \in Objects |-> 1]
  /\ service = Empty /\ serviceQueue = <<>>
  /\ lbStatus = <<>>
  /\ writer = "off" /\ todo = {} /\ wSend = None
  /\ LBStatus = Empty
  /\ handledRv = [o \in Objects |-> 0] /\ iSend = [o \in Objects |-> None]
  /\ dagSend = [o \in Objects |-> None]
  /\ enabled = FALSE /\ updateChannel = <<>>
  /\ upd = None /\ got = 0 /\ attempts = 0
  /\ rebuilds = 0 /\ touches = 0 /\ changes = 0
  /\ dropped = FALSE /\ skewed = [o \in Objects |-> FALSE]

Next ==
  \/ \E o \in Objects : Touch(o) \/ WatchEvent(o)
  \/ \E a \in Addresses \cup {Empty} : ServiceChange(a)
  \/ notify
  \/ WriterStart \/ WriterReceive \/ WriterSend \/ WriterStop
  \/ \E o \in Objects : WriterOnAdd(o)
  \/ \E o \in Objects : InformerOnUpdate(o) \/ InformerSend(o)
  \/ Rebuild
  \/ \E o \in Objects : DagSend(o)
  \/ HandlerStart \/ HandlerReceive \/ Get \/ StatusUpdate \/ StatusConflict

Spec == Init /\ [][Next]_vars

\* The process becomes leader, every goroutine keeps running, and watch events
\* arrive.  Nothing makes others write or the service change.
Fairness ==
  /\ WF_vars(notify)
  /\ WF_vars(WriterStart) /\ WF_vars(WriterReceive) /\ WF_vars(WriterSend)
  /\ WF_vars(HandlerStart) /\ WF_vars(HandlerReceive)
  /\ WF_vars(Get) /\ WF_vars(StatusUpdate) /\ WF_vars(StatusConflict)
  /\ \A o \in Objects :
       /\ WF_vars(WatchEvent(o)) /\ WF_vars(WriterOnAdd(o)) /\ WF_vars(InformerOnUpdate(o))
       /\ WF_vars(InformerSend(o)) /\ WF_vars(DagSend(o))

FairSpec == Spec /\ Fairness

-----------------------------------------------------------------------------
(* Properties.                                                             *)

Versions == [dag : DagStatuses, address : Addresses \cup {Empty}]

\* A status write changes only the field of its update: the address writers and
\* the DAG do not overwrite each other's status, or a status written since the
\* object was read.
OnlyOwnFieldStep ==
  \A o \in Objects : versions'[o] # versions[o] =>
    \/ Latest(o)' = Latest(o)
    \/ /\ upd # None /\ upd.object = o
       /\ Latest(o)' = Mutate(Latest(o), upd)
OnlyOwnField == [][OnlyOwnFieldStep]_vars

DagQuiet(o) ==
  /\ dagSend[o] = None
  /\ ~(upd # None /\ upd.object = o /\ upd.field = "dag")
  /\ \A i \in 1 .. Len(updateChannel) :
       ~(updateChannel[i].object = o /\ updateChannel[i].field = "dag")

\* Once the updates of a rebuild are through, the objects have the statuses of
\* the DAG, unless an update was dropped by Send, or was skipped or given up
\* because the informer cache was behind.
DagStatusUnlessSkewed ==
  \A o \in Objects : ~dropped /\ ~skewed[o] /\ DagQuiet(o) => Latest(o).dag = want[o]

HasAddress == \A o \in Matching : service # Empty => Latest(o).address = service

\* Every matching object ends up with the last address of the service, whatever
\* conflicts, outdated reads and orders of sending the writer and the informers
\* meet, unless the writer was stopped or an update was dropped by Send.
AddressesConverge == <>(writer = "stopped" \/ dropped) \/ <>[]HasAddress
=============================================================================
