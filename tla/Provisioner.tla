----------------------------- MODULE Provisioner -----------------------------
(***************************************************************************)
(* The gateway provisioner (internal/provisioner): the GatewayClass and    *)
(* Gateway reconcilers and the objects they keep for one Gateway, between  *)
(* an API server that others write to and the caches all reads go through. *)
(*                                                                         *)
(* The model has one GatewayClass of the provisioner, called "ours", with  *)
(* its ContourDeployment, and one Gateway, whose class is "ours" or        *)
(* "other".  A ContourDeployment is [workload, watch]: the workload type   *)
(* of Envoy, and whether it names namespaces to watch; NoParams is its     *)
(* absence.  A deleted GatewayClass or Gateway keeps the last value of its *)
(* fields, which its delete event carries.                                 *)
(*                                                                         *)
(* The objects of the Gateway: "rbac" (the service accounts, roles and     *)
(* bindings), "namespaceRoles" (the roles and bindings in the watched      *)
(* namespaces), "secrets" (of the xDS connection), the data plane, and     *)
(* "contour" (the ContourConfiguration, the Deployment of Contour and the  *)
(* two Services, which are ensured and deleted alike).                     *)
(***************************************************************************)
EXTENDS Naturals, Sequences, FiniteSets

CONSTANTS Refs,             \* what the GatewayClass may refer to: "none", "params" (the
                            \* ContourDeployment) or "bad" (something else)
          Parameters,       \* the ContourDeployments that may be written
          InitialParams,    \* the first one
          MaxChanges,       \* bound on the writes of others
          MaxLag,           \* bound on the objects whose last write the cache has not seen
          MaxFaults         \* bound on the refused writes and the restarts of the provisioner

VARIABLES class,            \* the GatewayClass: [exists, ref, accepted, observed]
          params,           \* its ContourDeployment
          gateway,          \* the Gateway: [exists, class, accepted]
          objects,          \* the objects that exist for the Gateway
          cache,            \* what the caches of the provisioner hold of these four
          events,           \* the changes the informers have not delivered yet
          queue,            \* the requests in the work queues of the two controllers
          gatewayWork,      \* the Gateway reconcile that is running
          excuse,           \* why objects may outlive, or be missing from, their Gateway
          budget            \* the changes and faults so far

apiVars == <<class, params, gateway, objects>>
workVars == <<queue, gatewayWork>>
provisionerVars == <<apiVars, cache, events, workVars, excuse, budget>>

NoParams == [workload |-> "none", watch |-> FALSE]
DataPlanes == {"DaemonSet", "Deployment"}
NoWork == [step |-> "idle"]

-----------------------------------------------------------------------------
(* The objects of a Gateway. *)

\* Every type but Deployment, an invalid one included, is a DaemonSet.
DataPlane(spec) == IF spec.workload = "Deployment" THEN "Deployment" ELSE "DaemonSet"

RBACObjects == {"rbac", "namespaceRoles"}

\* The namespaced roles exist only for a Contour that watches some namespaces.
ensureContour(spec) ==
    IF spec.watch THEN <<"rbac", "namespaceRoles", "secrets", "contour", DataPlane(spec)>>
    ELSE <<"rbac", "secrets", "contour", DataPlane(spec)>>

\* The secrets are overwritten when they turn out to exist, and deleted without looking.
Unconditional(o) == o = "secrets"

\* Without the spec of the Gateway both data planes are tried; the namespaced roles are not.
ensureContourDeleted ==
    <<"DaemonSet", "Deployment", "contour", "secrets", "rbac">>

Required == {"rbac", "secrets", "contour"}

-----------------------------------------------------------------------------
(* The API server and the informers. *)

Notified(kind, value) == [events EXCEPT ![kind] = Append(@, value)]

\* A reconcile that holds a copy of an object that has changed since cannot write its status.
Outdated(work) == IF work = NoWork THEN work ELSE [work EXCEPT !.outdated = TRUE]

isGatewayClassReconcilable(c) == c.accepted = "True"

\* Asked of the Gateway of the event, with the GatewayClass of the cache.
forReconcilableGatewayClass(g) ==
    g.class = "ours" /\ cache.class.exists /\ isGatewayClassReconcilable(cache.class)

getGatewayClassGateways ==
    IF cache.gateway.exists /\ cache.gateway.class = "ours" THEN {"gateway"} ELSE {}

mapContourDeploymentToGatewayClasses ==
    IF cache.class.exists /\ cache.class.ref = "params" THEN {"class"} ELSE {}

DeliverGateway ==
    /\ events.gateway # <<>>
    /\ LET g == Head(events.gateway)
           wanted == forReconcilableGatewayClass(g)
       IN  /\ cache' = [cache EXCEPT !.gateway = g]
           /\ queue' = IF wanted THEN queue \union {"gateway"} ELSE queue
           /\ excuse' = IF g.exists \/ wanted THEN excuse ELSE excuse \union {"filtered"}
    /\ events' = [events EXCEPT !.gateway = Tail(@)]
    /\ UNCHANGED <<apiVars, gatewayWork, budget>>

\* A broken form: a GatewayClass does not bring its Gateways back into the queue.
DeliverClass_ClassOnly ==
    /\ events.class # <<>>
    /\ cache' = [cache EXCEPT !.class = Head(events.class)]
    /\ queue' = queue \union {"class"}
    /\ events' = [events EXCEPT !.class = Tail(@)]
    /\ UNCHANGED <<apiVars, gatewayWork, excuse, budget>>

\* Both controllers watch the GatewayClasses.
DeliverClass ==
    /\ events.class # <<>>
    /\ LET c == Head(events.class)
       IN  /\ cache' = [cache EXCEPT !.class = c]
           /\ queue' = queue \union {"class"} \union
                       (IF isGatewayClassReconcilable(c) THEN getGatewayClassGateways ELSE {})
    /\ events' = [events EXCEPT !.class = Tail(@)]
    /\ UNCHANGED <<apiVars, gatewayWork, excuse, budget>>

DeliverParams ==
    /\ events.params # <<>>
    /\ cache' = [cache EXCEPT !.params = Head(events.params)]
    /\ queue' = queue \union mapContourDeploymentToGatewayClasses
    /\ events' = [events EXCEPT !.params = Tail(@)]
    /\ UNCHANGED <<apiVars, gatewayWork, excuse, budget>>

Lagging == (cache.objects \ objects) \union (objects \ cache.objects)

\* No controller watches the objects: they only reach the cache.
DeliverObject ==
    /\ \E o \in Lagging :
        cache' = [cache EXCEPT !.objects = IF o \in objects THEN @ \union {o} ELSE @ \ {o}]
    /\ UNCHANGED <<apiVars, events, workVars, excuse, budget>>

-----------------------------------------------------------------------------
(* The writes of others. *)

Change ==
    /\ budget.changes < MaxChanges
    /\ budget' = [budget EXCEPT !.changes = @ + 1]
    /\ UNCHANGED <<objects, cache, queue, excuse>>

WriteClass ==
    /\ Change
    /\ \/ \E ref \in Refs :
            class' = IF class.exists THEN [class EXCEPT !.ref = ref, !.observed = ref = class.ref /\ @]
                     ELSE [exists |-> TRUE, ref |-> ref, accepted |-> "Unknown", observed |-> FALSE]
       \/ class.exists /\ class' = [class EXCEPT !.exists = FALSE]
    /\ class' # class
    /\ events' = Notified("class", class')
    /\ UNCHANGED <<params, gateway, gatewayWork>>

WriteParams ==
    /\ Change
    /\ \E value \in Parameters \union {NoParams} : value # params /\ params' = value
    /\ events' = Notified("params", params')
    /\ UNCHANGED <<class, gateway, gatewayWork>>

\* Also a change of the Gateway's spec that keeps its class.
WriteGateway ==
    /\ Change
    /\ \/ \E c \in {"ours", "other"} :
            gateway' = IF gateway.exists THEN [gateway EXCEPT !.class = c]
                       ELSE [exists |-> TRUE, class |-> c, accepted |-> FALSE]
       \/ gateway.exists /\ gateway' = [gateway EXCEPT !.exists = FALSE]
    /\ events' = Notified("gateway", gateway')
    /\ gatewayWork' = Outdated(gatewayWork)
    /\ UNCHANGED <<class, params>>

-----------------------------------------------------------------------------
(* The GatewayClass reconciler. *)

Fails ==
    /\ budget.faults < MaxFaults
    /\ budget' = [budget EXCEPT !.faults = @ + 1]

ParamsValid(value) == value # NoParams /\ value.workload \in DataPlanes

ClassAccepted(c) ==
    CASE c.ref = "none" -> "True"
      [] c.ref = "bad" -> "False"
      [] OTHER -> IF ParamsValid(cache.params) THEN "True" ELSE "False"

\* An update that changes nothing makes no event.
setConditions(c, accepted) ==
    /\ class' = [c EXCEPT !.accepted = accepted, !.observed = TRUE]
    /\ events' = IF class' = class THEN events ELSE Notified("class", class')

\* An update that is refused, because the copy in the cache is outdated or for any other
\* reason, leaves the request in the queue.
ReconcileClass ==
    /\ "class" \in queue
    /\ \/ ~cache.class.exists /\ UNCHANGED <<class, events>>
       \/ /\ cache.class.exists
          /\ events.class = <<>>
          /\ setConditions(cache.class, ClassAccepted(cache.class))
    /\ queue' = queue \ {"class"}
    /\ UNCHANGED <<params, gateway, objects, cache, gatewayWork, excuse, budget>>

-----------------------------------------------------------------------------
(* The Gateway reconciler. *)

Requeue ==
    /\ queue' = queue \union {"gateway"}
    /\ gatewayWork' = NoWork

\* Everything is read from the caches.  A GatewayClass or a ContourDeployment that is not
\* there is an error, and the request comes back.
Reconcile ==
    /\ "gateway" \in queue
    /\ gatewayWork = NoWork
    /\ LET known == cache.class.exists
           spec == IF cache.class.ref = "params" THEN cache.params ELSE NoParams
       IN  \/ /\ ~cache.gateway.exists
              /\ queue' = queue \ {"gateway"}
              /\ gatewayWork' = [step |-> "delete", at |-> 1, outdated |-> FALSE]
           \/ /\ cache.gateway.exists
              /\ cache.gateway.class = "other" \/ (known /\ ~isGatewayClassReconcilable(cache.class))
              /\ queue' = queue \ {"gateway"}
              /\ gatewayWork' = NoWork
           \/ /\ cache.gateway.exists /\ cache.gateway.class = "ours"
              /\ known /\ isGatewayClassReconcilable(cache.class)
              /\ cache.class.ref = "params" => cache.params # NoParams
              /\ queue' = queue \ {"gateway"}
              /\ gatewayWork' = [step |-> "ensure", at |-> 1, spec |-> spec,
                                 accepted |-> cache.gateway.accepted, failed |-> FALSE,
                                 outdated |-> events.gateway # <<>>]
    /\ UNCHANGED <<apiVars, cache, events, excuse, budget>>

\* A broken form: the errors of the objects after the RBAC ones are forgotten.
EnsureFailed_Forgotten(work) == IF ensureContour(work.spec)[work.at] \in RBACObjects THEN NoWork
                                ELSE [work EXCEPT !.at = @ + 1]

\* What remains of the reconcile after an object that could not be ensured: nothing without RBAC.
EnsureFailed(work) == IF ensureContour(work.spec)[work.at] \in RBACObjects THEN NoWork
                      ELSE [work EXCEPT !.at = @ + 1, !.failed = TRUE]

Ensuring == gatewayWork.step = "ensure" /\ gatewayWork.at <= Len(ensureContour(gatewayWork.spec))

\* An object of the cache is updated where it differs, any other one is created.
EnsureObject ==
    /\ Ensuring
    /\ Cardinality(Lagging) < MaxLag
    /\ LET o == ensureContour(gatewayWork.spec)[gatewayWork.at]
       IN  /\ o \in cache.objects \/ o \notin objects \/ Unconditional(o)
           /\ objects' = IF o \in cache.objects THEN objects ELSE objects \union {o}
           /\ excuse' = IF o \in cache.objects \ objects THEN excuse \union {"missed"} ELSE excuse
    /\ gatewayWork' = [gatewayWork EXCEPT !.at = @ + 1]
    /\ UNCHANGED <<class, params, gateway, cache, events, queue, budget>>

EnsureObjectFails ==
    /\ Ensuring
    /\ LET o == ensureContour(gatewayWork.spec)[gatewayWork.at]
       IN  \/ o \in objects \ cache.objects /\ ~Unconditional(o) /\ UNCHANGED budget
           \/ Fails
    /\ gatewayWork' = EnsureFailed(gatewayWork)
    /\ queue' = IF gatewayWork' = NoWork THEN queue \union {"gateway"} ELSE queue
    /\ UNCHANGED <<apiVars, cache, events, excuse>>

Ensured == gatewayWork.step = "ensure" /\ gatewayWork.at > Len(ensureContour(gatewayWork.spec))

\* The Gateway keeps the condition it has, or the whole reconcile is tried again.
EnsureDone ==
    /\ Ensured
    /\ \/ gatewayWork.failed /\ Requeue
       \/ ~gatewayWork.failed /\ gatewayWork.accepted /\ gatewayWork' = NoWork /\ UNCHANGED queue
    /\ UNCHANGED <<apiVars, cache, events, excuse, budget>>

SetAccepted ==
    /\ Ensured /\ ~gatewayWork.failed /\ ~gatewayWork.accepted /\ ~gatewayWork.outdated
    /\ gateway' = [gateway EXCEPT !.accepted = TRUE]
    /\ events' = Notified("gateway", gateway')
    /\ gatewayWork' = NoWork
    /\ UNCHANGED <<class, params, objects, cache, queue, excuse, budget>>

SetAcceptedFails ==
    /\ Ensured /\ ~gatewayWork.failed /\ ~gatewayWork.accepted
    /\ \/ gatewayWork.outdated /\ UNCHANGED budget
       \/ ~gatewayWork.outdated /\ Fails
    /\ Requeue
    /\ UNCHANGED <<apiVars, cache, events, excuse>>

\* A broken form: the second data plane is not tried.
NextDeletion_OneDataPlane(at) == IF ensureContourDeleted[at] = "DaemonSet" THEN at + 2 ELSE at + 1

NextDeletion(at) == at + 1

Deleted(at) ==
    gatewayWork' = IF at > Len(ensureContourDeleted) THEN NoWork ELSE [gatewayWork EXCEPT !.at = at]

\* An object is deleted when the cache has it.
EnsureObjectDeleted ==
    /\ gatewayWork.step = "delete"
    /\ Cardinality(Lagging) < MaxLag
    /\ LET o == ensureContourDeleted[gatewayWork.at]
           found == o \in cache.objects \/ Unconditional(o)
       IN  /\ objects' = IF found THEN objects \ {o} ELSE objects
           /\ excuse' = IF ~found /\ o \in objects THEN excuse \union {"lag"} ELSE excuse
    /\ Deleted(NextDeletion(gatewayWork.at))
    /\ UNCHANGED <<class, params, gateway, cache, events, queue, budget>>

\* After a DaemonSet that is not deleted the Deployment is not tried.
AfterFailedDeletion(at) == IF ensureContourDeleted[at] = "DaemonSet" THEN at + 2 ELSE at + 1

\* The error is logged.
EnsureObjectDeletedFails ==
    /\ gatewayWork.step = "delete"
    /\ Fails
    /\ excuse' = excuse \union {"failed"}
    /\ Deleted(AfterFailedDeletion(gatewayWork.at))
    /\ UNCHANGED <<apiVars, cache, events, queue>>

-----------------------------------------------------------------------------
\* The first events of an informer: one for the object, when there is one.
Existing(value, exists) == IF exists THEN <<value>> ELSE <<>>

SyncedCache == [class |-> class, params |-> params, gateway |-> gateway, objects |-> objects]

FirstEvents == [class |-> Existing(class, class.exists),
                params |-> Existing(params, params # NoParams),
                gateway |-> Existing(gateway, gateway.exists)]

\* Nothing tells the new process of a Gateway that was deleted before it started.
Restart ==
    /\ budget.faults < MaxFaults
    /\ budget' = [budget EXCEPT !.faults = @ + 1]
    /\ excuse' = IF gateway.exists \/ objects = {} THEN excuse ELSE excuse \union {"down"}
    /\ cache' = SyncedCache /\ events' = FirstEvents
    /\ queue' = {} /\ gatewayWork' = NoWork
    /\ UNCHANGED apiVars

ProvisionerInit ==
    /\ class = [exists |-> TRUE, ref |-> "params", accepted |-> "Unknown", observed |-> FALSE]
    /\ params = InitialParams
    /\ gateway \in [exists : BOOLEAN, class : {"ours"}, accepted : {FALSE}]
    /\ objects = {}
    /\ excuse = {}
    /\ budget = [changes |-> 0, faults |-> 0]
    /\ cache = SyncedCache /\ events = FirstEvents
    /\ queue = {} /\ gatewayWork = NoWork

Deliver == DeliverGateway \/ DeliverClass \/ DeliverParams \/ DeliverObject

GatewayStep ==
    \/ Reconcile \/ EnsureObject \/ EnsureObjectFails \/ EnsureDone
    \/ SetAccepted \/ SetAcceptedFails
    \/ EnsureObjectDeleted \/ EnsureObjectDeletedFails

ProvisionerNext ==
    \/ WriteClass \/ WriteParams \/ WriteGateway
    \/ Deliver \/ ReconcileClass \/ GatewayStep
    \/ Restart

\* The informers deliver what they have, and each controller has a worker.
ProvisionerFairness ==
    /\ WF_provisionerVars(DeliverGateway) /\ WF_provisionerVars(DeliverClass) /\ WF_provisionerVars(DeliverParams)
    /\ WF_provisionerVars(DeliverObject)
    /\ WF_provisionerVars(ReconcileClass) /\ WF_provisionerVars(GatewayStep)

ProvisionerSpec == ProvisionerInit /\ [][ProvisionerNext]_provisionerVars /\ ProvisionerFairness

-----------------------------------------------------------------------------
(* Properties. *)

Quiet ==
    /\ \A kind \in DOMAIN events : events[kind] = <<>>
    /\ queue = {} /\ gatewayWork = NoWork

\* Once the provisioner is quiet nothing is left of a deleted Gateway, whatever it was doing
\* for that Gateway when the deletion arrived, but for the namespaced roles that
\* EnsureRBACDeleted does not know of.  The excuses are what the code does not handle: a refused
\* deletion, a GatewayClass that was not accepted when the delete event came, a restart, and a
\* cache that had not seen the object.
NothingLeaks ==
    Quiet /\ ~gateway.exists /\ excuse \subseteq {"missed"} => objects \subseteq {"namespaceRoles"}

\* The condition Accepted is only written when every object of the Gateway exists, unless the
\* cache still had an object that was deleted for the Gateway's predecessor.
AcceptedMeansProvisioned ==
    [][~gateway.accepted /\ gateway'.accepted /\ "missed" \notin excuse =>
        Required \subseteq objects /\ objects \intersect DataPlanes # {}]_provisionerVars

Wanted ==
    /\ gateway.exists /\ gateway.class = "ours"
    /\ class.exists
    /\ class.ref = "none" \/ (class.ref = "params" /\ ParamsValid(params))

\* A Gateway that stays, of a GatewayClass that stays valid, is provisioned and Accepted, in
\* whatever order the Gateway, the GatewayClass and its parameters came about; and then the two
\* reconcilers, which trigger each other, come to rest.
EventuallyProvisioned ==
    <>[]Wanted /\ []("missed" \notin excuse) =>
        <>[](/\ gateway.accepted
             /\ Required \subseteq objects /\ objects \intersect DataPlanes # {}
             /\ Quiet)

\* Changes to a GatewayClass and its parameters are not propagated down to existing Gateways
\* (site/content/docs/main/config/gateway-api.md): an accepted Gateway keeps its data plane.
ParametersPinned ==
    [][gateway.exists /\ gateway.accepted /\ objects \intersect DataPlanes # {} =>
        objects' \intersect DataPlanes \subseteq objects]_provisionerVars
=============================================================================
