--------------------------- MODULE EnvoyFleetProofs ---------------------------
(***************************************************************************)
(* Proofs about the fleet of Envoys: the provisioner that deploys them,    *)
(* for every set of parameters and every number of changes, failures,      *)
(* restarts and lagging caches, and the xDS streams that configure them,   *)
(* for any number of streams, updating goroutines and resources.           *)
(***************************************************************************)
EXTENDS Provisioner, XdsStream, SequenceTheorems, TLAPS

-----------------------------------------------------------------------------
(* Provisioner.  The invariant says how far a running reconcile has come:  *)
(* while no object failed and no object was missed, every object before    *)
(* the current one exists.  It needs the shape of the running reconcile    *)
(* (WorkOK), and it is inductive because objects are only deleted by the   *)
(* same reconciler, which does one thing at a time.                        *)

EnsureWork(work) ==
    /\ DOMAIN work = {"step", "at", "spec", "accepted", "failed", "outdated"}
    /\ work.step = "ensure"
    /\ work.at \in Nat \ {0}
    /\ work.failed \in BOOLEAN

DeleteWork(work) == DOMAIN work = {"step", "at", "outdated"} /\ work.step = "delete"

WorkOK == gatewayWork = NoWork \/ DeleteWork(gatewayWork) \/ EnsureWork(gatewayWork)

GatewayOK == gateway \in [exists : BOOLEAN, class : {"ours", "other"}, accepted : BOOLEAN]

SoFar ==
    gatewayWork.step = "ensure" /\ gatewayWork.failed = FALSE /\ "missed" \notin excuse =>
        \A i \in DOMAIN ensureContour(gatewayWork.spec) :
            i < gatewayWork.at => ensureContour(gatewayWork.spec)[i] \in objects

ProgressInv == WorkOK /\ GatewayOK /\ SoFar

\* The two lists of ensureContour, with and without the roles in the watched namespaces.
LEMMA EnsuredObjects ==
    ASSUME NEW spec
    PROVE  /\ Len(ensureContour(spec)) \in Nat
           /\ DOMAIN ensureContour(spec) = 1..Len(ensureContour(spec))
           /\ \A o \in Required \union {DataPlane(spec)} :
                \E i \in DOMAIN ensureContour(spec) : ensureContour(spec)[i] = o
           /\ DataPlane(spec) \in DataPlanes
<1>. DEFINE order == ensureContour(spec)
<1>1. DataPlane(spec) \in DataPlanes
  BY Zenon DEF DataPlane, DataPlanes
<1>2. CASE spec.watch
  <2>1. ensureContour(spec) = <<"rbac", "namespaceRoles", "secrets", "contour", DataPlane(spec)>>
    BY Zenon, <1>2 DEF ensureContour
  <2>2. Len(order) = 5 /\ DOMAIN order = 1..5
    BY <2>1
  <2>3. order[1] = "rbac" /\ order[3] = "secrets" /\ order[4] = "contour"
        /\ order[5] = DataPlane(spec)
    BY <2>1
  <2>4. \A o \in Required \union {DataPlane(spec)} : \E i \in 1..5 : order[i] = o
    BY <2>3 DEF Required
  <2>. QED  BY <1>1, <2>2, <2>4 DEF order
<1>3. CASE ~spec.watch
  <2>1. ensureContour(spec) = <<"rbac", "secrets", "contour", DataPlane(spec)>>
    BY Zenon, <1>3 DEF ensureContour
  <2>2. Len(order) = 4 /\ DOMAIN order = 1..4
    BY <2>1
  <2>3. order[1] = "rbac" /\ order[2] = "secrets" /\ order[3] = "contour"
        /\ order[4] = DataPlane(spec)
    BY <2>1
  <2>4. \A o \in Required \union {DataPlane(spec)} : \E i \in 1..4 : order[i] = o
    BY <2>3 DEF Required
  <2>. QED  BY <1>1, <2>2, <2>4 DEF order
<1>. QED  BY Zenon, <1>2, <1>3

\* What a reconcile has ensured stays, whatever happens around it: no step but its own changes the
\* objects, and a failure or a missed object is remembered.
LEMMA ProgressStep == ProgressInv /\ [ProvisionerNext]_provisionerVars => ProgressInv'
<1>. SUFFICES ASSUME ProgressInv, [ProvisionerNext]_provisionerVars PROVE ProgressInv'
  BY Zenon
<1>. USE DEF ProgressInv
<1>1. CASE UNCHANGED provisionerVars
  BY Zenon, <1>1 DEF provisionerVars, apiVars, workVars, WorkOK, GatewayOK, SoFar, EnsureWork, DeleteWork
<1>2. CASE WriteClass
  BY Zenon, <1>2 DEF WriteClass, Change, WorkOK, GatewayOK, SoFar, EnsureWork, DeleteWork
<1>3. CASE WriteParams
  BY Zenon, <1>3 DEF WriteParams, Change, WorkOK, GatewayOK, SoFar, EnsureWork, DeleteWork
<1>4. CASE WriteGateway
  <2>1. GatewayOK'
    <3>1. CASE gateway' = [gateway EXCEPT !.exists = FALSE]
      BY Zenon, <3>1 DEF GatewayOK
    <3>2. ASSUME NEW c \in {"ours", "other"}, gateway' = [gateway EXCEPT !.class = c]
          PROVE  GatewayOK'
      BY Zenon, <3>2 DEF GatewayOK
    <3>3. ASSUME NEW c \in {"ours", "other"},
                 gateway' = [exists |-> TRUE, class |-> c, accepted |-> FALSE]
          PROVE  GatewayOK'
      BY Zenon, <3>3 DEF GatewayOK
    <3>. QED  BY Zenon, <1>4, <3>1, <3>2, <3>3 DEF WriteGateway
  <2>2. gatewayWork' = Outdated(gatewayWork) /\ UNCHANGED <<objects, excuse>>
    BY Zenon, <1>4 DEF WriteGateway, Change
  <2>3. WorkOK'
    BY Zenon, <2>2 DEF Outdated, WorkOK, EnsureWork, DeleteWork, NoWork
  <2>4. SoFar'
    BY Zenon, <2>2 DEF Outdated, WorkOK, EnsureWork, DeleteWork, NoWork, SoFar
  <2>. QED  BY Zenon, <2>1, <2>3, <2>4
<1>5. CASE Deliver
  BY Zenon, <1>5 DEF Deliver, DeliverGateway, DeliverClass, DeliverParams, DeliverObject, apiVars, workVars,
              WorkOK, GatewayOK, SoFar, EnsureWork, DeleteWork
<1>6. CASE ReconcileClass
  BY Zenon, <1>6 DEF ReconcileClass, WorkOK, GatewayOK, SoFar, EnsureWork, DeleteWork
<1>7. CASE Restart
  BY Zenon, <1>7 DEF Restart, apiVars, WorkOK, GatewayOK, SoFar, NoWork
<1>8. CASE GatewayStep
  <2>1. CASE Reconcile
    <3>1. GatewayOK' /\ UNCHANGED <<objects, excuse>>
      BY Zenon, <2>1 DEF Reconcile, apiVars, GatewayOK
    <3>2. WorkOK'
      <4>1. CASE gatewayWork' = [step |-> "delete", at |-> 1, outdated |-> FALSE]
        BY Zenon, <4>1 DEF WorkOK, DeleteWork
      <4>2. CASE gatewayWork' = NoWork
        BY Zenon, <4>2 DEF WorkOK, NoWork
      <4>3. ASSUME NEW spec, NEW accepted, NEW outdated,
                   gatewayWork' = [step |-> "ensure", at |-> 1, spec |-> spec,
                                   accepted |-> accepted, failed |-> FALSE, outdated |-> outdated]
            PROVE  WorkOK'
        BY <4>3 DEF WorkOK, EnsureWork
      <4>. QED  BY Zenon, <2>1, <4>1, <4>2, <4>3 DEF Reconcile
    <3>3. gatewayWork'.step = "ensure" => gatewayWork'.at = 1
      BY <2>1 DEF Reconcile, NoWork
    <3>4. SoFar'
      BY <3>3, EnsuredObjects DEF SoFar
    <3>. QED  BY Zenon, <3>1, <3>2, <3>4
  <2>2. CASE EnsureObject
    <3>1. GatewayOK'
      BY Zenon, <2>2 DEF EnsureObject, GatewayOK
    <3>2. EnsureWork(gatewayWork) /\ gatewayWork' = [gatewayWork EXCEPT !.at = @ + 1]
      BY <2>2 DEF EnsureObject, Ensuring, WorkOK, DeleteWork, NoWork
    <3>3. EnsureWork(gatewayWork')
      BY <3>2 DEF EnsureWork
    <3>4. SoFar'
      <4>. DEFINE o == ensureContour(gatewayWork.spec)[gatewayWork.at]
      <4>1. /\ objects' = IF o \in cache.objects THEN objects ELSE objects \union {o}
            /\ excuse' = IF o \in cache.objects \ objects THEN excuse \union {"missed"} ELSE excuse
        BY Zenon, <2>2 DEF EnsureObject
      <4>2. "missed" \notin excuse' => o \in objects' /\ "missed" \notin excuse
        BY Zenon, <4>1
      <4>3. objects \subseteq objects'
        BY Zenon, <4>1
      <4>4. /\ gatewayWork'.spec = gatewayWork.spec /\ gatewayWork'.failed = gatewayWork.failed
            /\ gatewayWork'.at = gatewayWork.at + 1 /\ gatewayWork.at \in Nat
            /\ gatewayWork.step = "ensure"
        BY Zenon, <3>2 DEF EnsureWork
      <4>. HIDE DEF o
      <4>5. ASSUME gatewayWork'.failed = FALSE, "missed" \notin excuse',
                   NEW i \in DOMAIN ensureContour(gatewayWork.spec), i < gatewayWork.at + 1
            PROVE  ensureContour(gatewayWork.spec)[i] \in objects'
        <5>1. i \in Nat
          BY EnsuredObjects
        <5>2. CASE i = gatewayWork.at
          BY Zenon, <5>2, <4>2, <4>5 DEF o
        <5>3. CASE i < gatewayWork.at
          BY Zenon, <5>3, <4>2, <4>3, <4>4, <4>5 DEF SoFar
        <5>. QED  BY <5>1, <5>2, <5>3, <4>4, <4>5
      <4>. QED  BY Zenon, <4>4, <4>5 DEF SoFar
    <3>. QED  BY Zenon, <3>1, <3>3, <3>4 DEF WorkOK
  <2>3. CASE EnsureObjectFails
    <3>1. GatewayOK' /\ UNCHANGED <<objects, excuse>>
      BY Zenon, <2>3 DEF EnsureObjectFails, apiVars, GatewayOK
    <3>2. EnsureWork(gatewayWork) /\ gatewayWork' = EnsureFailed(gatewayWork)
      BY <2>3 DEF EnsureObjectFails, Ensuring, WorkOK, DeleteWork, NoWork
    <3>3. CASE gatewayWork' = NoWork
      BY Zenon, <3>1, <3>3 DEF WorkOK, SoFar, NoWork
    <3>4. CASE gatewayWork' = [gatewayWork EXCEPT !.at = @ + 1, !.failed = TRUE]
      <4>1. EnsureWork(gatewayWork') /\ gatewayWork'.failed = TRUE
        BY <3>2, <3>4 DEF EnsureWork
      <4>. QED  BY Zenon, <3>1, <4>1 DEF WorkOK, SoFar
    <3>. QED  BY Zenon, <3>2, <3>3, <3>4 DEF EnsureFailed
  <2>4. CASE EnsureDone \/ SetAcceptedFails
    BY <2>4 DEF EnsureDone, SetAcceptedFails, Requeue, apiVars, WorkOK, GatewayOK, SoFar, NoWork
  <2>5. CASE SetAccepted
    BY Zenon, <2>5 DEF SetAccepted, WorkOK, GatewayOK, SoFar, NoWork
  <2>6. CASE EnsureObjectDeleted \/ EnsureObjectDeletedFails
    <3>1. GatewayOK'
      BY Zenon, <2>6 DEF EnsureObjectDeleted, EnsureObjectDeletedFails, apiVars, GatewayOK
    <3>2. DeleteWork(gatewayWork) /\ \E at : Deleted(at)
      BY <2>6 DEF EnsureObjectDeleted, EnsureObjectDeletedFails, WorkOK, EnsureWork, NoWork
    <3>3. gatewayWork' = NoWork \/ DeleteWork(gatewayWork')
      BY Zenon, <3>2 DEF Deleted, DeleteWork
    <3>. QED  BY <3>1, <3>3 DEF WorkOK, SoFar, NoWork, DeleteWork
  <2>. QED  BY Zenon, <1>8, <2>1, <2>2, <2>3, <2>4, <2>5, <2>6 DEF GatewayStep
<1>. QED  BY Zenon, <1>1, <1>2, <1>3, <1>4, <1>5, <1>6, <1>7, <1>8 DEF ProvisionerNext

LEMMA ProgressAlways == ProvisionerSpec => []ProgressInv
<1>1. ProvisionerInit => ProgressInv
  <2>1. ProvisionerInit => GatewayOK
    BY Zenon DEF ProvisionerInit, GatewayOK
  <2>2. ProvisionerInit => WorkOK /\ SoFar
    BY DEF ProvisionerInit, WorkOK, SoFar, NoWork
  <2>. QED  BY Zenon, <2>1, <2>2 DEF ProgressInv
<1>. QED  BY <1>1, ProgressStep, PTL DEF ProvisionerSpec

\* Only Reconcile's last step makes a Gateway Accepted, and then ensureContour has gone through all
\* of its objects without an error: each of them exists.
THEOREM AcceptedAfterAllObjects == ProvisionerSpec => AcceptedMeansProvisioned
<1>2. ProgressInv /\ [ProvisionerNext]_provisionerVars =>
        [~gateway.accepted /\ gateway'.accepted /\ "missed" \notin excuse =>
            Required \subseteq objects /\ objects \intersect DataPlanes # {}]_provisionerVars
  <2>. SUFFICES ASSUME ProgressInv, ProvisionerNext, ~gateway.accepted, gateway'.accepted,
                       "missed" \notin excuse
                PROVE  Required \subseteq objects /\ objects \intersect DataPlanes # {}
    BY Zenon
  <2>1. gateway' # gateway
    BY Zenon
  <2>2. ~WriteGateway
    BY DEF WriteGateway, ProgressInv, GatewayOK
  <2>3. SetAccepted
    BY Zenon, <2>1, <2>2 DEF ProvisionerNext, WriteClass, WriteParams, Deliver, DeliverGateway, DeliverClass,
        DeliverParams, DeliverObject, ReconcileClass, Restart, GatewayStep, Reconcile, EnsureObject,
        EnsureObjectFails, EnsureDone, SetAcceptedFails, EnsureObjectDeleted,
        EnsureObjectDeletedFails, apiVars
  <2>. DEFINE order == ensureContour(gatewayWork.spec)
  <2>4. gatewayWork.step = "ensure" /\ gatewayWork.at > Len(order) /\ EnsureWork(gatewayWork)
        /\ ~gatewayWork.failed
    BY <2>3 DEF SetAccepted, Ensured, ProgressInv, WorkOK, DeleteWork, NoWork
  <2>5. \A i \in DOMAIN order : order[i] \in objects
    BY <2>4, EnsuredObjects DEF ProgressInv, SoFar, EnsureWork
  <2>. HIDE DEF order
  <2>6. \A o \in Required \union {DataPlane(gatewayWork.spec)} : o \in objects
    BY <2>5, EnsuredObjects DEF order
  <2>. QED  BY Zenon, <2>6, EnsuredObjects
<1>. QED  BY <1>2, ProgressAlways, PTL DEF ProvisionerSpec, AcceptedMeansProvisioned

-----------------------------------------------------------------------------
(* Deleted Gateways *)

Gateways == [exists : BOOLEAN, class : {"ours", "other"}, accepted : BOOLEAN]
AllObjects == Required \union DataPlanes \union {"namespaceRoles"}

\* The Gateway is in the cache, or the last event that is to come has it.
GatewayTold ==
    /\ DOMAIN events = {"class", "params", "gateway"}
    /\ events.gateway \in Seq(Gateways)
    /\ events.gateway = <<>> => cache.gateway = gateway
    /\ events.gateway # <<>> => events.gateway[Len(events.gateway)] = gateway

\* What the deletion that has come to its step number at has yet to look at.
Left(at) == {ensureContourDeleted[i] : i \in at..Len(ensureContourDeleted)} \union {"namespaceRoles"}

\* Of a Gateway that the provisioner knows to be gone the objects are gone, being deleted, or
\* about to be: a reconcile that creates some at that moment has a request behind it.
Followed ==
    excuse \subseteq {"missed"} /\ ~cache.gateway.exists =>
        \/ "gateway" \in queue
        \/ /\ gatewayWork.step = "delete" /\ gatewayWork.at \in 1..Len(ensureContourDeleted)
           /\ objects \subseteq Left(gatewayWork.at)
        \/ gatewayWork = NoWork /\ objects \subseteq {"namespaceRoles"}

LeakInv ==
    /\ DOMAIN cache = {"class", "params", "gateway", "objects"}
    /\ objects \subseteq AllObjects
    /\ GatewayTold
    /\ Followed

\* ensureContourDeleted looks at everything but the namespaced roles, one object at a time.
LEMMA DeletedObjects ==
    /\ Len(ensureContourDeleted) = 5
    /\ Left(1) = AllObjects
    /\ Left(6) = {"namespaceRoles"}
    /\ \A at \in 1..5 : Left(at) = Left(at + 1) \union {ensureContourDeleted[at]}
<1>1. /\ Len(ensureContourDeleted) = 5
      /\ ensureContourDeleted[1] = "DaemonSet" /\ ensureContourDeleted[2] = "Deployment"
      /\ ensureContourDeleted[3] = "contour" /\ ensureContourDeleted[4] = "secrets"
      /\ ensureContourDeleted[5] = "rbac"
  BY Zenon DEF ensureContourDeleted
<1>. HIDE DEF ensureContourDeleted
<1>2. \A at \in 1..5 : Left(at) = Left(at + 1) \union {ensureContourDeleted[at]}
  <2>. SUFFICES ASSUME NEW at \in 1..5
                PROVE  Left(at) = Left(at + 1) \union {ensureContourDeleted[at]}
    BY Zenon
  <2>1. at..5 = ((at + 1)..5) \union {at}
    OBVIOUS
  <2>. QED  BY Zenon, <1>1, <2>1 DEF Left
<1>3. Left(6) = {"namespaceRoles"}
  <2>1. 6..5 = {}
    OBVIOUS
  <2>. QED  BY Zenon, <1>1, <2>1 DEF Left
<1>4. Left(1) = AllObjects
  <2>1. 1..5 = {1, 2, 3, 4, 5}
    OBVIOUS
  <2>. QED  BY <1>1, <2>1 DEF Left, AllObjects, Required, DataPlanes
<1>. QED  BY Zenon, <1>1, <1>2, <1>3, <1>4

LEMMA EnsuredAreObjects ==
    ASSUME NEW spec, NEW i \in 1..Len(ensureContour(spec))
    PROVE  ensureContour(spec)[i] \in AllObjects
<1>1. DataPlane(spec) \in DataPlanes
  BY Zenon DEF DataPlane, DataPlanes
<1>2. CASE spec.watch
  <2>1. ensureContour(spec) = <<"rbac", "namespaceRoles", "secrets", "contour", DataPlane(spec)>>
    BY Zenon, <1>2 DEF ensureContour
  <2>. QED  BY <1>1, <2>1 DEF AllObjects, Required
<1>3. CASE ~spec.watch
  <2>1. ensureContour(spec) = <<"rbac", "secrets", "contour", DataPlane(spec)>>
    BY Zenon, <1>3 DEF ensureContour
  <2>. QED  BY <1>1, <2>1 DEF AllObjects, Required
<1>. QED  BY Zenon, <1>2, <1>3

LEMMA LastOfTail ==
    ASSUME NEW S, NEW q \in Seq(S), q # <<>>
    PROVE  /\ Tail(q) \in Seq(S)
           /\ Tail(q) = <<>> => Head(q) = q[Len(q)]
           /\ Tail(q) # <<>> => Tail(q)[Len(Tail(q))] = q[Len(q)]
<1>1. PICK n \in Nat : Len(q) = n /\ n # 0
  BY Zenon, EmptySeq
<1>2. Tail(q) \in Seq(S) /\ Len(Tail(q)) = n - 1 /\ Head(q) = q[1]
      /\ \A i \in 1..(n - 1) : Tail(q)[i] = q[i + 1]
  BY <1>1, HeadTailProperties
<1>3. CASE n = 1
  <2>1. Len(Tail(q)) = 0
    BY <1>2, <1>3
  <2>2. Tail(q) = <<>>
    BY Zenon, <1>2, <2>1, EmptySeq
  <2>. QED  BY Zenon, <1>1, <1>2, <1>3, <2>2
<1>4. CASE n # 1
  <2>1. n - 1 \in 1..(n - 1) /\ (n - 1) + 1 = n
    BY <1>1, <1>4
  <2>2. Tail(q)[n - 1] = q[n]
    BY Zenon, <1>2, <2>1
  <2>3. Len(Tail(q)) # 0
    BY <1>1, <1>2, <1>4
  <2>4. Tail(q) # <<>>
    BY Zenon, <1>2, <2>3, EmptySeq
  <2>. QED  BY Zenon, <1>1, <1>2, <2>2, <2>4
<1>. QED  BY Zenon, <1>3, <1>4

\* The informer's queue takes the new value of the Gateway.
LEMMA ToldAfterWrite ==
    ASSUME GatewayTold, gateway' \in Gateways, events' = Notified("gateway", gateway')
    PROVE  GatewayTold'
<1>. DEFINE q == events.gateway
<1>1. q \in Seq(Gateways) /\ events'.gateway = Append(q, gateway')
      /\ DOMAIN events' = {"class", "params", "gateway"}
  BY Zenon DEF GatewayTold, Notified
<1>2. /\ Append(q, gateway') \in Seq(Gateways) /\ Append(q, gateway') # <<>>
      /\ Append(q, gateway')[Len(Append(q, gateway'))] = gateway'
  BY <1>1
<1>. QED  BY Zenon, <1>1, <1>2 DEF GatewayTold

LEMMA LeakStep == ProgressInv /\ ProgressInv' /\ LeakInv /\ [ProvisionerNext]_provisionerVars => LeakInv'
<1>. SUFFICES ASSUME ProgressInv, ProgressInv', LeakInv, [ProvisionerNext]_provisionerVars PROVE LeakInv'
  BY Zenon
<1>a. gateway' \in Gateways
  BY Zenon DEF ProgressInv, GatewayOK, Gateways
<1>b. ASSUME events'.gateway = events.gateway, DOMAIN events' = DOMAIN events, UNCHANGED gateway,
             cache'.gateway = cache.gateway
      PROVE  GatewayTold'
  BY Zenon, <1>b DEF LeakInv, GatewayTold
<1>c. ASSUME NEW kind \in {"class", "params"}, NEW value,
             events' \in {events, Notified(kind, value), [events EXCEPT ![kind] = Tail(@)]}
      PROVE  events'.gateway = events.gateway /\ DOMAIN events' = DOMAIN events
  BY Zenon, <1>c DEF Notified, LeakInv, GatewayTold
<1>d. ASSUME UNCHANGED <<objects, gatewayWork, excuse>>, cache'.gateway = cache.gateway,
             "gateway" \in queue => "gateway" \in queue'
      PROVE  Followed'
  BY Zenon, <1>d DEF LeakInv, Followed
<1>1. CASE UNCHANGED provisionerVars
  BY Zenon, <1>1, <1>b, <1>d DEF provisionerVars, apiVars, workVars, LeakInv
<1>2. CASE WriteClass \/ WriteParams
  <2>1. UNCHANGED <<objects, gatewayWork, excuse, cache, queue, gateway>>
    BY ZenonT(60), <1>2 DEF WriteClass, WriteParams, Change
  <2>2. events' = Notified("class", class') \/ events' = Notified("params", params')
    BY Zenon, <1>2 DEF WriteClass, WriteParams
  <2>. QED  BY SMTT(30), <1>b, <1>c, <1>d, <2>1, <2>2 DEF LeakInv
<1>3. CASE WriteGateway
  <2>1. UNCHANGED <<objects, cache, queue, excuse>> /\ gatewayWork' = Outdated(gatewayWork)
        /\ events' = Notified("gateway", gateway')
    BY Zenon, <1>3 DEF WriteGateway, Change
  <2>2. GatewayTold'
    BY Zenon, <1>a, <2>1, ToldAfterWrite DEF LeakInv
  <2>3. gatewayWork = NoWork => gatewayWork' = NoWork
    BY Zenon, <2>1 DEF Outdated
  <2>4. gatewayWork.step = "delete" => gatewayWork'.step = "delete" /\ gatewayWork'.at = gatewayWork.at
    BY Zenon, <2>1 DEF Outdated, ProgressInv, WorkOK, DeleteWork, EnsureWork, NoWork
  <2>5. Followed'
    BY Zenon, <2>1, <2>3, <2>4 DEF LeakInv, Followed
  <2>. QED  BY Zenon, <2>1, <2>2, <2>5 DEF LeakInv
<1>4. CASE DeliverGateway
  <2>. DEFINE g == Head(events.gateway)
  <2>1. /\ events.gateway # <<>> /\ cache' = [cache EXCEPT !.gateway = g]
        /\ events' = [events EXCEPT !.gateway = Tail(@)] /\ UNCHANGED <<gateway, objects, gatewayWork>>
    BY Zenon, <1>4 DEF DeliverGateway, apiVars
  <2>2. cache'.gateway = g /\ DOMAIN cache' = DOMAIN cache
        /\ events'.gateway = Tail(events.gateway) /\ DOMAIN events' = DOMAIN events
    BY Zenon, <2>1 DEF LeakInv, GatewayTold
  <2>3. GatewayTold'
    <3>. DEFINE q == events.gateway
    <3>1. q \in Seq(Gateways) /\ q # <<>> /\ q[Len(q)] = gateway
      BY Zenon, <2>1 DEF LeakInv, GatewayTold
    <3>. HIDE DEF q
    <3>2. /\ Tail(q) \in Seq(Gateways)
          /\ Tail(q) = <<>> => Head(q) = gateway
          /\ Tail(q) # <<>> => Tail(q)[Len(Tail(q))] = gateway
      BY Zenon, <3>1, LastOfTail
    <3>. QED  BY Zenon, <2>1, <2>2, <3>2 DEF GatewayTold, LeakInv, q
  <2>4. Followed'
    <3>1. ~cache'.gateway.exists /\ excuse' \subseteq {"missed"} => "gateway" \in queue'
      BY Zenon, <1>4, <2>2 DEF DeliverGateway
    <3>. QED  BY Zenon, <3>1 DEF Followed
  <2>. QED  BY Zenon, <2>1, <2>2, <2>3, <2>4 DEF LeakInv
<1>5. CASE DeliverClass \/ DeliverParams
  <2>1. UNCHANGED <<objects, gatewayWork, excuse, gateway>> /\ queue \subseteq queue'
        /\ cache'.gateway = cache.gateway /\ DOMAIN cache' = DOMAIN cache
    BY Zenon, <1>5 DEF DeliverClass, DeliverParams, apiVars, LeakInv
  <2>2. events' = [events EXCEPT !.class = Tail(@)] \/ events' = [events EXCEPT !.params = Tail(@)]
    BY Zenon, <1>5 DEF DeliverClass, DeliverParams
  <2>. QED  BY Zenon, <1>b, <1>c, <1>d, <2>1, <2>2 DEF LeakInv
<1>6. CASE DeliverObject
  <2>1. UNCHANGED <<objects, gatewayWork, excuse, gateway, events, queue>>
        /\ cache'.gateway = cache.gateway /\ DOMAIN cache' = DOMAIN cache
    BY Zenon, <1>6 DEF DeliverObject, apiVars, workVars, LeakInv
  <2>. QED  BY Zenon, <1>b, <1>d, <2>1 DEF LeakInv
<1>7. CASE ReconcileClass
  <2>1. UNCHANGED <<objects, gatewayWork, excuse, gateway, cache>> /\ queue' = queue \ {"class"}
    BY Zenon, <1>7 DEF ReconcileClass
  <2>2. events' = events \/ events' = Notified("class", class')
    BY Zenon, <1>7 DEF ReconcileClass, setConditions
  <2>. QED  BY <1>b, <1>c, <1>d, <2>1, <2>2 DEF LeakInv
<1>8. CASE Restart
  <2>1. cache' = SyncedCache /\ events' = FirstEvents /\ gatewayWork' = NoWork
        /\ UNCHANGED <<gateway, objects>>
    BY Zenon, <1>8 DEF Restart, apiVars
  <2>2. cache'.gateway = gateway /\ DOMAIN cache' = {"class", "params", "gateway", "objects"}
    BY Zenon, <2>1 DEF SyncedCache
  <2>3. events'.gateway = Existing(gateway, gateway.exists) /\ DOMAIN events' = {"class", "params", "gateway"}
    BY Zenon, <2>1 DEF FirstEvents
  <2>4. GatewayTold'
    <3>1. CASE gateway.exists
      <4>1. events'.gateway = <<gateway>> /\ gateway \in Gateways
        BY Zenon, <1>a, <2>1, <2>3, <3>1 DEF Existing
      <4>. QED  BY <2>1, <2>3, <4>1 DEF GatewayTold
    <3>2. CASE ~gateway.exists
      <4>1. events'.gateway = <<>>
        BY Zenon, <2>3, <3>2 DEF Existing
      <4>. QED  BY <2>1, <2>2, <2>3, <4>1 DEF GatewayTold
    <3>. QED  BY Zenon, <3>1, <3>2
  <2>5. Followed'
    <3>1. ~gateway.exists /\ excuse' \subseteq {"missed"} => objects = {}
      BY Zenon, <1>8 DEF Restart
    <3>. QED  BY Zenon, <2>1, <2>2, <3>1 DEF Followed
  <2>. QED  BY Zenon, <2>1, <2>2, <2>4, <2>5 DEF LeakInv
<1>9. CASE GatewayStep
  <2>1. CASE Reconcile
    <3>1. UNCHANGED <<objects, excuse, gateway, cache, events>> /\ gatewayWork = NoWork
      BY Zenon, <2>1 DEF Reconcile, apiVars
    <3>2. ~cache.gateway.exists => gatewayWork' = [step |-> "delete", at |-> 1, outdated |-> FALSE]
      BY Zenon, <2>1 DEF Reconcile
    <3>3. Followed'
      <4>1. ~cache.gateway.exists => /\ gatewayWork'.step = "delete" /\ gatewayWork'.at = 1
                                     /\ objects \subseteq Left(1)
        BY <3>2, DeletedObjects DEF LeakInv
      <4>2. 1 \in 1..Len(ensureContourDeleted)
        BY DeletedObjects
      <4>. QED  BY Zenon, <3>1, <4>1, <4>2 DEF Followed
    <3>. QED  BY Zenon, <1>b, <3>1, <3>3 DEF LeakInv
  <2>2. CASE EnsureObject
    <3>1. UNCHANGED <<gateway, cache, events, queue>> /\ EnsureWork(gatewayWork) /\ EnsureWork(gatewayWork)'
      BY Zenon, <2>2 DEF EnsureObject, Ensuring, ProgressInv, WorkOK, DeleteWork, EnsureWork, NoWork
    <3>2. ensureContour(gatewayWork.spec)[gatewayWork.at] \in AllObjects
      <4>1. gatewayWork.at \in 1..Len(ensureContour(gatewayWork.spec))
        BY <2>2, <3>1, EnsuredObjects DEF EnsureObject, Ensuring, EnsureWork
      <4>. QED  BY Zenon, <4>1, EnsuredAreObjects
    <3>3. objects' \subseteq AllObjects
      BY Zenon, <2>2, <3>2 DEF EnsureObject, LeakInv
    <3>4. excuse \subseteq excuse'
      BY Zenon, <2>2 DEF EnsureObject
    <3>5. Followed'
      BY <3>1, <3>4 DEF LeakInv, Followed, EnsureWork, NoWork
    <3>. QED  BY Zenon, <1>b, <3>1, <3>3, <3>5 DEF LeakInv
  <2>3. CASE EnsureObjectFails \/ EnsureDone \/ SetAcceptedFails
    <3>1. UNCHANGED <<objects, gateway, cache, events, excuse>> /\ queue \subseteq queue'
          /\ EnsureWork(gatewayWork)
      BY <2>3 DEF EnsureObjectFails, EnsureDone, SetAcceptedFails, Requeue, Ensuring, Ensured, apiVars,
                  ProgressInv, WorkOK, DeleteWork, NoWork
    <3>2. Followed'
      BY <3>1 DEF LeakInv, Followed, EnsureWork, NoWork
    <3>. QED  BY Zenon, <1>b, <3>1, <3>2 DEF LeakInv
  <2>4. CASE SetAccepted
    <3>1. UNCHANGED <<objects, cache, excuse, queue>> /\ EnsureWork(gatewayWork)
          /\ events' = Notified("gateway", gateway')
      BY <2>4 DEF SetAccepted, Ensured, ProgressInv, WorkOK, DeleteWork, NoWork
    <3>2. Followed'
      BY <3>1 DEF LeakInv, Followed, EnsureWork, NoWork
    <3>3. GatewayTold'
      BY Zenon, <1>a, <3>1, ToldAfterWrite DEF LeakInv
    <3>. QED  BY Zenon, <3>1, <3>2, <3>3 DEF LeakInv
  <2>5. CASE EnsureObjectDeleted
    <3>. DEFINE at == gatewayWork.at
                o == ensureContourDeleted[at]
    <3>1. UNCHANGED <<gateway, cache, events, queue>> /\ DeleteWork(gatewayWork) /\ Deleted(at + 1)
          /\ objects' \subseteq objects /\ excuse \subseteq excuse'
          /\ (excuse' \subseteq {"missed"} => o \notin objects')
      BY <2>5 DEF EnsureObjectDeleted, NextDeletion, ProgressInv, WorkOK, EnsureWork, NoWork
    <3>2. ASSUME excuse' \subseteq {"missed"}, ~cache.gateway.exists, "gateway" \notin queue
          PROVE  \/ gatewayWork'.step = "delete" /\ gatewayWork'.at \in 1..Len(ensureContourDeleted)
                    /\ objects' \subseteq Left(gatewayWork'.at)
                 \/ gatewayWork' = NoWork /\ objects' \subseteq {"namespaceRoles"}
      <4>1. at \in 1..5 /\ objects \subseteq Left(at)
        BY <3>1, <3>2, DeletedObjects DEF LeakInv, Followed, DeleteWork, NoWork
      <4>2. objects' \subseteq Left(at + 1)
        BY <3>1, <3>2, <4>1, DeletedObjects
      <4>3. CASE at = 5
        <5>1. gatewayWork' = NoWork
          BY <3>1, <4>3, DeletedObjects DEF Deleted
        <5>. QED  BY <4>2, <4>3, <5>1, DeletedObjects
      <4>4. CASE at # 5
        <5>1. gatewayWork' = [gatewayWork EXCEPT !.at = at + 1]
          BY <3>1, <4>1, <4>4, DeletedObjects DEF Deleted
        <5>2. gatewayWork'.step = "delete" /\ gatewayWork'.at = at + 1
          BY Zenon, <3>1, <5>1 DEF DeleteWork
        <5>. QED  BY <4>1, <4>2, <4>4, <5>2, DeletedObjects
      <4>. QED  BY Zenon, <4>3, <4>4
    <3>3. Followed'
      BY Zenon, <3>1, <3>2 DEF Followed
    <3>. QED  BY Zenon, <1>b, <3>1, <3>3 DEF LeakInv
  <2>6. CASE EnsureObjectDeletedFails
    <3>1. UNCHANGED <<objects, gateway, cache, events>> /\ "failed" \in excuse'
      BY Zenon, <2>6 DEF EnsureObjectDeletedFails, apiVars
    <3>2. Followed'
      BY Zenon, <3>1 DEF Followed
    <3>. QED  BY Zenon, <1>b, <3>1, <3>2 DEF LeakInv
  <2>. QED  BY Zenon, <1>9, <2>1, <2>2, <2>3, <2>4, <2>5, <2>6 DEF GatewayStep
<1>. QED  BY Zenon, <1>1, <1>2, <1>3, <1>4, <1>5, <1>6, <1>7, <1>8, <1>9 DEF ProvisionerNext, Deliver

\* A provisioner that has come to rest has left nothing of a deleted Gateway but the roles in the
\* watched namespaces, whatever it was doing when the deletion arrived, unless a deletion was
\* refused, the delete event was filtered out, the process was restarted or its cache was behind.
THEOREM DeletedGatewaysLeaveNothing == ProvisionerSpec => []NothingLeaks
<1>1. ProvisionerInit => LeakInv
  <2>. SUFFICES ASSUME ProvisionerInit PROVE LeakInv
    BY Zenon
  <2>1. gateway \in Gateways /\ objects = {} /\ gatewayWork = NoWork
    BY Zenon DEF ProvisionerInit, Gateways
  <2>2. cache.gateway = gateway /\ DOMAIN cache = {"class", "params", "gateway", "objects"}
    BY Zenon DEF ProvisionerInit, SyncedCache
  <2>3. events.gateway = Existing(gateway, gateway.exists) /\ DOMAIN events = {"class", "params", "gateway"}
    BY Zenon DEF ProvisionerInit, FirstEvents
  <2>4. GatewayTold
    <3>1. CASE gateway.exists
      <4>1. events.gateway = <<gateway>>
        BY Zenon, <2>3, <3>1 DEF Existing
      <4>. QED  BY <2>1, <2>3, <4>1 DEF GatewayTold
    <3>2. CASE ~gateway.exists
      <4>1. events.gateway = <<>>
        BY Zenon, <2>3, <3>2 DEF Existing
      <4>. QED  BY <2>2, <2>3, <4>1 DEF GatewayTold
    <3>. QED  BY Zenon, <3>1, <3>2
  <2>. QED  BY Zenon, <2>1, <2>2, <2>4 DEF LeakInv, Followed
<1>2. LeakInv => NothingLeaks
  BY DEF LeakInv, GatewayTold, Followed, NothingLeaks, Quiet, NoWork
<1>. QED  BY <1>1, <1>2, ProgressAlways, LeakStep, PTL DEF ProvisionerSpec

-----------------------------------------------------------------------------
(* XdsStream *)

USE XdsAssumption

\* A stream holds at most one notification: registered with an empty channel,
\* or with one value to receive, or neither.
Registration(s) ==
  /\ ch[s] \in Seq(Nat)
  /\ s \in waiters => ch[s] = <<>> /\ pc[s] \in {"wait", "closed"}
  /\ ch[s] # <<>> => Len(ch[s]) = 1 /\ pc[s] \in {"wait", "closed"}
  /\ pc[s] = "wait" /\ ch[s] = <<>> => s \in waiters /\ last[s] >= relevant[s]
  /\ relevant[s] \in Nat /\ relevant[s] <= condLast
  /\ last[s] \in Int

CondInv ==
  /\ condLast \in Nat
  /\ DOMAIN last = Streams /\ DOMAIN pc = Streams /\ DOMAIN ch = Streams
  /\ \A s \in Streams : Registration(s)

LEMMA EmptyOrOne ==
  ASSUME NEW q \in Seq(Nat), NEW n \in Nat
  PROVE  /\ Len(q) = 1 => q # <<>> /\ Head(q) \in Nat /\ Tail(q) = <<>>
         /\ q = <<>> => Append(q, n) # <<>> /\ Append(q, n) \in Seq(Nat) /\ Len(Append(q, n)) = 1
         /\ <<>> \in Seq(Nat) /\ Len(<<>>) = 0
<1>1. ASSUME Len(q) = 1 PROVE q # <<>> /\ Head(q) \in Nat /\ Tail(q) = <<>>
  <2>1. q # <<>> /\ Head(q) \in Nat
    BY SMTT(30), <1>1
  <2>2. Tail(q) \in Seq(Nat) /\ Len(Tail(q)) = 0
    BY <1>1, <2>1
  <2>. QED  BY Zenon, <2>1, <2>2, EmptySeq
<1>2. ASSUME q = <<>>
      PROVE  Append(q, n) # <<>> /\ Append(q, n) \in Seq(Nat) /\ Len(Append(q, n)) = 1
  BY <1>2
<1>. QED  BY <1>1, <1>2

\* CondInv is preserved by every step.
LEMMA CondInvStep == CondInv /\ [Next]_vars => CondInv'
<1>. SUFFICES ASSUME CondInv, [Next]_vars PROVE CondInv'
  BY Zenon
<1>1. ASSUME NEW w \in Writers, NotifyLater(w) PROVE CondInv'
  <2>1. condLast' = condLast + 1 /\ condLast' \in Nat /\ condLast + 1 \in Nat
    BY <1>1 DEF NotifyLater, Notify, CondInv
  <2>2. UNCHANGED <<pc, last, names>>
    BY Zenon, <1>1 DEF NotifyLater, streamVars
  <2>3. ASSUME NEW s \in Streams PROVE Registration(s)'
    <3>a. Registration(s)
      BY Zenon DEF CondInv
    <3>1. CASE concerns(notifying[w], s)
      <4>1. s \notin waiters' /\ relevant'[s] = condLast + 1
        BY Zenon, <1>1, <3>1 DEF NotifyLater, Notify, putBack
      <4>2. CASE s \in waiters
        <5>1. ch'[s] = Append(ch[s], condLast + 1) /\ ch[s] = <<>>
          BY Zenon, <1>1, <3>1, <4>2, <3>a DEF NotifyLater, Notify, Registration
        <5>2. ch'[s] # <<>> /\ ch'[s] \in Seq(Nat) /\ Len(ch'[s]) = 1
          BY <2>1, <5>1, EmptyOrOne
        <5>. QED  BY SMTT(30), <2>1, <2>2, <3>a, <4>1, <4>2, <5>2 DEF Registration
      <4>3. CASE s \notin waiters
        <5>1. ch'[s] = ch[s]
          BY Zenon, <1>1, <4>3 DEF NotifyLater, Notify
        <5>. QED  BY <2>1, <2>2, <3>a, <4>1, <4>3, <5>1 DEF Registration
      <4>. QED  BY Zenon, <4>2, <4>3
    <3>2. CASE ~concerns(notifying[w], s)
      <4>1. ch'[s] = ch[s] /\ relevant'[s] = relevant[s] /\ (s \in waiters' <=> s \in waiters)
        BY Zenon, <1>1, <3>2 DEF NotifyLater, Notify, putBack
      <4>. QED  BY SMTT(30), <2>1, <2>2, <3>a, <4>1 DEF Registration, CondInv
    <3>. QED  BY Zenon, <3>1, <3>2
  <2>4. DOMAIN ch' = Streams
    BY Zenon, <1>1 DEF NotifyLater, Notify
  <2>. QED  BY Zenon, <2>1, <2>2, <2>3, <2>4 DEF CondInv
<1>2. ASSUME NEW t \in Streams, Recv(t) PROVE CondInv'
  <2>1. UNCHANGED <<condLast, last, relevant>> /\ pc' = [pc EXCEPT ![t] = "wait"]
    BY Zenon, <1>2 DEF Recv
  <2>2. Registration(t) /\ pc[t] = "recv" /\ ch[t] = <<>> /\ t \notin waiters
    BY Zenon, <1>2 DEF Recv, CondInv, Registration
  <2>3. CASE missed(last[t])
    <3>1. ch' = [ch EXCEPT ![t] = Append(ch[t], condLast)] /\ waiters' = waiters
      BY Zenon, <1>2, <2>3 DEF Recv, Register
    <3>2. ch'[t] # <<>> /\ ch'[t] \in Seq(Nat) /\ Len(ch'[t]) = 1
      BY SMTT(30), <2>2, <3>1, EmptyOrOne DEF CondInv
    <3>3. Registration(t)'
      BY Zenon, <2>1, <2>2, <3>1, <3>2 DEF Registration, CondInv
    <3>4. ASSUME NEW s \in Streams, s # t PROVE Registration(s)'
      BY Zenon, <2>1, <3>1, <3>4 DEF Registration, CondInv
    <3>. QED  BY Zenon, <2>1, <3>1, <3>3, <3>4 DEF CondInv
  <2>4. CASE ~missed(last[t])
    <3>1. ch' = ch /\ waiters' = waiters \cup {t}
      BY Zenon, <1>2, <2>4 DEF Recv, Register
    <3>2. last[t] >= relevant[t]
      BY <2>2, <2>4 DEF missed, Registration, CondInv
    <3>3. Registration(t)'
      BY Zenon, <2>1, <2>2, <3>1, <3>2 DEF Registration, CondInv
    <3>4. ASSUME NEW s \in Streams, s # t PROVE Registration(s)'
      BY Zenon, <2>1, <3>1, <3>4 DEF Registration, CondInv
    <3>. QED  BY Zenon, <2>1, <3>1, <3>3, <3>4 DEF CondInv
  <2>. QED  BY Zenon, <2>3, <2>4
<1>3. ASSUME NEW t \in Streams, Woken(t) PROVE CondInv'
  <2>1. /\ pc' = [pc EXCEPT ![t] = "contents"] /\ last' = [last EXCEPT ![t] = Head(ch[t])]
        /\ ch' = [ch EXCEPT ![t] = Tail(ch[t])] /\ UNCHANGED <<condLast, waiters, relevant>>
    BY Zenon, <1>3 DEF Woken
  <2>2. Registration(t) /\ t \notin waiters /\ Head(ch[t]) \in Nat /\ Tail(ch[t]) = <<>>
    BY Zenon, <1>3, EmptyOrOne DEF Woken, CondInv, Registration
  <2>a. last'[t] \in Int /\ pc'[t] = "contents"
    BY <2>1, <2>2 DEF CondInv
  <2>b. ch'[t] = <<>>
    BY Zenon, <2>1, <2>2 DEF CondInv
  <2>c. ch'[t] \in Seq(Nat)
    BY SMTT(30), <2>b
  <2>3. Registration(t)'
    BY Zenon, <2>1, <2>2, <2>a, <2>b, <2>c DEF Registration, CondInv
  <2>4. ASSUME NEW s \in Streams, s # t PROVE Registration(s)'
    BY Zenon, <2>1, <2>4 DEF Registration, CondInv
  <2>. QED  BY Zenon, <2>1, <2>3, <2>4 DEF CondInv
<1>4. ASSUME NEW t \in Streams, NEW to \in {"send", "recv", "closed"},
             pc' = [pc EXCEPT ![t] = to], to = "closed" \/ pc[t] \in {"contents", "send"},
             UNCHANGED <<condVars, last>>
      PROVE  CondInv'
  <2>1. ASSUME NEW s \in Streams PROVE Registration(s)'
    BY Zenon, <1>4, <2>1 DEF Registration, CondInv, condVars
  <2>. QED  BY Zenon, <1>4, <2>1 DEF CondInv, condVars
<1>5. ASSUME NEW t \in Streams, Contents(t) \/ Send(t) \/ Close(t) PROVE CondInv'
  BY Zenon, <1>4, <1>5 DEF Contents, Send, Close
<1>6. CASE UNCHANGED <<condVars, pc, last>>
  <2>1. ASSUME NEW s \in Streams PROVE Registration(s)'
    BY Zenon, <1>6, <2>1 DEF Registration, CondInv, condVars
  <2>. QED  BY Zenon, <1>6, <2>1 DEF CondInv, condVars
<1>7. ASSUME NEW w \in Writers, Update(w) PROVE CondInv'
  BY Zenon, <1>6, <1>7 DEF Update, streamVars
<1>8. CASE UNCHANGED vars
  BY Zenon, <1>6, <1>8 DEF vars, streamVars
<1>. QED  BY Zenon, <1>1, <1>2, <1>3, <1>5, <1>7, <1>8 DEF Next

LEMMA CondInvAlways == Spec => []CondInv
<1>1. Init => CondInv
  BY DEF Init, CondInv, Registration
<1>. QED  BY <1>1, CondInvStep, PTL DEF Spec

\* Notify, which runs under the Cond's lock, never finds a full channel among
\* its waiters, whichever streams were closed while registered.
THEOREM NotifyDoesNotBlock == Spec => []NotifyNeverBlocks
<1>1. CondInv => NotifyNeverBlocks
  BY Zenon DEF CondInv, Registration, NotifyNeverBlocks
<1>. QED  BY <1>1, CondInvAlways, PTL

\* A waiting stream with an empty channel is registered and has already been
\* told of the last notification that concerned it.
THEOREM NoNotificationMissed == Spec => []NothingMissed
<1>1. CondInv => NothingMissed
  BY Zenon DEF CondInv, Registration, NothingMissed
<1>. QED  BY <1>1, CondInvAlways, PTL

-----------------------------------------------------------------------------
(* Versions *)

\* A version is the number of a notification that was made: those a stream has received,
\* is about to receive and has sent; and what is read from the cache for a version is at
\* least as new as what that notification announced.
Honest(s) ==
  /\ \A i \in DOMAIN ch[s] : ch[s][i] <= condLast
  /\ last[s] <= condLast
  /\ response[s] \in Int
  /\ pc[s] = "send" /\ last[s] > 0 => response[s] >= announced[last[s]]
  /\ delivered[s].version \in Int /\ delivered[s].content \in Int
  /\ delivered[s].version <= condLast
  /\ delivered[s].version > 0 => delivered[s].content >= announced[delivered[s].version]

HonestInv ==
  /\ content \in Nat
  /\ announced \in Seq(Int) /\ Len(announced) = condLast
  /\ \A i \in 1 .. condLast : announced[i] <= content
  /\ DOMAIN response = Streams /\ DOMAIN delivered = Streams
  /\ \A s \in Streams : Honest(s)

LEMMA HonestStep == CondInv /\ HonestInv /\ [Next]_vars => HonestInv'
<1>. SUFFICES ASSUME CondInv, HonestInv, [Next]_vars PROVE HonestInv'
  BY Zenon
<1>a. condLast \in Nat
  BY Zenon DEF CondInv
<1>1. ASSUME NEW w \in Writers, Update(w) PROVE HonestInv'
  BY <1>1 DEF Update, HonestInv, Honest, condVars, streamVars, CondInv
<1>2. ASSUME NEW w \in Writers, NotifyLater(w) PROVE HonestInv'
  <2>1. condLast' = condLast + 1 /\ announced' = Append(announced, content)
        /\ UNCHANGED <<content, pc, last, response, delivered>>
    BY Zenon, <1>2 DEF NotifyLater, Notify, streamVars
  <2>2. /\ announced' \in Seq(Int) /\ Len(announced') = condLast'
        /\ \A i \in 1 .. condLast : announced'[i] = announced[i]
        /\ announced'[condLast + 1] = content
    BY <1>a, <2>1 DEF HonestInv
  <2>3. \A i \in 1 .. condLast' : announced'[i] <= content'
    BY SMTT(30), <1>a, <2>1, <2>2 DEF HonestInv
  <2>4. ASSUME NEW s \in Streams PROVE Honest(s)'
    <3>1. Honest(s) /\ Registration(s)
      BY Zenon DEF HonestInv, CondInv
    <3>2. \A i \in DOMAIN ch'[s] : ch'[s][i] <= condLast'
      <4>1. CASE ch'[s] = ch[s]
        BY SMTT(60), <1>a, <2>1, <3>1, <4>1 DEF Honest, Registration
      <4>2. CASE ch'[s] = Append(ch[s], condLast + 1) /\ s \in waiters
        <5>1. ch[s] = <<>> /\ ch[s] \in Seq(Nat)
          BY Zenon, <3>1, <4>2 DEF Registration
        <5>2. DOMAIN ch'[s] = 1..1 /\ ch'[s][1] = condLast + 1
          BY <1>a, <4>2, <5>1
        <5>. QED  BY <1>a, <2>1, <5>2
      <4>3. ch'[s] = ch[s] \/ (ch'[s] = Append(ch[s], condLast + 1) /\ s \in waiters)
        BY Zenon, <1>2 DEF NotifyLater, Notify
      <4>. QED  BY <4>1, <4>2, <4>3, Zenon
    <3>a. last[s] \in Int /\ last[s] <= condLast
          /\ delivered[s].version \in Int /\ delivered[s].version <= condLast
      BY Zenon, <3>1 DEF Honest, Registration
    <3>3. last[s] > 0 => announced'[last[s]] = announced[last[s]]
      BY <1>a, <2>2, <3>a
    <3>4. delivered[s].version > 0 => announced'[delivered[s].version] = announced[delivered[s].version]
      BY SMTT(30), <1>a, <2>2, <3>a
    <3>5. last[s] <= condLast' /\ delivered[s].version <= condLast'
      BY SMTT(30), <1>a, <2>1, <3>1 DEF Honest, Registration
    <3>. QED  BY Zenon, <2>1, <3>1, <3>2, <3>3, <3>4, <3>5 DEF Honest
  <2>. QED  BY Zenon, <2>1, <2>2, <2>3, <2>4 DEF HonestInv
<1>3. ASSUME NEW t \in Streams, Recv(t) PROVE HonestInv'
  <2>1. UNCHANGED <<content, condLast, last, response, delivered, announced>> /\ pc'[t] = "wait"
        /\ \A s \in Streams \ {t} : pc'[s] = pc[s] /\ ch'[s] = ch[s]
    BY Zenon, <1>3 DEF Recv, Register, CondInv
  <2>2. Registration(t) /\ ch[t] = <<>> /\ Honest(t)
    BY Zenon, <1>3 DEF Recv, CondInv, Registration, HonestInv
  <2>3. \A i \in DOMAIN ch'[t] : ch'[t][i] <= condLast
    <3>1. CASE ch'[t] = ch[t]
      BY <2>2, <3>1
    <3>2. CASE ch'[t] = Append(ch[t], condLast)
      BY SMTT(30), <1>a, <2>2, <3>2
    <3>. QED  BY Zenon, <1>3, <3>1, <3>2 DEF Recv, Register, CondInv
  <2>4. Honest(t)'
    BY Zenon, <2>1, <2>2, <2>3 DEF Honest
  <2>5. ASSUME NEW s \in Streams, s # t PROVE Honest(s)'
    BY Zenon, <2>1, <2>5 DEF Honest, HonestInv
  <2>. QED  BY Zenon, <2>1, <2>4, <2>5 DEF HonestInv
<1>4. ASSUME NEW t \in Streams, Woken(t) PROVE HonestInv'
  <2>1. /\ pc'[t] = "contents" /\ last'[t] = Head(ch[t]) /\ ch'[t] = Tail(ch[t])
        /\ UNCHANGED <<content, condLast, response, delivered, announced>>
        /\ \A s \in Streams \ {t} : pc'[s] = pc[s] /\ ch'[s] = ch[s] /\ last'[s] = last[s]
    BY Zenon, <1>4 DEF Woken, CondInv
  <2>2. Registration(t) /\ Honest(t) /\ Len(ch[t]) = 1 /\ ch[t] \in Seq(Nat)
    BY Zenon, <1>4 DEF Woken, CondInv, Registration, HonestInv
  <2>3. last'[t] <= condLast
    BY SMTT(60), <2>1, <2>2 DEF Honest
  <2>4. ch'[t] = <<>>
    BY Zenon, <2>1, <2>2, EmptyOrOne
  <2>5. Honest(t)'
    BY SMTT(30), <2>1, <2>2, <2>3, <2>4 DEF Honest
  <2>6. ASSUME NEW s \in Streams, s # t PROVE Honest(s)'
    BY ZenonT(60), <2>1, <2>6 DEF Honest, HonestInv
  <2>. QED  BY Zenon, <2>1, <2>5, <2>6 DEF HonestInv
<1>5. ASSUME NEW t \in Streams, Contents(t) PROVE HonestInv'
  <2>1. /\ UNCHANGED <<content, condLast, delivered, announced, ch, last>> /\ DOMAIN response' = Streams
        /\ response'[t] = content /\ pc'[t] = "send"
        /\ \A s \in Streams \ {t} : pc'[s] = pc[s] /\ response'[s] = response[s]
    BY Zenon, <1>5 DEF Contents, CondInv, HonestInv, condVars
  <2>2. Honest(t) /\ Registration(t)
    BY Zenon DEF HonestInv, CondInv
  <2>3. last[t] > 0 => content >= announced[last[t]]
    BY SMTT(60), <1>a, <2>2 DEF HonestInv, Honest, Registration
  <2>4. Honest(t)'
    BY SMTT(60), <2>1, <2>2, <2>3 DEF Honest, HonestInv
  <2>5. ASSUME NEW s \in Streams, s # t PROVE Honest(s)'
    BY ZenonT(60), <2>1, <2>5 DEF Honest, HonestInv
  <2>. QED  BY ZenonT(60), <2>1, <2>4, <2>5 DEF HonestInv
<1>6. ASSUME NEW t \in Streams, Send(t) PROVE HonestInv'
  <2>1. /\ UNCHANGED <<content, condLast, response, announced, ch, last>> /\ DOMAIN delivered' = Streams
        /\ delivered'[t] = [version |-> last[t], content |-> response[t]] /\ pc'[t] = "recv"
        /\ \A s \in Streams \ {t} : pc'[s] = pc[s] /\ delivered'[s] = delivered[s]
    BY ZenonT(60), <1>6 DEF Send, CondInv, HonestInv, condVars
  <2>2. Honest(t) /\ Registration(t) /\ pc[t] = "send"
    BY ZenonT(60), <1>6 DEF HonestInv, CondInv, Send
  <2>3. Honest(t)'
    BY SMTT(60), <2>1, <2>2 DEF Honest, Registration
  <2>4. ASSUME NEW s \in Streams, s # t PROVE Honest(s)'
    BY Zenon, <2>1, <2>4 DEF Honest, HonestInv
  <2>. QED  BY ZenonT(60), <2>1, <2>3, <2>4 DEF HonestInv
<1>7. ASSUME NEW t \in Streams, Close(t) PROVE HonestInv'
  BY Zenon, <1>7 DEF Close, HonestInv, Honest, condVars, CondInv
<1>8. CASE UNCHANGED vars
  BY Zenon, <1>8 DEF vars, condVars, streamVars, HonestInv, Honest
<1>. QED  BY Zenon, <1>1, <1>2, <1>3, <1>4, <1>5, <1>6, <1>7, <1>8 DEF Next

\* A response that is labelled with a version has at least what the notification of that
\* version announced, however many updates and notifications fall between the two.
THEOREM ResponsesAreHonest == Spec => []VersionsAreHonest
<1>1. Init => HonestInv
  BY SMTT(30) DEF Init, HonestInv, Honest
<1>2. HonestInv => VersionsAreHonest
  BY Zenon DEF HonestInv, Honest, VersionsAreHonest
<1>. QED  BY <1>1, <1>2, CondInvAlways, HonestStep, PTL DEF Spec
=============================================================================
