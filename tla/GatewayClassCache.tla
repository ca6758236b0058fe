-------------------------- MODULE GatewayClassCache --------------------------
(***************************************************************************)
(* How KubernetesCache learns the GatewayClass of its configured Gateway   *)
(* (internal/dag/cache.go).                                                *)
(*                                                                         *)
(* Gateways and GatewayClasses come from separate informers, in no order   *)
(* relative to each other.  A class event is kept only when the cached     *)
(* Gateway names the class; for a class that was reported earlier, the     *)
(* insertion of the Gateway reads the class through the client, whose      *)
(* answer comes from the informer's store and so may be behind the API     *)
(* server and ahead of the events that are still to be handled.            *)
(***************************************************************************)
EXTENDS Integers, Sequences

CONSTANTS
  Classes,      \* names of GatewayClasses
  None,         \* no Gateway, no class
  MaxChanges    \* bound on changes of the cluster

ASSUME NoClassAssumption == None \notin Classes

VARIABLES
  classes,        \* the classes at the API server
  named,          \* the class the configured Gateway names, None without Gateway
  reflected,      \* changes of classes not yet in the informer's store
  store,          \* the classes in the informer's store
  classEvents,    \* class events not yet handled
  gatewayEvents,  \* Gateway events not yet handled, as old and new class
  gateway,        \* kc.gateway, as the class it names
  gatewayclass,   \* kc.gatewayclass
  changes         \* changes of the cluster so far

classVars == <<classes, named, reflected, store, classEvents, gatewayEvents,
          gateway, gatewayclass, changes>>

ClassInit ==
  /\ classes = {} /\ named = None /\ reflected = <<>> /\ store = {}
  /\ classEvents = <<>> /\ gatewayEvents = <<>>
  /\ gateway = None /\ gatewayclass = None
  /\ changes = 0

-----------------------------------------------------------------------------
(* The cluster, and the informer of classes.                               *)

\* A class is created, updated or deleted.
ClassChange(c, exists) ==
  /\ changes < MaxChanges
  /\ exists \/ c \in classes
  /\ changes' = changes + 1
  /\ classes' = IF exists THEN classes \cup {c} ELSE classes \ {c}
  /\ reflected' = Append(reflected, [name |-> c, existed |-> c \in classes, exists |-> exists])
  /\ UNCHANGED <<named, store, classEvents, gatewayEvents, gateway, gatewayclass>>

GatewayChange(c) ==
  /\ changes < MaxChanges
  /\ ~(c = None /\ named = None)
  /\ changes' = changes + 1
  /\ named' = c
  /\ gatewayEvents' = Append(gatewayEvents, [old |-> named, new |-> c])
  /\ UNCHANGED <<classes, reflected, store, classEvents, gateway, gatewayclass>>

\* The store changes before the event handlers are told.
Reflect ==
  /\ reflected # <<>>
  /\ LET change == Head(reflected) IN
       /\ store' = IF change.exists THEN store \cup {change.name} ELSE store \ {change.name}
       /\ classEvents' = Append(classEvents, change)
  /\ reflected' = Tail(reflected)
  /\ UNCHANGED <<classes, named, gatewayEvents, gateway, gatewayclass, changes>>

-----------------------------------------------------------------------------
(* Insert and remove of a GatewayClass and of the configured Gateway.      *)

\* Only the class that the cached Gateway names.
InsertClass(cached, c) == IF gateway = c THEN c ELSE cached

RemoveClass(cached, c) == IF cached = c THEN None ELSE cached

\* An update removes, then inserts.
HandleClass ==
  /\ classEvents # <<>>
  /\ LET event   == Head(classEvents)
         removed == IF event.existed THEN RemoveClass(gatewayclass, event.name) ELSE gatewayclass
     IN  gatewayclass' = IF event.exists THEN InsertClass(removed, event.name) ELSE removed
  /\ classEvents' = Tail(classEvents)
  /\ UNCHANGED <<classes, named, reflected, store, gatewayEvents, gateway, changes>>

classFor_Kept(c) == gatewayclass

\* When the client has no such class, the error is logged and the old one kept.
classFor(c) == IF c \in store THEN c ELSE gatewayclass

\* A removal of the Gateway leaves the class alone.
HandleGateway ==
  /\ gatewayEvents # <<>>
  /\ LET event == Head(gatewayEvents) IN
       /\ gateway' = event.new
       /\ gatewayclass' = IF event.new = None THEN gatewayclass ELSE classFor(event.new)
  /\ gatewayEvents' = Tail(gatewayEvents)
  /\ UNCHANGED <<classes, named, reflected, store, classEvents, changes>>

ClassNext ==
  \/ \E c \in Classes, exists \in BOOLEAN : ClassChange(c, exists)
  \/ \E c \in Classes \cup {None} : GatewayChange(c)
  \/ Reflect
  \/ HandleClass
  \/ HandleGateway

ClassSpec == ClassInit /\ [][ClassNext]_classVars

-----------------------------------------------------------------------------
ClassesHandled == reflected = <<>> /\ classEvents = <<>> /\ gatewayEvents = <<>>

\* However the events of the two informers are interleaved, once all of them are handled
\* the class that is cached is one the cluster has, and that of the cached Gateway if the
\* cluster has it.
GatewayClassCurrent ==
  ClassesHandled =>
    /\ gateway \in classes => gatewayclass = gateway
    /\ gatewayclass # None => gatewayclass \in classes
=============================================================================
