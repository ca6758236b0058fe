------------------------ MODULE GatewayAPIProcessor ------------------------
(***************************************************************************)
(* One run of the Gateway API processor during a DAG build                 *)
(* (internal/dag/gatewayapi_processor.go): the routes that refer to the    *)
(* Gateway are taken one by one, and for each of their parent references,  *)
(* for each listener that reference reaches, rule after rule, the virtual  *)
(* hosts of the DAG and the conditions of the route are filled in.         *)
(*                                                                         *)
(* HTTPRoutes and GRPCRoutes are sorted first; TLSRoutes, TCPRoutes, the   *)
(* listeners of a reference and the hosts of a rule come in the order of a *)
(* Go map or set, so any order.                                            *)
(*                                                                         *)
(* routes is a sequence; a route's index is the rank of its namespaced     *)
(* name.  A route is [kind, created, namespace, parents, hostnames,        *)
(* rules], a parent reference [gateway, section, port] (section "" and     *)
(* port 0: not given), a rule [matches, redirect, timeouts, filters,       *)
(* mirrors, backends], a match [path, query, bad], a backend [namespace,   *)
(* name, weight, filters].  The headers and the method of a match are part *)
(* of path.  A match is bad "value" when it makes the route unaccepted and *)
(* "path" when its path is malformed; filters is a set of problems, "type" *)
(* for an unsupported filter and "headers" for a header change that does   *)
(* not parse.                                                              *)
(***************************************************************************)
EXTENDS GatewayListeners

CONSTANTS RouteLists,   \* The routes a run may find in the cache.
          ObjectSets    \* The other objects: secrets, services, grants, namespaces.

ParentReference == [gateway : BOOLEAN, section : STRING, port : 0..MaxPort]
BackendRef == [namespace : STRING, name : STRING, weight : Nat, filters : SUBSET STRING]
RouteMatch == [path : STRING, query : STRING, bad : {"none", "value", "path"}]
RouteRule == [matches : SUBSET RouteMatch, redirect : BOOLEAN, timeouts : BOOLEAN,
              filters : SUBSET STRING, mirrors : SUBSET BackendRef, backends : SUBSET BackendRef]
RouteSpec == [kind : RouteKinds, created : Nat, namespace : STRING, parents : Seq(ParentReference),
              hostnames : SUBSET (Seq(STRING) \ {NoHostname}), rules : Seq(RouteRule)]

\* What the API server lets through of the routes.
ASSUME RouteListsAssumption == \A rs \in RouteLists : rs \in Seq(RouteSpec)

VARIABLES
    gateway,        \* Inputs of the run: the Gateway,
    routes,         \* the routes,
    objects,        \* and what they refer to.
    step,             \* Where the run is.
    left,           \* The routes not processed yet.
    cur,            \* The loop variables of processRoute.
    attached,       \* listenerAttachedRoutes
    routeStatus,    \* The conditions of each route for each of its parent references.
    vhosts,         \* <<listener, host>> -> the routes of that virtual host,
    svhosts,        \* and the same for secure virtual hosts.
    tcpProxies,     \* The TCPProxy of the Envoy listeners that have one.
    programmed      \* The Gateway's Programmed condition: "unset" until the run ends.

inputs == <<gateway, routes, objects>>
dag == <<vhosts, svhosts, tcpProxies>>
gatewayVars == <<inputs, step, left, cur, attached, routeStatus, dag, programmed>>

NoProxy == 0
AnyHost == <<"*">>
RootMatch == [path |-> "/", query |-> "none", bad |-> "none"]
NoConditions == [Accepted |-> "unset", ResolvedRefs |-> "unset", PartiallyInvalid |-> FALSE]
Idle == [route |-> 0, parent |-> 0, allowed |-> {}, left |-> {}, matched |-> FALSE,
         listener |-> 0, hosts |-> {}, rule |-> 0, dropped |-> 0]

listeners == gateway.listeners
Listeners == DOMAIN listeners

\* dag.Listeners as the ListenerProcessor left it: the names that can be looked up.
DagListeners == {port.name : port \in Ports(listeners)}

isAddressAssigned ==
    gateway.specAddresses = {} \/ gateway.specAddresses \intersect gateway.statusAddresses # {}

-----------------------------------------------------------------------------
(* Hostnames *)

IsWildcard(hostname) == hostname # <<>> /\ Head(hostname) = "*"

hostnameMatchesWildcardHostname(hostname, wildcard) ==
    /\ Len(hostname) >= Len(wildcard)
    /\ SubSeq(hostname, Len(hostname) - Len(wildcard) + 2, Len(hostname)) = Tail(wildcard)

\* A broken form: only a listener with exactly that hostname is more specific.
Shadowed_ExactOnly(hostname, listenerHostname, others) == hostname \in others

\* otherListenerIntersection.  Two wildcards that match one hostname are nested, so the
\* longer string is the one with more labels.
Shadowed(hostname, listenerHostname, others) ==
    \E other \in others :
        \/ hostname = other
        \/ /\ IsWildcard(other)
           /\ hostnameMatchesWildcardHostname(hostname, other)
           /\ Len(other) > Len(listenerHostname)

HostsFor(hostname, listenerHostname, others) ==
    CASE listenerHostname = NoHostname ->
            IF Shadowed(hostname, listenerHostname, others) THEN {} ELSE {hostname}
      [] listenerHostname = hostname -> {hostname}
      [] IsWildcard(listenerHostname) /\ listenerHostname # hostname ->
            IF /\ hostnameMatchesWildcardHostname(hostname, listenerHostname)
               /\ ~Shadowed(hostname, listenerHostname, others)
            THEN {hostname} ELSE {}
      [] IsWildcard(hostname) /\ listenerHostname # NoHostname /\ ~IsWildcard(listenerHostname) ->
            IF hostnameMatchesWildcardHostname(listenerHostname, hostname)
            THEN {listenerHostname} ELSE {}
      [] OTHER -> {}

computeHosts(hostnames, listenerHostname, others) ==
    IF hostnames = {}
    THEN {IF listenerHostname # NoHostname THEN listenerHostname ELSE AnyHost}
    ELSE UNION {HostsFor(h, listenerHostname, others) : h \in {g \in hostnames : IsValidHostname(g)}}

-----------------------------------------------------------------------------
(* Which listeners a parent reference reaches, and which references resolve *)

IsRefToGateway(parent) == parent.gateway

Selected(parent) ==
    {l \in Listeners : /\ parent.section \in {"", listeners[l].name}
                       /\ parent.port \in {0, listeners[l].port}}

AllowsKind(l, kind) == kind \in getListenerRouteKinds(listeners[l])

\* A namespace that is not in the cache is let through.
namespaceMatches(l, namespace) ==
    CASE listeners[l].from = "Same" -> namespace = GatewayNamespace
      [] listeners[l].from = "Selector" ->
            namespace \in objects.namespaces => namespace \in objects.selected
      [] OTHER -> TRUE

\* namespaceMatches calls a method of the nil selector of listener l.
SelectorIsNil(l, namespace) ==
    SelectorProblem(listeners[l]) /\ namespace \in objects.namespaces

IsReady(l) == Ready(listeners, l, objects)

\* The listeners that count the route as attached.
Attachable(route, parent) ==
    {l \in Selected(parent) : AllowsKind(l, route.kind) /\ namespaceMatches(l, route.namespace)}

AllowedListeners(route, parent) == {l \in Attachable(route, parent) : IsReady(l)}

otherListenerHostnames(allowed) ==
    {listeners[l].hostname : l \in {k \in Listeners \ allowed : listeners[k].hostname # NoHostname}}

\* The hosts under which the listener serves the route.
HostsAt(route, parent, l) ==
    computeHosts(route.hostnames, listeners[l].hostname,
                 otherListenerHostnames(AllowedListeners(route, parent)))

validateBackendRef(route, backend) ==
    LET namespace == IF backend.namespace = "" THEN route.namespace ELSE backend.namespace
    IN  /\ \/ namespace = route.namespace
           \/ validCrossNamespaceRef(objects.grants, route.kind, route.namespace,
                                     "Service", namespace, backend.name)
        /\ <<namespace, backend.name>> \in objects.services

BadBackends(route, backends) == {b \in backends : ~validateBackendRef(route, b)}

\* resolveRouteRefs: TCPRoutes are not looked at.
ReferencesResolve(route) ==
    route.kind # "TCPRoute" =>
        \A n \in DOMAIN route.rules :
            BadBackends(route, route.rules[n].backends \union route.rules[n].mirrors) = {}
-----------------------------------------------------------------------------
(* What the DAG holds for a rule *)

ValidMatches(rule) == {m \in rule.matches : m.bad = "none"}

GRPCMatches(rule) == IF rule.matches = {} THEN {RootMatch} ELSE ValidMatches(rule)

\* A redirect leaves the query parameters of its match out.
redirectRoutes(matches) == {[m EXCEPT !.query = "none"] : m \in matches}

\* The matches the DAG holds for a rule.
Keys(route, rule) ==
    CASE route.kind = "GRPCRoute" -> GRPCMatches(rule)
      [] route.kind # "GRPCRoute" /\ rule.redirect -> redirectRoutes(ValidMatches(rule))
      [] OTHER -> ValidMatches(rule)

Clusters(route, rule) == rule.backends \ BadBackends(route, rule.backends)

HasWeight(route, rule) == \E b \in Clusters(route, rule) : b.weight # 0

\* clusterRoutes answers with status 500 when there is no cluster to send to.
Action(route, rule) ==
    IF rule.redirect THEN "redirect"
    ELSE IF HasWeight(route, rule) THEN "clusters" ELSE "direct response"

NoEntries == {}
NoSecureHost == [secret |-> NoSecret, tcpProxy |-> NoProxy, routes |-> NoEntries]

Secure(l) == tlsSecret(listeners, l, objects) # NoSecret

VirtualHost(l, host) == <<dagListenerName(listeners[l]), host>>

\* The routes of the (secure) virtual host, none when it does not exist yet.
RoutesAt(l, host) ==
    LET vh == VirtualHost(l, host)
    IN  IF Secure(l) THEN IF vh \in DOMAIN svhosts THEN svhosts[vh].routes ELSE NoEntries
        ELSE IF vh \in DOMAIN vhosts THEN vhosts[vh] ELSE NoEntries

\* A broken form: a virtual host never has a conflict.
HasConflictRoute_Never(l, host, kind, keys) == FALSE

HasConflictRoute(l, host, kind, keys) ==
    \E e \in RoutesAt(l, host) : e.match \in keys /\ e.kind = kind

\* AddRoute: a route with the same match is replaced.
PutRoutes(entries, n, r, keys) ==
    {e \in entries : e.match \notin keys} \union
    {[match |-> k, kind |-> routes[n].kind, route |-> n, rule |-> r,
      action |-> Action(routes[n], routes[n].rules[r])] : k \in keys}

\* EnsureVirtualHost and EnsureSecureVirtualHost, for a set of virtual hosts.
Ensure(hosts, vhs, new) ==
    [vh \in DOMAIN hosts \union vhs |-> IF vh \in DOMAIN hosts THEN hosts[vh] ELSE new]

\* hasConflictRoute ensures every virtual host it looks at, up to the first conflict.
EnsureVirtualHosts(l, vhs) ==
    /\ vhosts' = IF Secure(l) THEN vhosts ELSE Ensure(vhosts, vhs, NoEntries)
    /\ svhosts' = IF Secure(l) THEN Ensure(svhosts, vhs, NoSecureHost) ELSE svhosts

AddToVirtualHosts(l, vhs, n, r, keys) ==
    LET plain == Ensure(vhosts, vhs, NoEntries)
        secure == Ensure(svhosts, vhs, NoSecureHost)
    IN  /\ vhosts' = IF Secure(l) THEN vhosts
                     ELSE [vh \in DOMAIN plain |->
                            IF vh \in vhs THEN PutRoutes(plain[vh], n, r, keys) ELSE plain[vh]]
        /\ svhosts' = IF ~Secure(l) THEN svhosts
                      ELSE [vh \in DOMAIN secure |->
                            IF vh \in vhs
                            THEN [secret |-> tlsSecret(listeners, l, objects),
                                  tcpProxy |-> secure[vh].tcpProxy,
                                  routes |-> PutRoutes(secure[vh].routes, n, r, keys)]
                            ELSE secure[vh]]

\* A TCPProxy replaces the one the virtual host had.
SetTCPProxy(l, vhs, n) ==
    LET secure == Ensure(svhosts, vhs, NoSecureHost)
    IN  svhosts' = [vh \in DOMAIN secure |->
            IF vh \in vhs
            THEN [secret |-> IF Secure(l) THEN tlsSecret(listeners, l, objects) ELSE secure[vh].secret,
                  tcpProxy |-> n,
                  routes |-> secure[vh].routes]
            ELSE secure[vh]]

-----------------------------------------------------------------------------
(* The order of the routes *)

\* A broken form: the youngest route first.
SortsBefore_Youngest(m, n) ==
    \/ routes[m].created > routes[n].created
    \/ routes[m].created = routes[n].created /\ m < n

SortsBefore(m, n) ==
    \/ routes[m].created < routes[n].created
    \/ routes[m].created = routes[n].created /\ m < n

KindOrder == <<"HTTPRoute", "TLSRoute", "GRPCRoute", "TCPRoute">>

\* The routes that may be processed next.
NextRoutes ==
    LET ofKind(k) == {n \in left : routes[n].kind = KindOrder[k]}
        kind == CHOOSE k \in 1..4 : ofKind(k) # {} /\ \A j \in 1..(k - 1) : ofKind(j) = {}
    IN  IF KindOrder[kind] \in {"HTTPRoute", "GRPCRoute"}
        THEN {n \in ofKind(kind) : \A m \in ofKind(kind) \ {n} : SortsBefore(n, m)}
        ELSE ofKind(kind)

-----------------------------------------------------------------------------
(* Run and processRoute *)

GatewayInit ==
    /\ gateway \in Gateways
    /\ routes \in RouteLists
    /\ objects \in ObjectSets
    /\ step = "start"
    /\ left = DOMAIN routes
    /\ cur = Idle
    /\ attached = [l \in Listeners |-> 0]
    /\ routeStatus = [n \in DOMAIN routes |->
                        [i \in DOMAIN routes[n].parents |-> NoConditions]]
    /\ vhosts = <<>>
    /\ svhosts = <<>>
    /\ tcpProxies = [name \in DagListeners |-> NoProxy]
    /\ programmed = "unset"

\* Run returns at once without a Gateway or its class.
NotConfigured ==
    /\ step = "start" /\ ~gateway.configured
    /\ step' = "done"
    /\ UNCHANGED <<inputs, left, cur, attached, routeStatus, dag, programmed>>

\* The listeners are computed: their conditions are a function of the inputs.
ComputeListeners ==
    /\ step = "start" /\ gateway.configured
    /\ step' = "routes"
    /\ UNCHANGED <<inputs, left, cur, attached, routeStatus, dag, programmed>>

StartRoute(n) ==
    /\ step = "routes" /\ left # {} /\ n \in NextRoutes
    /\ step' = "parent"
    /\ left' = left \ {n}
    /\ cur' = [Idle EXCEPT !.route = n, !.parent = 1]
    /\ UNCHANGED <<inputs, attached, routeStatus, dag, programmed>>

curRoute == routes[cur.route]
curParent == curRoute.parents[cur.parent]
curRule == curRoute.rules[cur.rule]

AtParent == step = "parent" /\ cur.parent <= Len(curRoute.parents)

NextParent == cur' = [Idle EXCEPT !.route = cur.route, !.parent = cur.parent + 1]

SkipParent ==
    /\ AtParent /\ ~IsRefToGateway(curParent)
    /\ NextParent
    /\ UNCHANGED <<inputs, step, left, attached, routeStatus, dag, programmed>>

RejectForGateway ==
    /\ AtParent /\ IsRefToGateway(curParent) /\ ~isAddressAssigned
    /\ routeStatus' = [routeStatus EXCEPT ![cur.route][cur.parent].Accepted = "InvalidGateway"]
    /\ NextParent
    /\ UNCHANGED <<inputs, step, left, attached, dag, programmed>>

DereferencesNil ==
    \E l \in Selected(curParent) :
        AllowsKind(l, curRoute.kind) /\ SelectorIsNil(l, curRoute.namespace)

\* The build's goroutine panics, and Contour stops.
Panic ==
    /\ AtParent /\ IsRefToGateway(curParent) /\ isAddressAssigned /\ DereferencesNil
    /\ step' = "panicked"
    /\ UNCHANGED <<inputs, left, cur, attached, routeStatus, dag, programmed>>

getListenersForRouteParentRef ==
    LET allowed == AllowedListeners(curRoute, curParent)
        attachable == Attachable(curRoute, curParent)
    IN  /\ AtParent /\ IsRefToGateway(curParent) /\ isAddressAssigned /\ ~DereferencesNil
        /\ attached' = [l \in Listeners |-> attached[l] + IF l \in attachable THEN 1 ELSE 0]
        /\ routeStatus' = [routeStatus EXCEPT ![cur.route][cur.parent] =
                [Accepted |->
                    IF ~\E l \in Selected(curParent) : IsReady(l) THEN "NoMatchingParent"
                    ELSE IF allowed = {} THEN "NotAllowedByListeners" ELSE @.Accepted,
                 ResolvedRefs |->
                    IF allowed = {} /\ ~ReferencesResolve(curRoute) THEN "False" ELSE @.ResolvedRefs,
                 PartiallyInvalid |-> @.PartiallyInvalid]]
        /\ cur' = [cur EXCEPT !.allowed = allowed, !.left = allowed]
        /\ step' = "listener"
        /\ UNCHANGED <<inputs, left, dag, programmed>>

StartListener(l) ==
    LET hosts == IF curRoute.kind = "TCPRoute" THEN {}
                 ELSE computeHosts(curRoute.hostnames, listeners[l].hostname,
                                   otherListenerHostnames(cur.allowed))
    IN  /\ step = "listener" /\ l \in cur.left
        /\ routeStatus' = [routeStatus EXCEPT ![cur.route][cur.parent].ResolvedRefs =
                IF curRoute.kind # "TCPRoute" /\ \E h \in curRoute.hostnames : ~IsValidHostname(h)
                THEN "False" ELSE @]
        /\ cur' = [cur EXCEPT !.left = @ \ {l}, !.listener = l, !.hosts = hosts,
                              !.matched = @ \/ hosts # {}, !.rule = 1, !.dropped = 0]
        /\ step' = IF curRoute.kind # "TCPRoute" /\ hosts = {} THEN "listener" ELSE "rule"
        /\ UNCHANGED <<inputs, left, attached, dag, programmed>>

AtRule(kinds) == step = "rule" /\ curRoute.kind \in kinds /\ cur.rule <= Len(curRoute.rules)

\* AddCondition: a condition replaces the one of its type that is there already.
AddConditions(status, unsupported, unresolved) ==
    [Accepted |-> IF unsupported THEN "UnsupportedValue" ELSE status.Accepted,
     ResolvedRefs |-> IF unresolved THEN "False" ELSE status.ResolvedRefs,
     PartiallyInvalid |-> status.PartiallyInvalid]

BackendsUnresolved(route, rule) == rule.backends = {} \/ BadBackends(route, rule.backends) # {}

HasBadMatch(rule) == \E m \in rule.matches : m.bad = "value"

\* The problems with the filters of the rule, and of its backends that resolve.
FilterProblems(route, rule) ==
    rule.filters \union
    UNION {b.filters : b \in IF rule.redirect THEN {} ELSE Clusters(route, rule)}

\* Timeouts that do not parse end the rule before its filters and backends.
HTTPRuleStatus(status, route, rule) ==
    LET problems == IF rule.timeouts THEN FilterProblems(route, rule) ELSE {}
    IN  AddConditions(status,
            HasBadMatch(rule) \/ ~rule.timeouts \/ "type" \in problems,
            /\ rule.timeouts
            /\ \/ BadBackends(route, rule.mirrors) # {}
               \/ "headers" \in problems
               \/ ~rule.redirect /\ BackendsUnresolved(route, rule))

\* A GRPCRoute has no timeouts and no redirects.
GRPCRuleStatus(status, route, rule) ==
    LET problems == FilterProblems(route, rule)
    IN  AddConditions(status,
            HasBadMatch(rule) \/ "type" \in problems,
            \/ BadBackends(route, rule.mirrors) # {}
            \/ "headers" \in problems
            \/ BackendsUnresolved(route, rule))

RuleStatus(status) ==
    CASE curRoute.kind = "HTTPRoute" -> HTTPRuleStatus(status, curRoute, curRule)
      [] curRoute.kind = "GRPCRoute" -> GRPCRuleStatus(status, curRoute, curRule)
      [] OTHER -> AddConditions(status, FALSE, BackendsUnresolved(curRoute, curRule))

AddRuleConditions ==
    routeStatus' = [routeStatus EXCEPT ![cur.route][cur.parent] = RuleStatus(@)]

curKeys == Keys(curRoute, curRule)
curHosts(hosts) == {VirtualHost(cur.listener, h) : h \in hosts}
RuleIsSkipped == ~curRule.timeouts \/ (~curRule.redirect /\ curRule.backends = {})
ConflictingHosts ==
    {h \in cur.hosts : HasConflictRoute(cur.listener, h, curRoute.kind, curKeys)}

\* The rule's timeouts do not parse, or it has nowhere to send a request.
SkipRule ==
    /\ AtRule({"HTTPRoute", "GRPCRoute"}) /\ RuleIsSkipped
    /\ AddRuleConditions
    /\ cur' = [cur EXCEPT !.rule = @ + 1]
    /\ UNCHANGED <<inputs, step, left, attached, dag, programmed>>

AddRule ==
    /\ AtRule({"HTTPRoute", "GRPCRoute"}) /\ ~RuleIsSkipped /\ ConflictingHosts = {}
    /\ AddRuleConditions
    /\ AddToVirtualHosts(cur.listener, IF curKeys = {} THEN {} ELSE curHosts(cur.hosts),
                         cur.route, cur.rule, curKeys)
    /\ cur' = [cur EXCEPT !.rule = @ + 1]
    /\ UNCHANGED <<inputs, step, left, attached, tcpProxies, programmed>>

\* The hosts looked at before the first conflicting one get their virtual host.
DropRule(before) ==
    /\ AtRule({"HTTPRoute", "GRPCRoute"}) /\ ~RuleIsSkipped /\ ConflictingHosts # {}
    /\ before \subseteq cur.hosts \ ConflictingHosts
    /\ AddRuleConditions
    /\ EnsureVirtualHosts(cur.listener, curHosts(before))
    /\ cur' = [cur EXCEPT !.rule = @ + 1, !.dropped = @ + 1]
    /\ UNCHANGED <<inputs, step, left, attached, tcpProxies, programmed>>

computeTLSRouteForListener ==
    /\ AtRule({"TLSRoute"})
    /\ AddRuleConditions
    /\ IF HasWeight(curRoute, curRule) THEN SetTCPProxy(cur.listener, curHosts(cur.hosts), cur.route)
       ELSE UNCHANGED svhosts
    /\ cur' = [cur EXCEPT !.rule = @ + 1]
    /\ UNCHANGED <<inputs, step, left, attached, vhosts, tcpProxies, programmed>>

\* A TCPRoute has exactly one rule; it owns the Envoy listener, or SNI "*" when TLS is
\* terminated.
computeTCPRouteForListener ==
    /\ step = "rule" /\ curRoute.kind = "TCPRoute"
    /\ step' = "listener"
    /\ IF Len(curRoute.rules) # 1
       THEN /\ routeStatus' = [routeStatus EXCEPT
                                ![cur.route][cur.parent].Accepted = "InvalidRouteRules"]
            /\ UNCHANGED dag
       ELSE /\ AddRuleConditions
            /\ IF HasWeight(curRoute, curRule) /\ Secure(cur.listener)
               THEN SetTCPProxy(cur.listener, curHosts({AnyHost}), cur.route)
               ELSE UNCHANGED svhosts
            /\ tcpProxies' = IF HasWeight(curRoute, curRule) /\ ~Secure(cur.listener)
                             THEN [tcpProxies EXCEPT
                                    ![dagListenerName(listeners[cur.listener])] = cur.route]
                             ELSE tcpProxies
            /\ UNCHANGED vhosts
    /\ UNCHANGED <<inputs, left, cur, attached, programmed>>

EndRules ==
    /\ step = "rule" /\ curRoute.kind # "TCPRoute" /\ cur.rule > Len(curRoute.rules)
    /\ routeStatus' =
        IF curRoute.kind = "TLSRoute" THEN routeStatus
        ELSE IF cur.dropped = Len(curRoute.rules)
        THEN [routeStatus EXCEPT ![cur.route][cur.parent].Accepted = "RuleMatchConflict"]
        ELSE IF cur.dropped > 0
        THEN [routeStatus EXCEPT ![cur.route][cur.parent].PartiallyInvalid = TRUE]
        ELSE routeStatus
    /\ step' = "listener"
    /\ UNCHANGED <<inputs, left, cur, attached, dag, programmed>>

\* The conditions nothing has set yet.
EndParent ==
    /\ step = "listener" /\ cur.left = {}
    /\ routeStatus' = [routeStatus EXCEPT ![cur.route][cur.parent] =
            [Accepted |->
                IF @.Accepted # "unset" THEN @.Accepted
                ELSE IF curRoute.kind # "TCPRoute" /\ ~cur.matched
                THEN "NoMatchingListenerHostname" ELSE "True",
             ResolvedRefs |-> IF @.ResolvedRefs = "unset" THEN "True" ELSE @.ResolvedRefs,
             PartiallyInvalid |-> @.PartiallyInvalid]]
    /\ step' = "parent"
    /\ NextParent
    /\ UNCHANGED <<inputs, left, attached, dag, programmed>>

EndRoute ==
    /\ step = "parent" /\ cur.parent > Len(curRoute.parents)
    /\ step' = "routes"
    /\ cur' = Idle
    /\ UNCHANGED <<inputs, left, attached, routeStatus, dag, programmed>>

computeGatewayConditions ==
    /\ step = "routes" /\ left = {}
    /\ programmed' =
        IF ~isAddressAssigned THEN "AddressNotAssigned"
        ELSE IF \E l \in Listeners : ~ListenerConditions(listeners, l, objects).Programmed
        THEN "ListenersNotValid" ELSE "True"
    /\ step' = "done"
    /\ UNCHANGED <<inputs, left, cur, attached, routeStatus, dag>>

GatewayNext ==
    \/ NotConfigured \/ ComputeListeners
    \/ \E n \in left : StartRoute(n)
    \/ SkipParent \/ RejectForGateway \/ Panic \/ getListenersForRouteParentRef
    \/ \E l \in cur.left : StartListener(l)
    \/ SkipRule \/ AddRule \/ (\E before \in SUBSET cur.hosts : DropRule(before))
    \/ computeTLSRouteForListener \/ computeTCPRouteForListener
    \/ EndRules \/ EndParent \/ EndRoute
    \/ computeGatewayConditions

GatewaySpec == GatewayInit /\ [][GatewayNext]_gatewayVars

-----------------------------------------------------------------------------
(* Properties *)

\* ValidateListeners: of the listeners it lets through, two that share a port belong to
\* one Envoy listener and are told apart by their hostnames, and two on different ports
\* get different, unprivileged, container ports.
ListenersCompatible ==
    \A i, j \in {l \in Listeners : IsValidListener(listeners, l)} :
        /\ toContainerPort(listeners[i].port) \in 1024..MaxPort
        /\ i # j =>
             IF listeners[i].port = listeners[j].port
             THEN /\ dagListenerName(listeners[i]) = dagListenerName(listeners[j])
                  /\ listeners[i].hostname # listeners[j].hostname
             ELSE toContainerPort(listeners[i].port) # toContainerPort(listeners[j].port)

\* The Envoy listener a route is programmed on is in the DAG: the look-ups of
\* EnsureVirtualHost and the TCPProxy assignment never dereference a nil listener.
ListenerExists ==
    step = "rule" => dagListenerName(listeners[cur.listener]) \in DagListeners

\* A virtual host, plain or secure, and a match.
Place(l, host, match) == <<Secure(l), VirtualHost(l, host), match>>

\* The rules that are not skipped.
Asking(route) ==
    {r \in DOMAIN route.rules :
        route.rules[r].timeouts /\ (route.rules[r].redirect \/ route.rules[r].backends # {})}

\* Where route n would be served: the places its rules ask for through each of its references.
Offers(n) ==
    LET route == routes[n]
    IN  UNION {UNION {UNION {
            {[parent |-> i, listener |-> l, rule |-> r, place |-> Place(l, h, k)] :
                h \in HostsAt(route, route.parents[i], l), k \in Keys(route, route.rules[r])} :
            r \in Asking(route)} :
            l \in AllowedListeners(route, route.parents[i])} :
            i \in {j \in DOMAIN route.parents : IsRefToGateway(route.parents[j])}}

Blamed(n, i) ==
    routeStatus[n][i].Accepted = "RuleMatchConflict" \/ routeStatus[n][i].PartiallyInvalid

\* Route m is the older one, or the first by name of two of one age.
HasPrecedence(m, n) ==
    routes[m].created < routes[n].created \/ (routes[m].created = routes[n].created /\ m < n)

\* Another route of the kind, with precedence over n, asks for a place n asks for.
OlderRival(n) ==
    \E m \in DOMAIN routes \ {n} :
        /\ routes[m].kind = routes[n].kind /\ HasPrecedence(m, n)
        /\ \E o \in Offers(n), p \in Offers(m) : o.place = p.place

\* The route asks twice for one place: through two references, two listeners of one
\* Envoy listener, or two rules.
AsksTwice(n) == \E o, p \in Offers(n) : o # p /\ o.place = p.place

\* A route is reported as conflicting only when an older route of the same kind, or the
\* earlier of two routes of one age, asks for one of its matches on one of its virtual
\* hosts, unless it asks for such a place twice itself or has no rules, which counts as having
\* none left.
ConflictsBlameOlder ==
    \A n \in DOMAIN routes : \A i \in DOMAIN routeStatus[n] :
        Blamed(n, i) => OlderRival(n) \/ AsksTwice(n) \/ Len(routes[n].rules) = 0

Processed == {n \in DOMAIN routes \ left : n # cur.route}

EntriesAt(place) ==
    LET hosts == IF place[1] THEN [vh \in DOMAIN svhosts |-> svhosts[vh].routes] ELSE vhosts
    IN  IF place[2] \in DOMAIN hosts THEN {e \in hosts[place[2]] : e.match = place[3]} ELSE {}

\* An HTTPRoute or GRPCRoute that is accepted without a partial conflict serves every
\* place it asks for, for good; only a GRPCRoute can take a place from an HTTPRoute.
AcceptedMeansServed ==
    \A n \in Processed : routes[n].kind \in {"HTTPRoute", "GRPCRoute"} =>
        \A o \in Offers(n) :
            /\ routeStatus[n][o.parent].Accepted = "True"
            /\ ~routeStatus[n][o.parent].PartiallyInvalid
            => \E e \in EntriesAt(o.place) :
                  e.route = n \/ (e.kind = "GRPCRoute" /\ routes[n].kind = "HTTPRoute")

Covers(listenerHostname, host) ==
    \/ listenerHostname = NoHostname
    \/ listenerHostname = host
    \/ IsWildcard(listenerHostname) /\ hostnameMatchesWildcardHostname(host, listenerHostname)

MoreSpecific(h, g) ==
    \/ ~IsWildcard(h) /\ h # NoHostname /\ (IsWildcard(g) \/ g = NoHostname)
    \/ IsWildcard(h) /\ (g = NoHostname \/ (IsWildcard(g) /\ Len(h) > Len(g)))

\* A route is served under a host only through a listener that it is attached to and that
\* covers the host, and never when a listener it is not attached to covers the host more
\* specifically.
ListenerIsolation ==
    \A vh \in DOMAIN vhosts \union DOMAIN svhosts :
        \A e \in (IF vh \in DOMAIN vhosts THEN vhosts[vh] ELSE {}) \union
                 (IF vh \in DOMAIN svhosts THEN svhosts[vh].routes ELSE {}) :
            \E i \in DOMAIN routes[e.route].parents :
                LET allowed == AllowedListeners(routes[e.route], routes[e.route].parents[i])
                IN  \E l \in allowed :
                        /\ dagListenerName(listeners[l]) = vh[1]
                        /\ vh[2] = AnyHost \/ Covers(listeners[l].hostname, vh[2])
                        /\ ~\E o \in Listeners \ allowed :
                                /\ listeners[o].hostname # NoHostname
                                /\ Covers(listeners[o].hostname, vh[2])
                                /\ MoreSpecific(listeners[o].hostname, listeners[l].hostname)

\* A listener with a missing or unusable namespace selector is reported on the Gateway's
\* status, and the build goes on.
BuildCompletes == step # "panicked"
=============================================================================
