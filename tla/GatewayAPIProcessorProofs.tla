--------------------- MODULE GatewayAPIProcessorProofs ---------------------
(***************************************************************************)
(* What holds of a run of the Gateway API processor for every Gateway,     *)
(* every list of routes and every order of the Go maps: the ports          *)
(* ValidateListeners hands out, the Envoy listener a route is put on, the  *)
(* hosts a route is served under, the routes that are blamed for a         *)
(* conflict, and what an accepted route serves.                            *)
(*                                                                         *)
(* Steps are followed through what they do to three things: the loop       *)
(* variables (Moves), the routes of the virtual hosts (EntriesAdded,       *)
(* EntriesKept) and the conditions of the routes (StatusStep).  What a     *)
(* route asks for depends on the inputs alone (AsksFixed).                 *)
(***************************************************************************)
EXTENDS GatewayAPIProcessor, TLAPS

-----------------------------------------------------------------------------
(* Ports *)

LEMMA PortType ==
    ASSUME NEW p \in PortNumbers
    PROVE  p \in Int /\ 1 <= p /\ p <= MaxPort
<1>1. MaxPort \in Int
  BY DEF MaxPort
<1> QED
  BY <1>1 DEF PortNumbers

\* Adding 8000, wrapping around and lifting never leaves the unprivileged ports.
LEMMA ContainerPortRange ==
    ASSUME NEW p \in Int, 1 <= p, p <= MaxPort
    PROVE  /\ toContainerPort(p) \in Int
           /\ 1024 <= toContainerPort(p) /\ toContainerPort(p) <= MaxPort
  BY DEF toContainerPort, MaxPort

\* toContainerPort sends two listener ports to one container port exactly when one is in
\* 57536-58558 and the other is 1023 above it, the ranges the comment in
\* ValidateListeners names.
THEOREM PortClash ==
    ASSUME NEW p \in Int, NEW q \in Int, 1 <= p, p < q, q <= MaxPort
    PROVE  toContainerPort(p) = toContainerPort(q)
              <=> 57536 <= p /\ p <= 58558 /\ q = p + 1023
  BY DEF toContainerPort, MaxPort

-----------------------------------------------------------------------------
(* ValidateListeners *)

\* Two listeners on one port without a conflict are of one protocol class.
LEMMA SameClass ==
    ASSUME NEW a \in Listener, NEW b \in Listener, a.port = b.port,
           a.protocol \in SupportedProtocols, b.protocol \in SupportedProtocols,
           Conflict(a, b) = "none"
    PROVE  dagListenerName(a) = dagListenerName(b) /\ a.hostname # b.hostname
<1>1. ~ProtocolsConflict(a.protocol, b.protocol) /\ a.hostname # b.hostname
  BY Zenon DEF Conflict
<1> QED
  BY Zenon, <1>1 DEF ProtocolsConflict, dagListenerName, SupportedProtocols, compatibleTLSProtocols

\* An earlier and a later listener that ValidateListeners lets through.
LEMMA PairCompatible ==
    ASSUME NEW ls \in Seq(Listener), NEW i \in DOMAIN ls, NEW j \in DOMAIN ls, j < i,
           IsValidListener(ls, i), IsValidListener(ls, j)
    PROVE  IF ls[i].port = ls[j].port
           THEN /\ dagListenerName(ls[i]) = dagListenerName(ls[j])
                /\ ls[i].hostname # ls[j].hostname
           ELSE toContainerPort(ls[i].port) # toContainerPort(ls[j].port)
<1>1. ls[i] \in Listener /\ ls[j] \in Listener /\ j \in 1..(i - 1)
  OBVIOUS
<1>2. Conflict(ls[i], ls[j]) = "none"
  BY Zenon, <1>1 DEF IsValidListener
<1>3. CASE ls[i].port = ls[j].port
  BY Zenon, <1>1, <1>2, <1>3, SameClass DEF IsValidListener
<1>4. CASE ls[i].port # ls[j].port
  BY Zenon, <1>2, <1>4 DEF Conflict
<1> QED
  BY Zenon, <1>3, <1>4

\* The listeners of every Gateway are compatible: the property is about the inputs.
LEMMA GatewayListenersCompatible ==
    ASSUME gateway \in Gateways
    PROVE  ListenersCompatible
<1> DEFINE valid == {l \in Listeners : IsValidListener(listeners, l)}
<1>1. listeners \in Seq(Listener)
  BY Zenon, GatewaysAssumption DEF listeners
<1> SUFFICES ASSUME NEW i \in valid, NEW j \in valid
             PROVE  /\ toContainerPort(listeners[i].port) \in 1024..MaxPort
                    /\ i # j =>
                         IF listeners[i].port = listeners[j].port
                         THEN /\ dagListenerName(listeners[i]) = dagListenerName(listeners[j])
                              /\ listeners[i].hostname # listeners[j].hostname
                         ELSE toContainerPort(listeners[i].port) # toContainerPort(listeners[j].port)
  BY Zenon DEF ListenersCompatible
<1>2. i \in DOMAIN listeners /\ j \in DOMAIN listeners /\ i \in Nat /\ j \in Nat
  BY <1>1 DEF Listeners
<1>3. toContainerPort(listeners[i].port) \in 1024..MaxPort
  <2>1. listeners[i].port \in PortNumbers
    <3>1. listeners[i] \in Listener
      BY <1>1, <1>2
    <3> QED
      BY Zenon, <3>1 DEF Listener
  <2>2. MaxPort \in Int
    BY DEF MaxPort
  <2>3. /\ toContainerPort(listeners[i].port) \in Int
        /\ 1024 <= toContainerPort(listeners[i].port)
        /\ toContainerPort(listeners[i].port) <= MaxPort
    BY <2>1, PortType, ContainerPortRange
  <2> QED
    BY <2>2, <2>3
<1>4. CASE j < i
  BY <1>1, <1>2, <1>3, <1>4, PairCompatible
<1>5. CASE i < j
  BY <1>1, <1>2, <1>3, <1>5, PairCompatible
<1>6. CASE i = j
  BY Zenon, <1>3, <1>6
<1> QED
  BY <1>2, <1>4, <1>5, <1>6

LEMMA InputsFixed ==
    ASSUME [GatewayNext]_gatewayVars
    PROVE  gateway' = gateway /\ routes' = routes /\ objects' = objects
  BY Zenon DEF GatewayNext, gatewayVars, inputs, NotConfigured, ComputeListeners, StartRoute, SkipParent,
         RejectForGateway, Panic, getListenersForRouteParentRef, StartListener, SkipRule,
         AddRule, DropRule, computeTLSRouteForListener, computeTCPRouteForListener, EndRules,
         EndParent, EndRoute, computeGatewayConditions

\* ValidateListeners gives the listeners it lets through one Envoy listener for a port and
\* one unprivileged container port for an Envoy listener, for every Gateway.
THEOREM ListenersCompatibleAlways == GatewaySpec => []ListenersCompatible
<1>1. GatewayInit => gateway \in Gateways
  BY Zenon DEF GatewayInit
<1>2. gateway \in Gateways /\ [GatewayNext]_gatewayVars => (gateway \in Gateways)'
  BY Zenon, InputsFixed
<1>3. gateway \in Gateways => ListenersCompatible
  BY Zenon, GatewayListenersCompatible
<1> QED
  BY <1>1, <1>2, <1>3, PTL DEF GatewaySpec

-----------------------------------------------------------------------------
(* The Envoy listener of a route *)

ReadyListeners == {l \in Listeners : IsReady(l)}

\* The loop variables are the fields of one record.
CurShape ==
    cur = [route |-> cur.route, parent |-> cur.parent, allowed |-> cur.allowed,
           left |-> cur.left, matched |-> cur.matched, listener |-> cur.listener,
           hosts |-> cur.hosts, rule |-> cur.rule, dropped |-> cur.dropped]

\* The inductive invariant: a route is only ever taken to listeners that are ready.
OnlyReady ==
    /\ gateway \in Gateways
    /\ CurShape
    /\ cur.left \subseteq ReadyListeners
    /\ step = "rule" => cur.listener \in ReadyListeners

\* A listener that is ready passed ValidateListeners, so its Envoy listener has a port.
LEMMA ReadyListenerExists ==
    ASSUME gateway \in Gateways, NEW l \in ReadyListeners
    PROVE  dagListenerName(listeners[l]) \in DagListeners
<1>1. listeners \in Seq(Listener)
  BY Zenon, GatewaysAssumption DEF listeners
<1>2. l \in 1..Len(listeners) /\ IsValidListener(listeners, l)
  BY <1>1 DEF ReadyListeners, Listeners, IsReady, Ready
<1> DEFINE port == [name |-> dagListenerName(listeners[l]), port |-> listeners[l].port,
                    containerPort |-> toContainerPort(listeners[l].port)]
<1>3. port \in Ports(listeners)
  BY Zenon, <1>2 DEF Ports
<1>4. port.name = dagListenerName(listeners[l])
  BY Zenon
<1> HIDE DEF port
<1> QED
  BY Zenon, <1>3, <1>4 DEF DagListeners

LEMMA ReadyFixed ==
    ASSUME [GatewayNext]_gatewayVars
    PROVE  ReadyListeners' = ReadyListeners
  BY Zenon, InputsFixed DEF ReadyListeners, Listeners, listeners, IsReady

LEMMA OnlyReadyInit == GatewayInit => OnlyReady
  BY DEF GatewayInit, OnlyReady, CurShape, Idle

LEMMA OnlyReadyStep == OnlyReady /\ [GatewayNext]_gatewayVars => OnlyReady'
<1> SUFFICES ASSUME OnlyReady, [GatewayNext]_gatewayVars PROVE OnlyReady'
  BY Zenon
<1>1. gateway' \in Gateways /\ ReadyListeners' = ReadyListeners
  BY Zenon, InputsFixed, ReadyFixed DEF OnlyReady
<1> DEFINE Goal == /\ CurShape'
                   /\ cur'.left \subseteq ReadyListeners
                   /\ step' = "rule" => cur'.listener \in ReadyListeners
<1> SUFFICES Goal
  BY Zenon, <1>1 DEF OnlyReady
<1>2. CASE NotConfigured \/ ComputeListeners \/ Panic \/ EndRules
  BY Zenon, <1>2 DEF OnlyReady, CurShape, NotConfigured, ComputeListeners, Panic, EndRules
<1>3. ASSUME NEW n \in left, StartRoute(n) PROVE Goal
  BY Zenon, <1>3 DEF CurShape, StartRoute, Idle
<1>4. CASE SkipParent \/ RejectForGateway \/ EndParent
  <2>1. NextParent
    BY Zenon, <1>4 DEF SkipParent, RejectForGateway, EndParent
  <2>2. step' = "parent"
    BY Zenon, <1>4 DEF SkipParent, RejectForGateway, EndParent, AtParent
  <2> QED
    BY Zenon, <2>1, <2>2 DEF NextParent, CurShape, Idle
<1>5. CASE getListenersForRouteParentRef
  <2>1. AllowedListeners(curRoute, curParent) \subseteq ReadyListeners
    BY Zenon DEF AllowedListeners, Attachable, Selected, ReadyListeners
  <2> QED
    BY Zenon, <1>5, <2>1 DEF getListenersForRouteParentRef, OnlyReady, CurShape
<1>6. ASSUME NEW l \in cur.left, StartListener(l) PROVE Goal
  BY Zenon, <1>6 DEF StartListener, OnlyReady, CurShape
<1>7. ASSUME NEW before \in SUBSET cur.hosts, DropRule(before) PROVE Goal
  BY Zenon, <1>7 DEF DropRule, AtRule, OnlyReady, CurShape
<1>8. CASE SkipRule \/ AddRule \/ computeTLSRouteForListener
  BY Zenon, <1>8 DEF SkipRule, AddRule, computeTLSRouteForListener, AtRule, OnlyReady, CurShape
<1>9. CASE computeTCPRouteForListener
  BY Zenon, <1>9 DEF computeTCPRouteForListener, OnlyReady, CurShape
<1>10. CASE EndRoute
  BY Zenon, <1>10 DEF EndRoute, CurShape, Idle
<1>11. CASE computeGatewayConditions
  BY Zenon, <1>11 DEF computeGatewayConditions, OnlyReady, CurShape
<1>12. CASE UNCHANGED gatewayVars
  BY Zenon, <1>12 DEF gatewayVars, OnlyReady, CurShape
<1> QED
  BY Zenon, <1>2, <1>3, <1>4, <1>5, <1>6, <1>7, <1>8, <1>9, <1>10, <1>11, <1>12 DEF GatewayNext

\* EnsureVirtualHost and the TCPProxy assignment find the Envoy listener of the route in
\* the DAG, for every Gateway, every set of routes and every order of the Go maps.
THEOREM ListenerExistsAlways == GatewaySpec => []ListenerExists
<1>1. OnlyReady => ListenerExists
  BY Zenon, ReadyListenerExists DEF OnlyReady, ListenerExists
<1> QED
  BY <1>1, OnlyReadyInit, OnlyReadyStep, PTL DEF GatewaySpec

-----------------------------------------------------------------------------
(* Hosts *)

LEMMA WildcardLength ==
    ASSUME NEW h \in Seq(STRING), NEW w \in Seq(STRING), hostnameMatchesWildcardHostname(h, w)
    PROVE  Len(w) <= Len(h)
  BY DEF hostnameMatchesWildcardHostname

\* A listener's own hostname belongs to no other listener more specifically.
LEMMA OwnHostname ==
    ASSUME NEW lh \in Seq(STRING), NEW o \in Seq(STRING), Covers(o, lh), o # NoHostname
    PROVE  ~MoreSpecific(o, lh)
<1>1. CASE o = lh
  BY <1>1 DEF MoreSpecific, NoHostname, IsWildcard
<1>2. CASE o # lh
  <2>1. IsWildcard(o) /\ Len(o) <= Len(lh)
    BY <1>2, WildcardLength DEF Covers
  <2>2. Len(o) # 0 /\ Len(o) \in Nat /\ Len(lh) \in Nat /\ Len(NoHostname) = 0
    BY DEF NoHostname
  <2>. QED  BY <2>1, <2>2 DEF MoreSpecific
<1>. QED  BY Zenon, <1>1, <1>2

\* A host that otherListenerIntersection does not find belongs to no other listener.
LEMMA NotShadowed ==
    ASSUME NEW h \in Seq(STRING), NEW lh \in Seq(STRING), NEW others, others \subseteq Seq(STRING),
           ~Shadowed(h, lh, others), NEW o \in others, Covers(o, h), o # NoHostname
    PROVE  ~MoreSpecific(o, lh)
<1>1. IsWildcard(o) /\ ~(Len(o) > Len(lh))
  BY Zenon DEF Shadowed, Covers
<1>2. Len(o) # 0 /\ Len(o) \in Nat /\ Len(NoHostname) = 0
  BY DEF NoHostname
<1>. QED  BY <1>1, <1>2 DEF MoreSpecific

\* computeHosts gives hosts the listener covers and no other listener covers more specifically.
LEMMA HostsCovered ==
    ASSUME NEW hostnames, hostnames \subseteq Seq(STRING) \ {NoHostname},
           NEW lh \in Seq(STRING) \ {AnyHost},
           NEW others, others \subseteq Seq(STRING) \ {NoHostname, AnyHost},
           NEW h \in computeHosts(hostnames, lh, others)
    PROVE  /\ h = AnyHost \/ Covers(lh, h)
           /\ \A o \in others : Covers(o, h) => ~MoreSpecific(o, lh)
<1>1. CASE hostnames = {} /\ lh # NoHostname
  <2>1. h = lh
    BY Zenon, <1>1 DEF computeHosts
  <2>. QED  BY Zenon, <2>1, OwnHostname DEF Covers
<1>2. CASE hostnames = {} /\ lh = NoHostname
  <2>1. h = AnyHost
    BY Zenon, <1>2 DEF computeHosts
  <2>2. ASSUME NEW o \in others, Covers(o, h)  PROVE FALSE
    <3>1. IsWildcard(o) /\ o \in Seq(STRING) /\ o # AnyHost /\ o # NoHostname
      BY Zenon, <2>1, <2>2 DEF Covers
    <3>2. hostnameMatchesWildcardHostname(AnyHost, o)
      BY Zenon, <2>1, <2>2, <3>1 DEF Covers
    <3>3. Len(o) <= 1
      BY <3>1, <3>2 DEF hostnameMatchesWildcardHostname, AnyHost
    <3>4. Len(o) = 1 /\ o[1] = "*"
      BY <3>1, <3>3 DEF IsWildcard, NoHostname
    <3>5. o = <<o[1]>>
      BY <3>1, <3>4
    <3>. QED  BY Zenon, <3>1, <3>4, <3>5 DEF AnyHost
  <2>. QED  BY Zenon, <2>1, <2>2
<1>3. CASE hostnames # {}
  <2>1. PICK g \in hostnames : h \in HostsFor(g, lh, others)
    BY Zenon, <1>3 DEF computeHosts
  <2>2. CASE lh = NoHostname
    <3>1. h = g /\ ~Shadowed(g, lh, others)
      BY <2>1, <2>2 DEF HostsFor
    <3>. QED  BY Zenon, <2>2, <3>1, NotShadowed DEF Covers
  <2>3. CASE lh # NoHostname /\ lh = g
    <3>1. h = lh
      BY <2>1, <2>3 DEF HostsFor
    <3>. QED  BY Zenon, <3>1, OwnHostname DEF Covers
  <2>4. CASE lh # NoHostname /\ lh # g /\ IsWildcard(lh)
    <3>1. h = g /\ ~Shadowed(g, lh, others) /\ hostnameMatchesWildcardHostname(g, lh)
      BY <2>1, <2>4 DEF HostsFor
    <3>. QED  BY Zenon, <2>4, <3>1, NotShadowed DEF Covers
  <2>5. CASE lh # NoHostname /\ lh # g /\ ~IsWildcard(lh)
    <3>1. h = lh
      BY <2>1, <2>5 DEF HostsFor
    <3>. QED  BY Zenon, <3>1, OwnHostname DEF Covers
  <2>. QED  BY Zenon, <2>2, <2>3, <2>4, <2>5
<1>. QED  BY Zenon, <1>1, <1>2, <1>3

-----------------------------------------------------------------------------
(* What a route asks for.  The definitions take indices, which a step leaves *)
(* alone: what they say of a route does not change during a run.             *)

Allowed(n, i) == AllowedListeners(routes[n], routes[n].parents[i])
HostsOf(n, i, l) == HostsAt(routes[n], routes[n].parents[i], l)
KeysOf(n, r) == Keys(routes[n], routes[n].rules[r])

\* Route n asks, with rule r, for match k of virtual host vh (secure or not, as s says) through
\* its reference i and listener l.
Offered(n, i, l, r, s, vh, k) ==
    /\ i \in DOMAIN routes[n].parents /\ IsRefToGateway(routes[n].parents[i])
    /\ l \in Allowed(n, i)
    /\ r \in Asking(routes[n])
    /\ k \in KeysOf(n, r)
    /\ s <=> Secure(l)
    /\ \E h \in HostsOf(n, i, l) : vh = VirtualHost(l, h)

Excused(n) == OlderRival(n) \/ AsksTwice(n) \/ Len(routes[n].rules) = 0

Before(m, n) ==
    /\ ~(routes[m].kind = "GRPCRoute" /\ routes[n].kind = "HTTPRoute")
    /\ routes[m].kind = routes[n].kind /\ routes[m].kind \in {"HTTPRoute", "GRPCRoute"} => HasPrecedence(m, n)

LEMMA AsksFixed ==
    ASSUME [GatewayNext]_gatewayVars
    PROVE  /\ gateway' = gateway /\ routes' = routes /\ objects' = objects
           /\ \A l : Secure(l)' <=> Secure(l)
           /\ \A l, h : VirtualHost(l, h)' = VirtualHost(l, h)
           /\ \A n, i : Allowed(n, i)' = Allowed(n, i)
           /\ \A n, i, l : HostsOf(n, i, l)' = HostsOf(n, i, l)
           /\ \A n, r : KeysOf(n, r)' = KeysOf(n, r)
           /\ \A n, i, l, r, s, vh, k : Offered(n, i, l, r, s, vh, k)' <=> Offered(n, i, l, r, s, vh, k)
           /\ \A m, n : Before(m, n)' <=> Before(m, n)
<1>1. gateway' = gateway /\ routes' = routes /\ objects' = objects
  BY Zenon, InputsFixed
<1>2. listeners' = listeners /\ Listeners' = Listeners
  BY Zenon, <1>1 DEF listeners, Listeners
<1>3. /\ \A l : Secure(l)' <=> Secure(l)
      /\ \A l, h : VirtualHost(l, h)' = VirtualHost(l, h)
  BY Zenon, <1>1, <1>2 DEF Secure, VirtualHost
<1>4. \A n, i : Allowed(n, i)' = Allowed(n, i)
  BY <1>1, <1>2 DEF Allowed, AllowedListeners, Attachable, Selected, AllowsKind, namespaceMatches, IsReady
<1>5. \A n, i, l : HostsOf(n, i, l)' = HostsOf(n, i, l)
  BY <1>1, <1>2 DEF HostsOf, HostsAt, otherListenerHostnames, AllowedListeners, Attachable,
     Selected, AllowsKind, namespaceMatches, IsReady
<1>6. \A n, r : KeysOf(n, r)' = KeysOf(n, r)
  BY Zenon, <1>1 DEF KeysOf
<1>7. \A n, i, l, r, s, vh, k : Offered(n, i, l, r, s, vh, k)' <=> Offered(n, i, l, r, s, vh, k)
  <2>. TAKE n, i, l, r, s, vh, k
  <2>. USE DEF Offered
  <2>1. (\E h \in HostsOf(n, i, l) : vh = VirtualHost(l, h))' <=> (\E h \in HostsOf(n, i, l) : vh = VirtualHost(l, h))
    BY Zenon, <1>3, <1>5
  <2>. QED  BY Zenon, <1>1, <1>3, <1>4, <1>6, <2>1
<1>8. \A m, n : Before(m, n)' <=> Before(m, n)
  BY Zenon, <1>1 DEF Before, HasPrecedence
<1>. QED  BY Zenon, <1>1, <1>3, <1>4, <1>5, <1>6, <1>7, <1>8

\* The offers of a route are the places it asks for.
LEMMA OfferIs ==
    ASSUME NEW n, NEW i, NEW l, NEW r, NEW h, NEW k,
           i \in DOMAIN routes[n].parents, IsRefToGateway(routes[n].parents[i]),
           l \in Allowed(n, i), r \in Asking(routes[n]), h \in HostsOf(n, i, l), k \in KeysOf(n, r)
    PROVE  [parent |-> i, listener |-> l, rule |-> r, place |-> Place(l, h, k)] \in Offers(n)
  BY DEF Offers, Allowed, HostsOf, KeysOf

LEMMA OfferFor ==
    ASSUME NEW n, NEW o \in Offers(n)
    PROVE  \E i, l, r, h, k :
              /\ i \in DOMAIN routes[n].parents /\ IsRefToGateway(routes[n].parents[i])
              /\ l \in Allowed(n, i) /\ r \in Asking(routes[n])
              /\ h \in HostsOf(n, i, l) /\ k \in KeysOf(n, r)
              /\ o = [parent |-> i, listener |-> l, rule |-> r, place |-> Place(l, h, k)]
  BY DEF Offers, Allowed, HostsOf, KeysOf

LEMMA RoutesTyped ==
    ASSUME routes \in RouteLists
    PROVE  /\ 0 \notin DOMAIN routes
           /\ \A n \in DOMAIN routes :
                /\ routes[n].kind \in RouteKinds
                /\ routes[n].hostnames \subseteq Seq(STRING) \ {NoHostname}
                /\ Len(routes[n].parents) \in Nat /\ DOMAIN routes[n].parents = 1..Len(routes[n].parents)
                /\ Len(routes[n].rules) \in Nat /\ DOMAIN routes[n].rules = 1..Len(routes[n].rules)
<1>1. routes \in Seq(RouteSpec)
  BY Zenon, RouteListsAssumption
<1>2. 0 \notin DOMAIN routes /\ \A n \in DOMAIN routes : routes[n] \in RouteSpec
  BY <1>1
<1>3. ASSUME NEW n \in DOMAIN routes
      PROVE  /\ routes[n].kind \in RouteKinds
             /\ routes[n].hostnames \subseteq Seq(STRING) \ {NoHostname}
             /\ routes[n].parents \in Seq(ParentReference) /\ routes[n].rules \in Seq(RouteRule)
  BY Zenon, <1>2 DEF RouteSpec
<1>4. ASSUME NEW n \in DOMAIN routes
      PROVE  /\ Len(routes[n].parents) \in Nat /\ DOMAIN routes[n].parents = 1..Len(routes[n].parents)
             /\ Len(routes[n].rules) \in Nat /\ DOMAIN routes[n].rules = 1..Len(routes[n].rules)
  BY <1>3
<1>. QED  BY Zenon, <1>2, <1>3, <1>4

-----------------------------------------------------------------------------
(* The routes of the virtual hosts *)

\* The routes of a secure (s) or plain virtual host.
Entries(s, vh) ==
    IF s THEN IF vh \in DOMAIN svhosts THEN svhosts[vh].routes ELSE NoEntries
    ELSE IF vh \in DOMAIN vhosts THEN vhosts[vh] ELSE NoEntries

HostsShape ==
    \A vh \in DOMAIN svhosts :
        svhosts[vh] = [secret |-> svhosts[vh].secret, tcpProxy |-> svhosts[vh].tcpProxy,
                       routes |-> svhosts[vh].routes]

LEMMA EnsureIs ==
    ASSUME NEW hosts, NEW vhs, NEW new
    PROVE  /\ DOMAIN Ensure(hosts, vhs, new) = DOMAIN hosts \union vhs
           /\ \A vh \in DOMAIN hosts : Ensure(hosts, vhs, new)[vh] = hosts[vh]
           /\ \A vh \in vhs : vh \notin DOMAIN hosts => Ensure(hosts, vhs, new)[vh] = new
  BY Zenon DEF Ensure

LEMMA EntriesOfEnsured ==
    ASSUME HostsShape, NEW vhs
    PROVE  LET plain == Ensure(vhosts, vhs, NoEntries)
               secure == Ensure(svhosts, vhs, NoSecureHost)
           IN  /\ \A vh \in DOMAIN plain : plain[vh] = Entries(FALSE, vh)
               /\ \A vh : vh \notin DOMAIN plain => Entries(FALSE, vh) = NoEntries
               /\ \A vh \in DOMAIN secure : /\ secure[vh].routes = Entries(TRUE, vh)
                                            /\ secure[vh] = [secret |-> secure[vh].secret,
                                                             tcpProxy |-> secure[vh].tcpProxy,
                                                             routes |-> secure[vh].routes]
               /\ \A vh : vh \notin DOMAIN secure => Entries(TRUE, vh) = NoEntries
<1>. DEFINE plain == Ensure(vhosts, vhs, NoEntries)
            secure == Ensure(svhosts, vhs, NoSecureHost)
<1>1. /\ DOMAIN plain = DOMAIN vhosts \union vhs
      /\ \A vh \in DOMAIN vhosts : plain[vh] = vhosts[vh]
      /\ \A vh \in vhs : vh \notin DOMAIN vhosts => plain[vh] = NoEntries
  BY Zenon, EnsureIs
<1>2. /\ DOMAIN secure = DOMAIN svhosts \union vhs
      /\ \A vh \in DOMAIN svhosts : secure[vh] = svhosts[vh]
      /\ \A vh \in vhs : vh \notin DOMAIN svhosts => secure[vh] = NoSecureHost
  BY Zenon, EnsureIs
<1>3. /\ NoSecureHost.routes = NoEntries
      /\ NoSecureHost = [secret |-> NoSecureHost.secret, tcpProxy |-> NoSecureHost.tcpProxy,
                         routes |-> NoSecureHost.routes]
  BY DEF NoSecureHost
<1>. HIDE DEF plain, secure
<1>4. /\ \A vh \in DOMAIN plain : plain[vh] = Entries(FALSE, vh)
      /\ \A vh : vh \notin DOMAIN plain => Entries(FALSE, vh) = NoEntries
  BY Zenon, <1>1 DEF Entries
<1>5. /\ \A vh \in DOMAIN secure : secure[vh].routes = Entries(TRUE, vh)
      /\ \A vh : vh \notin DOMAIN secure => Entries(TRUE, vh) = NoEntries
  BY Zenon, <1>2, <1>3 DEF Entries
<1>6. ASSUME NEW vh \in DOMAIN secure
      PROVE  secure[vh] = [secret |-> secure[vh].secret, tcpProxy |-> secure[vh].tcpProxy,
                           routes |-> secure[vh].routes]
  BY Zenon, <1>2, <1>3 DEF HostsShape
<1>. QED  BY Zenon, <1>4, <1>5, <1>6 DEF plain, secure

\* A TCPProxy leaves the routes of its virtual hosts alone.
LEMMA EntriesAfterTCPProxy ==
    ASSUME HostsShape, NEW l, NEW vhs, NEW n, SetTCPProxy(l, vhs, n)
    PROVE  HostsShape' /\ \A vh : Entries(TRUE, vh)' = Entries(TRUE, vh)
<1>. DEFINE secure == Ensure(svhosts, vhs, NoSecureHost)
            new(vh) == [secret |-> IF Secure(l) THEN tlsSecret(listeners, l, objects) ELSE secure[vh].secret,
                        tcpProxy |-> n, routes |-> secure[vh].routes]
<1>1. /\ \A vh \in DOMAIN secure : /\ secure[vh].routes = Entries(TRUE, vh)
                                   /\ secure[vh] = [secret |-> secure[vh].secret,
                                                    tcpProxy |-> secure[vh].tcpProxy,
                                                    routes |-> secure[vh].routes]
      /\ \A vh : vh \notin DOMAIN secure => Entries(TRUE, vh) = NoEntries
  BY Zenon, EntriesOfEnsured
<1>2. svhosts' = [vh \in DOMAIN secure |-> IF vh \in vhs THEN new(vh) ELSE secure[vh]]
  BY Zenon DEF SetTCPProxy
<1>. HIDE DEF secure
<1>3. ASSUME NEW vh \in DOMAIN secure
      PROVE  /\ new(vh).routes = secure[vh].routes
             /\ new(vh) = [secret |-> new(vh).secret, tcpProxy |-> new(vh).tcpProxy, routes |-> new(vh).routes]
  BY Zenon
<1>. HIDE DEF new
<1>4. DOMAIN svhosts' = DOMAIN secure /\ \A vh \in DOMAIN secure : svhosts'[vh] \in {new(vh), secure[vh]}
  BY Zenon, <1>2
<1>5. \A vh \in DOMAIN svhosts' : /\ svhosts'[vh].routes = secure[vh].routes
                                  /\ svhosts'[vh] = [secret |-> svhosts'[vh].secret,
                                                     tcpProxy |-> svhosts'[vh].tcpProxy,
                                                     routes |-> svhosts'[vh].routes]
  BY Zenon, <1>1, <1>3, <1>4
<1>. QED  BY Zenon, <1>1, <1>4, <1>5 DEF HostsShape, Entries

\* hasConflictRoute adds virtual hosts without routes.
LEMMA EntriesAfterEnsure ==
    ASSUME HostsShape, NEW l, NEW vhs, EnsureVirtualHosts(l, vhs)
    PROVE  HostsShape' /\ \A s, vh : Entries(s, vh)' = Entries(s, vh)
<1>. DEFINE plain == Ensure(vhosts, vhs, NoEntries)
            secure == Ensure(svhosts, vhs, NoSecureHost)
<1>1. /\ \A vh \in DOMAIN plain : plain[vh] = Entries(FALSE, vh)
      /\ \A vh : vh \notin DOMAIN plain => Entries(FALSE, vh) = NoEntries
      /\ \A vh \in DOMAIN secure : /\ secure[vh].routes = Entries(TRUE, vh)
                                   /\ secure[vh] = [secret |-> secure[vh].secret,
                                                    tcpProxy |-> secure[vh].tcpProxy,
                                                    routes |-> secure[vh].routes]
      /\ \A vh : vh \notin DOMAIN secure => Entries(TRUE, vh) = NoEntries
  BY Zenon, EntriesOfEnsured
<1>2. vhosts' \in {vhosts, plain} /\ svhosts' \in {svhosts, secure}
  BY Zenon DEF EnsureVirtualHosts
<1>. HIDE DEF plain, secure
<1>3. \A vh : Entries(FALSE, vh)' = Entries(FALSE, vh)
  BY Zenon, <1>1, <1>2 DEF Entries
<1>4. HostsShape' /\ \A vh : Entries(TRUE, vh)' = Entries(TRUE, vh)
  BY Zenon, <1>1, <1>2 DEF Entries, HostsShape
<1>. QED  BY Zenon, <1>3, <1>4 DEF Entries

\* The entry AddRoute makes for match k of rule r of route n.
Entry(n, r, k) ==
    [match |-> k, kind |-> routes[n].kind, route |-> n, rule |-> r,
     action |-> Action(routes[n], routes[n].rules[r])]

\* A rule that is added changes the routes of the virtual hosts it is added to.
LEMMA EntriesAdded ==
    ASSUME HostsShape, NEW l, NEW vhs, NEW n, NEW r, NEW keys, AddToVirtualHosts(l, vhs, n, r, keys)
    PROVE  /\ HostsShape'
           /\ \A s, vh : Entries(s, vh)' = IF (s <=> Secure(l)) /\ vh \in vhs
                                           THEN PutRoutes(Entries(s, vh), n, r, keys) ELSE Entries(s, vh)
<1>. DEFINE plain == Ensure(vhosts, vhs, NoEntries)
            secure == Ensure(svhosts, vhs, NoSecureHost)
            new(vh) == [secret |-> tlsSecret(listeners, l, objects), tcpProxy |-> secure[vh].tcpProxy,
                        routes |-> PutRoutes(secure[vh].routes, n, r, keys)]
<1>1. /\ DOMAIN plain = DOMAIN vhosts \union vhs
      /\ \A vh \in DOMAIN plain : plain[vh] = Entries(FALSE, vh)
      /\ \A vh : vh \notin DOMAIN plain => Entries(FALSE, vh) = NoEntries
  BY Zenon, EntriesOfEnsured, EnsureIs
<1>2. /\ DOMAIN secure = DOMAIN svhosts \union vhs
      /\ \A vh \in DOMAIN secure : /\ secure[vh].routes = Entries(TRUE, vh)
                                   /\ secure[vh] = [secret |-> secure[vh].secret,
                                                    tcpProxy |-> secure[vh].tcpProxy,
                                                    routes |-> secure[vh].routes]
      /\ \A vh : vh \notin DOMAIN secure => Entries(TRUE, vh) = NoEntries
  BY Zenon, EntriesOfEnsured, EnsureIs
<1>3. /\ vhosts' = IF Secure(l) THEN vhosts
                   ELSE [vh \in DOMAIN plain |-> IF vh \in vhs THEN PutRoutes(plain[vh], n, r, keys) ELSE plain[vh]]
      /\ svhosts' = IF ~Secure(l) THEN svhosts
                    ELSE [vh \in DOMAIN secure |-> IF vh \in vhs THEN new(vh) ELSE secure[vh]]
  BY Zenon DEF AddToVirtualHosts
<1>. HIDE DEF plain, secure
<1>4. ASSUME NEW vh
      PROVE  /\ new(vh).routes = PutRoutes(secure[vh].routes, n, r, keys)
             /\ new(vh) = [secret |-> new(vh).secret, tcpProxy |-> new(vh).tcpProxy, routes |-> new(vh).routes]
  BY Zenon
<1>. HIDE DEF new
<1>5. CASE Secure(l)
  <2>1. vhosts' = vhosts /\ svhosts' = [vh \in DOMAIN secure |-> IF vh \in vhs THEN new(vh) ELSE secure[vh]]
    BY Zenon, <1>3, <1>5
  <2>2. DOMAIN svhosts' = DOMAIN secure
    BY Zenon, <2>1
  <2>3. \A vh \in DOMAIN secure : svhosts'[vh] = IF vh \in vhs THEN new(vh) ELSE secure[vh]
    BY Zenon, <2>1
  <2>4. HostsShape'
    BY Zenon, <1>2, <1>4, <2>2, <2>3 DEF HostsShape
  <2>5. \A vh : Entries(FALSE, vh)' = Entries(FALSE, vh)
    BY Zenon, <2>1 DEF Entries
  <2>6. \A vh : Entries(TRUE, vh)' = IF vh \in vhs THEN PutRoutes(Entries(TRUE, vh), n, r, keys)
                                     ELSE Entries(TRUE, vh)
    <3>. TAKE vh
    <3>1. CASE vh \in vhs
      BY Zenon, <1>2, <1>4, <2>2, <2>3, <3>1 DEF Entries
    <3>2. CASE vh \notin vhs
      BY Zenon, <1>2, <2>2, <2>3, <3>2 DEF Entries
    <3>. QED  BY Zenon, <3>1, <3>2
  <2>. QED  BY Zenon, <1>5, <2>4, <2>5, <2>6 DEF Entries
<1>6. CASE ~Secure(l)
  <2>1. svhosts' = svhosts /\ vhosts' = [vh \in DOMAIN plain |-> IF vh \in vhs THEN PutRoutes(plain[vh], n, r, keys)
                                                                 ELSE plain[vh]]
    BY Zenon, <1>3, <1>6
  <2>2. DOMAIN vhosts' = DOMAIN plain
    BY Zenon, <2>1
  <2>3. \A vh \in DOMAIN plain : vhosts'[vh] = IF vh \in vhs THEN PutRoutes(plain[vh], n, r, keys) ELSE plain[vh]
    BY Zenon, <2>1
  <2>4. HostsShape' /\ \A vh : Entries(TRUE, vh)' = Entries(TRUE, vh)
    BY Zenon, <2>1 DEF Entries, HostsShape
  <2>5. \A vh : Entries(FALSE, vh)' = IF vh \in vhs THEN PutRoutes(Entries(FALSE, vh), n, r, keys)
                                      ELSE Entries(FALSE, vh)
    <3>. TAKE vh
    <3>1. CASE vh \in vhs
      BY Zenon, <1>1, <2>2, <2>3, <3>1 DEF Entries
    <3>2. CASE vh \notin vhs
      BY Zenon, <1>1, <2>2, <2>3, <3>2 DEF Entries
    <3>. QED  BY Zenon, <3>1, <3>2
  <2>. QED  BY Zenon, <1>6, <2>4, <2>5 DEF Entries
<1>. QED  BY Zenon, <1>5, <1>6

\* No other step does.
LEMMA EntriesKept ==
    ASSUME HostsShape, [GatewayNext]_gatewayVars, ~AddRule
    PROVE  HostsShape' /\ \A s, vh : Entries(s, vh)' = Entries(s, vh)
<1>1. CASE vhosts' = vhosts /\ svhosts' = svhosts
  BY Zenon, <1>1 DEF HostsShape, Entries
<1>2. ASSUME NEW before \in SUBSET cur.hosts, DropRule(before)
      PROVE  HostsShape' /\ \A s, vh : Entries(s, vh)' = Entries(s, vh)
  BY Zenon, <1>2, EntriesAfterEnsure DEF DropRule
<1>3. CASE computeTLSRouteForListener \/ computeTCPRouteForListener
  <2>1. CASE svhosts' = svhosts
    BY Zenon, <1>1, <1>3, <2>1 DEF computeTLSRouteForListener, computeTCPRouteForListener, dag
  <2>2. CASE svhosts' # svhosts
    <3>1. vhosts' = vhosts /\ \E l, vhs, n : SetTCPProxy(l, vhs, n)
      BY Zenon, <1>3, <2>2 DEF computeTLSRouteForListener, computeTCPRouteForListener, dag
    <3>2. HostsShape' /\ \A vh : Entries(TRUE, vh)' = Entries(TRUE, vh)
      BY Zenon, <3>1, EntriesAfterTCPProxy
    <3>. QED  BY Zenon, <3>1, <3>2 DEF Entries
  <2>. QED  BY Zenon, <2>1, <2>2
<1>4. CASE NotConfigured \/ ComputeListeners \/ SkipParent \/ RejectForGateway \/ Panic
           \/ getListenersForRouteParentRef \/ SkipRule \/ EndRules \/ EndParent \/ EndRoute
           \/ computeGatewayConditions \/ UNCHANGED gatewayVars
           \/ (\E n \in left : StartRoute(n)) \/ (\E l \in cur.left : StartListener(l))
  BY Zenon, <1>1, <1>4 DEF NotConfigured, ComputeListeners, SkipParent, RejectForGateway, Panic,
     getListenersForRouteParentRef, SkipRule, EndRules, EndParent, EndRoute, computeGatewayConditions,
     gatewayVars, dag, StartRoute, StartListener
<1>. QED  BY Zenon, <1>2, <1>3, <1>4 DEF GatewayNext

-----------------------------------------------------------------------------
(* The walk: how a step moves the loop variables of Run and processRoute *)

AroundRoutes ==
    /\ step \in {"start", "routes"} /\ step' \in {"routes", "done"}
    /\ cur' = cur /\ left' = left /\ CurShape'

RouteTaken(n) ==
    /\ step = "routes" /\ step' = "parent" /\ n \in left /\ n \in NextRoutes
    /\ left' = left \ {n} /\ cur'.route = n /\ cur'.parent = 1 /\ CurShape'

ParentDone ==
    /\ step' = "parent" /\ left' = left
    /\ cur'.route = cur.route /\ cur'.parent = cur.parent + 1 /\ CurShape'
    /\ \/ AtParent /\ ~IsRefToGateway(curParent)
       \/ RejectForGateway
       \/ step = "listener" /\ cur.left = {}

Halted == step = "parent" /\ step' = "panicked" /\ cur' = cur /\ left' = left /\ CurShape'

ListenersFound ==
    /\ AtParent /\ IsRefToGateway(curParent)
    /\ step' = "listener" /\ left' = left /\ CurShape'
    /\ cur'.route = cur.route /\ cur'.parent = cur.parent
    /\ cur'.allowed = AllowedListeners(curRoute, curParent) /\ cur'.left = cur'.allowed

ListenerTaken(l) ==
    /\ step = "listener" /\ l \in cur.left /\ left' = left /\ CurShape'
    /\ cur'.route = cur.route /\ cur'.parent = cur.parent /\ cur'.allowed = cur.allowed
    /\ cur'.left = cur.left \ {l} /\ cur'.listener = l /\ cur'.rule = 1 /\ cur'.dropped = 0
    /\ step' \in {"listener", "rule"}
    /\ curRoute.kind # "TCPRoute" =>
          /\ cur'.hosts = computeHosts(curRoute.hostnames, listeners[l].hostname, otherListenerHostnames(cur.allowed))
          /\ step' = "listener" => cur'.hosts = {}

RuleDone ==
    /\ step = "rule" /\ step' = "rule" /\ left' = left /\ CurShape'
    /\ cur'.route = cur.route /\ cur'.parent = cur.parent /\ cur'.allowed = cur.allowed
    /\ cur'.left = cur.left /\ cur'.listener = cur.listener /\ cur'.hosts = cur.hosts
    /\ cur'.rule = cur.rule + 1
    /\ cur'.dropped = cur.dropped \/ cur'.dropped = cur.dropped + 1

ListenerDone ==
    /\ step = "rule" /\ step' = "listener" /\ cur' = cur /\ left' = left /\ CurShape'
    /\ curRoute.kind # "TCPRoute" => cur.rule > Len(curRoute.rules)

RouteDone ==
    /\ step = "parent" /\ step' = "routes" /\ left' = left /\ CurShape'
    /\ cur.parent > Len(curRoute.parents) /\ cur'.route = 0

Standing == step' = step /\ cur' = cur /\ left' = left /\ CurShape'

LEMMA Moves ==
    ASSUME CurShape, [GatewayNext]_gatewayVars
    PROVE  \/ AroundRoutes \/ (\E n : RouteTaken(n)) \/ ParentDone \/ Halted \/ ListenersFound
           \/ (\E l : ListenerTaken(l)) \/ RuleDone \/ ListenerDone \/ RouteDone \/ Standing
<1>1. CASE NotConfigured \/ ComputeListeners \/ computeGatewayConditions
  BY Zenon, <1>1 DEF NotConfigured, ComputeListeners, computeGatewayConditions, AroundRoutes, CurShape
<1>2. ASSUME NEW n \in left, StartRoute(n) PROVE RouteTaken(n)
  BY Zenon, <1>2 DEF StartRoute, RouteTaken, CurShape, Idle
<1>3. CASE SkipParent \/ RejectForGateway \/ EndParent
  <2>1. step' = "parent" /\ left' = left
    BY Zenon, <1>3 DEF SkipParent, RejectForGateway, EndParent, AtParent
  <2>2. NextParent
    BY Zenon, <1>3 DEF SkipParent, RejectForGateway, EndParent
  <2>3. cur'.route = cur.route /\ cur'.parent = cur.parent + 1 /\ CurShape'
    BY Zenon, <2>2 DEF NextParent, CurShape, Idle
  <2>4. \/ AtParent /\ ~IsRefToGateway(curParent)
        \/ RejectForGateway
        \/ step = "listener" /\ cur.left = {}
    BY Zenon, <1>3 DEF SkipParent, EndParent
  <2>. QED  BY Zenon, <2>1, <2>3, <2>4 DEF ParentDone
<1>4. CASE Panic
  BY Zenon, <1>4 DEF Panic, AtParent, Halted, CurShape
<1>5. CASE getListenersForRouteParentRef
  BY Zenon, <1>5 DEF getListenersForRouteParentRef, ListenersFound, CurShape
<1>6. ASSUME NEW l \in cur.left, StartListener(l) PROVE ListenerTaken(l)
  <2>. DEFINE hosts == IF curRoute.kind = "TCPRoute" THEN {}
                       ELSE computeHosts(curRoute.hostnames, listeners[l].hostname,
                                         otherListenerHostnames(cur.allowed))
  <2>1. /\ step = "listener" /\ left' = left
        /\ cur' = [cur EXCEPT !.left = @ \ {l}, !.listener = l, !.hosts = hosts,
                              !.matched = @ \/ hosts # {}, !.rule = 1, !.dropped = 0]
        /\ step' = IF curRoute.kind # "TCPRoute" /\ hosts = {} THEN "listener" ELSE "rule"
    BY Zenon, <1>6 DEF StartListener
  <2>2. /\ CurShape' /\ cur'.route = cur.route /\ cur'.parent = cur.parent /\ cur'.allowed = cur.allowed
        /\ cur'.left = cur.left \ {l} /\ cur'.listener = l /\ cur'.rule = 1 /\ cur'.dropped = 0
        /\ cur'.hosts = hosts
    <3>. HIDE DEF hosts
    <3>. QED  BY Zenon, <2>1 DEF CurShape
  <2>. QED  BY Zenon, <2>1, <2>2 DEF ListenerTaken
<1>7. ASSUME NEW before \in SUBSET cur.hosts, DropRule(before) PROVE RuleDone
  BY Zenon, <1>7 DEF DropRule, AtRule, RuleDone, CurShape
<1>8. CASE SkipRule \/ AddRule \/ computeTLSRouteForListener
  BY Zenon, <1>8 DEF SkipRule, AddRule, computeTLSRouteForListener, AtRule, RuleDone, CurShape
<1>9. CASE computeTCPRouteForListener \/ EndRules
  BY Zenon, <1>9 DEF computeTCPRouteForListener, EndRules, ListenerDone, CurShape
<1>10. CASE EndRoute
  BY Zenon, <1>10 DEF EndRoute, RouteDone, CurShape, Idle
<1>11. CASE UNCHANGED gatewayVars
  BY Zenon, <1>11 DEF gatewayVars, Standing, CurShape
<1>. QED  BY Zenon, <1>1, <1>2, <1>3, <1>4, <1>5, <1>6, <1>7, <1>8, <1>9, <1>10, <1>11 DEF GatewayNext

\* Where the walk is.
AtListener(n, i) ==
    /\ i \in DOMAIN routes[n].parents /\ IsRefToGateway(routes[n].parents[i])
    /\ cur.allowed = Allowed(n, i) /\ cur.left \subseteq cur.allowed

InRules(n, i, l) ==
    /\ l \in cur.allowed \ cur.left
    /\ cur.rule \in Nat /\ cur.rule > 0 /\ cur.dropped \in Nat
    /\ routes[n].kind # "TCPRoute" => cur.hosts = HostsOf(n, i, l)

Walk ==
    /\ gateway \in Gateways /\ routes \in RouteLists
    /\ CurShape /\ HostsShape
    /\ left \subseteq DOMAIN routes
    /\ step \in {"start", "routes", "done"} => cur.route = 0
    /\ step \in {"parent", "listener", "rule", "panicked"} =>
          cur.route \in DOMAIN routes \ left /\ cur.parent \in Nat /\ cur.parent > 0
    /\ step \in {"start", "routes", "done", "parent", "listener", "rule", "panicked"}
    /\ step \in {"listener", "rule"} =>
          \A n, i : n = cur.route /\ i = cur.parent => AtListener(n, i)
    /\ step = "rule" =>
          \A n, i, l : n = cur.route /\ i = cur.parent /\ l = cur.listener => InRules(n, i, l)

LEMMA WalkInit == GatewayInit => Walk
<1>. SUFFICES ASSUME GatewayInit PROVE Walk
  OBVIOUS
<1>1. cur = Idle /\ step = "start" /\ svhosts = <<>> /\ left = DOMAIN routes
  BY Zenon DEF GatewayInit
<1>2. CurShape /\ cur.route = 0
  BY Zenon, <1>1 DEF CurShape, Idle
<1>3. HostsShape
  BY <1>1 DEF HostsShape
<1>. QED  BY Zenon, <1>1, <1>2, <1>3 DEF GatewayInit, Walk

LEMMA WalkStep == Walk /\ [GatewayNext]_gatewayVars => Walk'
<1>. SUFFICES ASSUME Walk, [GatewayNext]_gatewayVars PROVE Walk'
  BY Zenon
<1>1. /\ gateway' \in Gateways /\ routes' \in RouteLists /\ routes' = routes
      /\ \A n, i : Allowed(n, i)' = Allowed(n, i)
      /\ \A n, i, l : HostsOf(n, i, l)' = HostsOf(n, i, l)
  BY Zenon, AsksFixed DEF Walk
<1>2. HostsShape'
  <2>1. CASE AddRule
    BY Zenon, <2>1, EntriesAdded DEF AddRule, Walk
  <2>. QED  BY Zenon, <2>1, EntriesKept DEF Walk
<1>3. \A n \in DOMAIN routes : DOMAIN routes[n].parents = 1..Len(routes[n].parents) /\ Len(routes[n].parents) \in Nat
  BY Zenon, RoutesTyped DEF Walk
<1>. DEFINE Goal ==
       /\ CurShape' /\ left' \subseteq DOMAIN routes
       /\ step' \in {"start", "routes", "done"} => cur'.route = 0
       /\ step' \in {"parent", "listener", "rule", "panicked"} =>
             cur'.route \in DOMAIN routes \ left' /\ cur'.parent \in Nat /\ cur'.parent > 0
       /\ step' \in {"start", "routes", "done", "parent", "listener", "rule", "panicked"}
       /\ step' \in {"listener", "rule"} =>
             \A n, i : n = cur'.route /\ i = cur'.parent => AtListener(n, i)'
       /\ step' = "rule" =>
             \A n, i, l : n = cur'.route /\ i = cur'.parent /\ l = cur'.listener => InRules(n, i, l)'
<1>. SUFFICES Goal
  BY Zenon, <1>1, <1>2 DEF Walk
<1>4. CASE AroundRoutes
  BY Zenon, <1>4 DEF AroundRoutes, Walk
<1>5. ASSUME NEW n, RouteTaken(n) PROVE Goal
  <2>1. 1 \in Nat /\ 1 > 0
    OBVIOUS
  <2>. QED  BY Zenon, <1>5, <2>1 DEF RouteTaken, Walk
<1>6. CASE ParentDone
  <2>1. step \in {"parent", "listener"}
    BY Zenon, <1>6 DEF ParentDone, AtParent, RejectForGateway
  <2>2. cur.route \in DOMAIN routes \ left /\ cur.parent \in Nat
    BY Zenon, <2>1 DEF Walk
  <2>3. cur'.parent \in Nat /\ cur'.parent > 0
    BY <1>6, <2>2 DEF ParentDone
  <2>. QED  BY Zenon, <1>6, <2>2, <2>3 DEF ParentDone, Walk
<1>7. CASE Halted
  BY Zenon, <1>7 DEF Halted, Walk
<1>8. CASE ListenersFound
  <2>1. cur.route \in DOMAIN routes \ left /\ cur.parent \in Nat /\ cur.parent > 0
    BY Zenon, <1>8 DEF ListenersFound, AtParent, Walk
  <2>2. cur.parent \in DOMAIN curRoute.parents
    <3>1. cur.parent <= Len(curRoute.parents)
      BY Zenon, <1>8 DEF ListenersFound, AtParent
    <3>2. DOMAIN curRoute.parents = 1..Len(curRoute.parents) /\ Len(curRoute.parents) \in Nat
      BY Zenon, <1>3, <2>1 DEF curRoute
    <3>. QED  BY <2>1, <3>1, <3>2
  <2>3. ASSUME NEW n, NEW i, n = cur.route, i = cur.parent PROVE AtListener(n, i)'
    BY Zenon, <1>1, <1>8, <2>2, <2>3 DEF ListenersFound, AtListener, curRoute, curParent, Allowed, IsRefToGateway
  <2>. QED  BY Zenon, <1>8, <2>1, <2>3 DEF ListenersFound, Walk
<1>9. ASSUME NEW l, ListenerTaken(l) PROVE Goal
  <2>1. cur.route \in DOMAIN routes \ left /\ cur.parent \in Nat /\ cur.parent > 0
    BY Zenon, <1>9 DEF ListenerTaken, Walk
  <2>2. ASSUME NEW n, NEW i, n = cur.route, i = cur.parent PROVE AtListener(n, i) /\ AtListener(n, i)'
    BY Zenon, <1>1, <1>9, <2>2 DEF ListenerTaken, AtListener, Walk, IsRefToGateway
  <2>3. ASSUME NEW n, NEW i, n = cur.route, i = cur.parent PROVE InRules(n, i, l)'
    <3>1. l \in cur'.allowed \ cur'.left
      BY Zenon, <1>9, <2>2, <2>3 DEF ListenerTaken, AtListener
    <3>2. cur'.rule \in Nat /\ cur'.rule > 0 /\ cur'.dropped \in Nat
      BY <1>9 DEF ListenerTaken
    <3>3. routes[n].kind # "TCPRoute" => cur'.hosts = HostsOf(n, i, l)
      BY Zenon, <1>9, <2>2, <2>3 DEF ListenerTaken, AtListener, curRoute, HostsOf, HostsAt, Allowed
    <3>. QED  BY Zenon, <1>1, <3>1, <3>2, <3>3 DEF InRules
  <2>4. /\ CurShape' /\ left' = left /\ step' \in {"listener", "rule"}
        /\ cur'.route = cur.route /\ cur'.parent = cur.parent /\ cur'.listener = l
    BY Zenon, <1>9 DEF ListenerTaken
  <2>. QED  BY Zenon, <2>1, <2>2, <2>3, <2>4 DEF Walk
<1>10. CASE RuleDone
  <2>1. cur.route \in DOMAIN routes \ left /\ cur.parent \in Nat /\ cur.parent > 0
    BY Zenon, <1>10 DEF RuleDone, Walk
  <2>2. ASSUME NEW n, NEW i, n = cur.route, i = cur.parent PROVE AtListener(n, i)'
    BY Zenon, <1>1, <1>10, <2>2 DEF RuleDone, AtListener, Walk, IsRefToGateway
  <2>3. ASSUME NEW n, NEW i, NEW l, n = cur.route, i = cur.parent, l = cur.listener PROVE InRules(n, i, l)'
    <3>1. InRules(n, i, l)
      BY Zenon, <1>10, <2>3 DEF RuleDone, Walk
    <3>2. cur'.rule \in Nat /\ cur'.rule > 0 /\ cur'.dropped \in Nat
      <4>1. cur.rule \in Nat /\ cur.dropped \in Nat
        BY Zenon, <3>1 DEF InRules
      <4>. QED  BY <1>10, <4>1 DEF RuleDone
    <3>. QED  BY Zenon, <1>1, <1>10, <3>1, <3>2 DEF InRules, RuleDone
  <2>. QED  BY Zenon, <1>10, <2>1, <2>2, <2>3 DEF RuleDone, Walk
<1>11. CASE ListenerDone \/ Standing
  <2>1. ASSUME NEW n, NEW i, AtListener(n, i) PROVE AtListener(n, i)'
    BY Zenon, <1>1, <1>11, <2>1 DEF ListenerDone, Standing, AtListener, IsRefToGateway
  <2>2. ASSUME NEW n, NEW i, NEW l, InRules(n, i, l) PROVE InRules(n, i, l)'
    BY Zenon, <1>1, <1>11, <2>2 DEF ListenerDone, Standing, InRules
  <2>. QED  BY Zenon, <1>11, <2>1, <2>2 DEF ListenerDone, Standing, Walk
<1>12. CASE RouteDone
  BY Zenon, <1>12 DEF RouteDone, Walk
<1>. QED  BY Zenon, <1>4, <1>5, <1>6, <1>7, <1>8, <1>9, <1>10, <1>11, <1>12, Moves DEF Walk

\* The current route is through with rule r at listener l for its reference i.
DoneAt(i, l, r) ==
    \/ i < cur.parent
    \/ /\ i = cur.parent /\ step \in {"listener", "rule"} /\ l \notin cur.left
       /\ step = "rule" /\ l = cur.listener => r < cur.rule

\* What the current route is through with stays so.
LEMMA DoneStays ==
    ASSUME Walk, [GatewayNext]_gatewayVars, NEW i \in Nat, NEW l, NEW r \in Nat, DoneAt(i, l, r),
           cur.route \in DOMAIN routes, cur'.route = cur.route
    PROVE  DoneAt(i, l, r)'
<1>1. cur.route # 0
  BY Zenon, RoutesTyped DEF Walk
<1>2. CASE AroundRoutes \/ \E n : RouteTaken(n)
  BY Zenon, <1>1, <1>2 DEF AroundRoutes, RouteTaken, Walk
<1>3. CASE ParentDone
  <2>1. cur.parent \in Nat /\ cur'.parent = cur.parent + 1
    BY Zenon, <1>3 DEF ParentDone, AtParent, RejectForGateway, Walk
  <2>. QED  BY <2>1 DEF DoneAt
<1>4. CASE Halted \/ ListenersFound
  BY Zenon, <1>4 DEF Halted, ListenersFound, AtParent, DoneAt
<1>5. ASSUME NEW m, ListenerTaken(m) PROVE DoneAt(i, l, r)'
  BY Zenon, <1>5 DEF ListenerTaken, DoneAt
<1>6. CASE RuleDone
  <2>1. cur.rule \in Nat
    BY Zenon, <1>6 DEF RuleDone, Walk, InRules
  <2>2. r < cur.rule => r < cur'.rule
    BY <1>6, <2>1 DEF RuleDone
  <2>. QED  BY Zenon, <1>6, <2>2 DEF RuleDone, DoneAt
<1>7. CASE ListenerDone \/ Standing
  BY Zenon, <1>7 DEF ListenerDone, Standing, DoneAt
<1>8. CASE RouteDone
  BY Zenon, <1>1, <1>8 DEF RouteDone
<1>. QED  BY Zenon, <1>2, <1>3, <1>4, <1>5, <1>6, <1>7, <1>8, Moves DEF Walk

\* A step gets the current route through with what it asks for in two ways: its reference is
\* turned down, or the rule is dealt with.
LEMMA Progress ==
    ASSUME Walk, [GatewayNext]_gatewayVars,
           NEW n \in DOMAIN routes, n = cur'.route, routes[n].kind # "TCPRoute",
           NEW i, NEW l, NEW r, NEW s, NEW vh, NEW k, Offered(n, i, l, r, s, vh, k), DoneAt(i, l, r)'
    PROVE  /\ n = cur.route
           /\ \/ DoneAt(i, l, r)
              \/ RejectForGateway /\ i = cur.parent
              \/ RuleDone /\ i = cur.parent /\ l = cur.listener /\ r = cur.rule
<1>1. /\ n # 0
      /\ i \in 1..Len(routes[n].parents) /\ Len(routes[n].parents) \in Nat
      /\ r \in 1..Len(routes[n].rules) /\ Len(routes[n].rules) \in Nat
  BY Zenon, RoutesTyped DEF Walk, Offered, Asking
<1>. DEFINE Goal == /\ n = cur.route
                    /\ \/ DoneAt(i, l, r)
                       \/ RejectForGateway /\ i = cur.parent
                       \/ RuleDone /\ i = cur.parent /\ l = cur.listener /\ r = cur.rule
<1>2. CASE AroundRoutes \/ RouteDone
  BY Zenon, <1>1, <1>2 DEF AroundRoutes, RouteDone, Walk
<1>3. ASSUME NEW m, RouteTaken(m) PROVE Goal
  BY <1>1, <1>3 DEF RouteTaken, DoneAt
<1>4. CASE ParentDone
  <2>1. cur.parent \in Nat /\ cur'.parent = cur.parent + 1 /\ step' = "parent" /\ n = cur.route
    BY Zenon, <1>4 DEF ParentDone, AtParent, RejectForGateway, Walk
  <2>2. i < cur.parent \/ i = cur.parent
    BY <1>1, <2>1 DEF DoneAt
  <2>3. CASE i = cur.parent /\ AtParent /\ ~IsRefToGateway(curParent)
    BY Zenon, <2>1, <2>3 DEF Offered, curParent, curRoute
  <2>4. CASE i = cur.parent /\ step = "listener" /\ cur.left = {}
    BY Zenon, <2>1, <2>4 DEF DoneAt
  <2>. QED  BY Zenon, <1>4, <2>1, <2>2, <2>3, <2>4 DEF ParentDone, DoneAt
<1>5. CASE Halted \/ Standing
  BY Zenon, <1>5 DEF Halted, Standing, DoneAt
<1>6. CASE ListenersFound
  <2>1. ASSUME i = cur.parent PROVE FALSE
    <3>1. ~(i < i)
      BY <1>1
    <3>2. l \in cur'.left /\ cur'.parent = i
      BY Zenon, <1>6, <2>1 DEF ListenersFound, curRoute, curParent, Offered, Allowed
    <3>. QED  BY Zenon, <3>1, <3>2 DEF DoneAt
  <2>. QED  BY Zenon, <1>6, <2>1 DEF ListenersFound, DoneAt
<1>7. ASSUME NEW m, ListenerTaken(m) PROVE Goal
  <2>1. n = cur.route /\ cur'.parent = cur.parent
    BY Zenon, <1>7 DEF ListenerTaken
  <2>2. CASE i < cur.parent
    BY Zenon, <2>1, <2>2 DEF DoneAt
  <2>3. CASE i = cur.parent /\ l # m
    BY Zenon, <1>7, <2>1, <2>3 DEF ListenerTaken, DoneAt
  <2>4. CASE i = cur.parent /\ l = m
    <3>1. cur.allowed = Allowed(n, i)
      BY Zenon, <1>7, <2>1, <2>4 DEF ListenerTaken, Walk, AtListener
    <3>2. cur'.hosts = HostsOf(n, i, l)
      BY Zenon, <1>7, <2>1, <2>4, <3>1 DEF ListenerTaken, curRoute, HostsOf, HostsAt, Allowed
    <3>3. step' = "rule"
      BY Zenon, <1>7, <2>1, <3>2 DEF ListenerTaken, Offered, curRoute
    <3>4. ~(i < i) /\ ~(r < 1)
      BY <1>1
    <3>. QED  BY Zenon, <1>7, <2>1, <2>4, <3>3, <3>4 DEF ListenerTaken, DoneAt
  <2>. QED  BY Zenon, <2>1, <2>2, <2>3, <2>4 DEF DoneAt
<1>8. CASE RuleDone
  <2>1. n = cur.route /\ cur.rule \in Nat
    BY Zenon, <1>8 DEF RuleDone, Walk, InRules
  <2>2. r < cur'.rule => r < cur.rule \/ r = cur.rule
    BY <1>1, <1>8, <2>1 DEF RuleDone
  <2>. QED  BY Zenon, <1>8, <2>1, <2>2 DEF RuleDone, DoneAt
<1>9. CASE ListenerDone
  <2>1. n = cur.route /\ cur.rule \in Nat /\ cur.rule > Len(routes[n].rules)
    BY Zenon, <1>9 DEF ListenerDone, Walk, InRules, curRoute
  <2>2. r < cur.rule
    BY <1>1, <2>1
  <2>. QED  BY Zenon, <1>9, <2>1, <2>2 DEF ListenerDone, DoneAt
<1>. QED  BY Zenon, <1>2, <1>3, <1>4, <1>5, <1>6, <1>7, <1>8, <1>9, Moves DEF Walk

-----------------------------------------------------------------------------
(* Every route in the DAG was asked for *)

\* The entry is there because the route it names, which is no longer waiting, asked for it.
Asked(s, vh, e) ==
    /\ e.route \in DOMAIN routes \ left
    /\ e.kind = routes[e.route].kind /\ e.kind \in {"HTTPRoute", "GRPCRoute"}
    /\ \E i, l, r : /\ Offered(e.route, i, l, r, s, vh, e.match)
                    /\ e.route = cur.route => DoneAt(i, l, r)

EntryInv == \A s, vh : \A e \in Entries(s, vh) : Asked(s, vh, e)

\* The rule that is added is one the route asks for.
LEMMA AddedIsOffered ==
    ASSUME Walk, AtRule({"HTTPRoute", "GRPCRoute"}), ~RuleIsSkipped,
           NEW h \in cur.hosts, NEW k \in curKeys, NEW s, s <=> Secure(cur.listener)
    PROVE  /\ cur.route \in DOMAIN routes \ left
           /\ Offered(cur.route, cur.parent, cur.listener, cur.rule, s, VirtualHost(cur.listener, h), k)
<1>1. PICK n, i, l, r : n = cur.route /\ i = cur.parent /\ l = cur.listener /\ r = cur.rule
  BY Zenon
<1>2. n \in DOMAIN routes \ left /\ AtListener(n, i) /\ InRules(n, i, l) /\ routes[n].kind # "TCPRoute"
  BY Zenon, <1>1 DEF AtRule, Walk, curRoute
<1>3. r \in DOMAIN routes[n].rules
  <2>1. r \in Nat /\ r > 0 /\ r <= Len(routes[n].rules)
    BY Zenon, <1>1, <1>2 DEF InRules, AtRule, curRoute
  <2>2. DOMAIN routes[n].rules = 1..Len(routes[n].rules) /\ Len(routes[n].rules) \in Nat
    BY Zenon, <1>2, RoutesTyped DEF Walk
  <2>. QED  BY <2>1, <2>2
<1>4. r \in Asking(routes[n])
  BY Zenon, <1>1, <1>3 DEF Asking, RuleIsSkipped, curRule, curRoute
<1>5. k \in KeysOf(n, r) /\ h \in HostsOf(n, i, l) /\ l \in Allowed(n, i)
  BY Zenon, <1>1, <1>2 DEF curKeys, curRule, curRoute, KeysOf, AtListener, InRules
<1>6. Offered(n, i, l, r, s, VirtualHost(l, h), k)
  BY Zenon, <1>1, <1>2, <1>4, <1>5 DEF Offered, AtListener
<1>. QED  BY Zenon, <1>1, <1>2, <1>6

LEMMA EntryInit == GatewayInit => EntryInv
<1>. SUFFICES ASSUME GatewayInit PROVE EntryInv
  OBVIOUS
<1>1. DOMAIN vhosts = {} /\ DOMAIN svhosts = {}
  BY DEF GatewayInit
<1>. QED  BY Zenon, <1>1 DEF EntryInv, Entries, NoEntries

\* What was asked for stays asked for.
LEMMA AskedStays ==
    ASSUME Walk, Walk', [GatewayNext]_gatewayVars, NEW s, NEW vh, NEW e, Asked(s, vh, e)
    PROVE  Asked(s, vh, e)'
<1>1. PICK i, l, r : /\ Offered(e.route, i, l, r, s, vh, e.match)
                     /\ e.route = cur.route => DoneAt(i, l, r)
  BY Zenon DEF Asked
<1>2. routes' = routes /\ Offered(e.route, i, l, r, s, vh, e.match)'
  BY Zenon, <1>1, AsksFixed
<1>3. left' \subseteq left
  BY Zenon, Moves DEF Walk, AroundRoutes, RouteTaken, ParentDone, Halted, ListenersFound, ListenerTaken,
     RuleDone, ListenerDone, RouteDone, Standing
<1>4. i \in Nat /\ r \in Nat
  <2>1. /\ i \in 1..Len(routes[e.route].parents) /\ Len(routes[e.route].parents) \in Nat
        /\ r \in 1..Len(routes[e.route].rules) /\ Len(routes[e.route].rules) \in Nat
    BY Zenon, <1>1, RoutesTyped DEF Walk, Offered, Asking, Asked
  <2>. QED  BY <2>1
<1>5. ASSUME e.route = cur'.route PROVE e.route = cur.route
  BY Zenon, <1>5, Moves, RoutesTyped DEF Walk, AroundRoutes, RouteTaken, ParentDone, Halted, ListenersFound,
     ListenerTaken, RuleDone, ListenerDone, RouteDone, Standing, Asked
<1>6. e.route = cur'.route => DoneAt(i, l, r)'
  BY Zenon, <1>1, <1>4, <1>5, DoneStays DEF Asked
<1>. QED  BY Zenon, <1>2, <1>3, <1>6 DEF Asked

LEMMA EntryStep == Walk /\ EntryInv /\ [GatewayNext]_gatewayVars => EntryInv'
<1>. SUFFICES ASSUME Walk, EntryInv, [GatewayNext]_gatewayVars,
                     NEW s, NEW vh, NEW e \in Entries(s, vh)'
              PROVE  Asked(s, vh, e)'
  BY Zenon DEF EntryInv
<1>1. Walk'
  BY Zenon, WalkStep
<1>2. CASE e \in Entries(s, vh)
  BY Zenon, <1>1, <1>2, AskedStays DEF EntryInv
<1>3. CASE e \notin Entries(s, vh)
  <2>1. AddRule
    BY Zenon, <1>3, EntriesKept DEF Walk
  <2>. DEFINE vhs == IF curKeys = {} THEN {} ELSE curHosts(cur.hosts)
  <2>2. /\ s <=> Secure(cur.listener)
        /\ vh \in vhs /\ e \in PutRoutes(Entries(s, vh), cur.route, cur.rule, curKeys)
    <3>1. AddToVirtualHosts(cur.listener, vhs, cur.route, cur.rule, curKeys)
      BY Zenon, <2>1 DEF AddRule
    <3>. HIDE DEF vhs
    <3>2. Entries(s, vh)' = IF (s <=> Secure(cur.listener)) /\ vh \in vhs
                            THEN PutRoutes(Entries(s, vh), cur.route, cur.rule, curKeys) ELSE Entries(s, vh)
      <4>1. HostsShape
        BY Zenon DEF Walk
      <4>. QED  BY <3>1, <4>1, EntriesAdded
    <3>. QED  BY Zenon, <1>3, <3>2
  <2>3. PICK k \in curKeys : e = Entry(cur.route, cur.rule, k)
    <3>1. e \in PutRoutes(Entries(s, vh), cur.route, cur.rule, curKeys)
             <=> \/ e \in Entries(s, vh) /\ e.match \notin curKeys
                 \/ \E k \in curKeys : e = Entry(cur.route, cur.rule, k)
      BY Zenon DEF PutRoutes, Entry
    <3>. QED  BY Zenon, <1>3, <2>2, <3>1
  <2>4. PICK h \in cur.hosts : vh = VirtualHost(cur.listener, h)
    BY Zenon, <2>2 DEF curHosts
  <2>5. PICK n, i, l, r : n = cur.route /\ i = cur.parent /\ l = cur.listener /\ r = cur.rule
    BY Zenon
  <2>6. n \in DOMAIN routes \ left /\ Offered(n, i, l, r, s, vh, k)
    BY Zenon, <2>1, <2>2, <2>4, <2>5, AddedIsOffered DEF AddRule
  <2>7. e.route = n /\ e.match = k /\ e.kind = routes[n].kind
    <3>1. Entry(n, r, k).route = n /\ Entry(n, r, k).match = k /\ Entry(n, r, k).kind = routes[n].kind
      BY Zenon DEF Entry
    <3>. QED  BY Zenon, <2>3, <2>5, <3>1
  <2>8. e.kind \in {"HTTPRoute", "GRPCRoute"}
    BY Zenon, <2>1, <2>5, <2>7 DEF AddRule, AtRule, curRoute
  <2>9. DoneAt(i, l, r)' /\ left' = left
    <3>1. RuleDone
      BY Zenon, <2>1 DEF AddRule, AtRule, RuleDone, CurShape, Walk
    <3>2. l \notin cur.left /\ r \in Nat
      BY Zenon, <2>5, <3>1 DEF RuleDone, Walk, InRules
    <3>3. r < cur'.rule
      BY <2>5, <3>1, <3>2 DEF RuleDone
    <3>. QED  BY Zenon, <2>5, <3>1, <3>2, <3>3 DEF RuleDone, DoneAt
  <2>10. routes' = routes /\ Offered(n, i, l, r, s, vh, k)'
    BY Zenon, <2>6, AsksFixed
  <2>. QED  BY Zenon, <2>6, <2>7, <2>8, <2>9, <2>10 DEF Asked
<1>. QED  BY Zenon, <1>2, <1>3

\* The route of an entry is served through a listener that covers its host.
LEMMA AskedIsIsolated ==
    ASSUME Walk, NEW s, NEW vh, NEW e, Asked(s, vh, e)
    PROVE  \E i \in DOMAIN routes[e.route].parents :
                \E l \in Allowed(e.route, i) :
                        /\ dagListenerName(listeners[l]) = vh[1]
                        /\ vh[2] = AnyHost \/ Covers(listeners[l].hostname, vh[2])
                        /\ ~\E o \in Listeners \ Allowed(e.route, i) :
                                /\ listeners[o].hostname # NoHostname
                                /\ Covers(listeners[o].hostname, vh[2])
                                /\ MoreSpecific(listeners[o].hostname, listeners[l].hostname)
<1>1. PICK i, l, r : Offered(e.route, i, l, r, s, vh, e.match)
  BY Zenon DEF Asked
<1>2. PICK h \in HostsOf(e.route, i, l) : vh = VirtualHost(l, h)
  BY Zenon, <1>1 DEF Offered
<1>3. vh[1] = dagListenerName(listeners[l]) /\ vh[2] = h
  BY <1>2 DEF VirtualHost
<1>4. \A k \in Listeners : listeners[k].hostname \in Seq(STRING) \ {AnyHost}
  <2>1. listeners \in Seq(Listener)
    BY Zenon, GatewaysAssumption DEF listeners, Walk
  <2>2. \A k \in Listeners : listeners[k] \in Listener
    BY <2>1 DEF Listeners
  <2>. QED  BY Zenon, <2>2 DEF Listener, AnyHost
<1>5. l \in Listeners /\ l \in Allowed(e.route, i) /\ i \in DOMAIN routes[e.route].parents
  BY Zenon, <1>1 DEF Offered, Allowed, AllowedListeners, Attachable, Selected
<1>. DEFINE others == otherListenerHostnames(Allowed(e.route, i))
<1>6. others \subseteq Seq(STRING) \ {NoHostname, AnyHost}
  BY <1>4 DEF otherListenerHostnames
<1>7. h \in computeHosts(routes[e.route].hostnames, listeners[l].hostname, others)
  BY Zenon, <1>2 DEF HostsOf, HostsAt, Allowed
<1>8. routes[e.route].hostnames \subseteq Seq(STRING) \ {NoHostname}
  BY Zenon, RoutesTyped DEF Walk, Asked
<1>9. \A o \in Listeners \ Allowed(e.route, i) : listeners[o].hostname # NoHostname => listeners[o].hostname \in others
  BY Zenon DEF otherListenerHostnames
<1>. HIDE DEF others
<1>10. /\ h = AnyHost \/ Covers(listeners[l].hostname, h)
       /\ \A o \in others : Covers(o, h) => ~MoreSpecific(o, listeners[l].hostname)
  BY Zenon, <1>4, <1>5, <1>6, <1>7, <1>8, HostsCovered
<1>. QED  BY Zenon, <1>3, <1>5, <1>9, <1>10

\* A route is served under a host only through a listener of the Gateway that it is attached to
\* and that covers the host, and never when a listener it is not attached to covers the host
\* more specifically: for every Gateway, every list of routes and every order of the Go maps.
THEOREM ListenerIsolationAlways == GatewaySpec => []ListenerIsolation
<1>1. Walk /\ EntryInv => ListenerIsolation
  <2>. SUFFICES ASSUME Walk, EntryInv, NEW vh \in DOMAIN vhosts \union DOMAIN svhosts,
                       NEW e \in (IF vh \in DOMAIN vhosts THEN vhosts[vh] ELSE {}) \union
                                 (IF vh \in DOMAIN svhosts THEN svhosts[vh].routes ELSE {})
                PROVE  \E i \in DOMAIN routes[e.route].parents :
                         \E l \in Allowed(e.route, i) :
                            /\ dagListenerName(listeners[l]) = vh[1]
                            /\ vh[2] = AnyHost \/ Covers(listeners[l].hostname, vh[2])
                            /\ ~\E o \in Listeners \ Allowed(e.route, i) :
                                    /\ listeners[o].hostname # NoHostname
                                    /\ Covers(listeners[o].hostname, vh[2])
                                    /\ MoreSpecific(listeners[o].hostname, listeners[l].hostname)
    BY Zenon DEF ListenerIsolation, Allowed
  <2>1. e \in Entries(TRUE, vh) \/ e \in Entries(FALSE, vh)
    BY Zenon DEF Entries
  <2>2. Asked(TRUE, vh, e) \/ Asked(FALSE, vh, e)
    BY Zenon, <2>1 DEF EntryInv
  <2>. QED  BY Zenon, <2>2, AskedIsIsolated
<1>. QED  BY <1>1, WalkInit, WalkStep, EntryInit, EntryStep, PTL DEF GatewaySpec

-----------------------------------------------------------------------------
(* The conditions of the routes *)

AcceptedReasons ==
    {"unset", "True", "InvalidGateway", "NoMatchingParent", "NotAllowedByListeners", "UnsupportedValue",
     "InvalidRouteRules", "RuleMatchConflict", "NoMatchingListenerHostname"}
Conditions == [Accepted : AcceptedReasons, ResolvedRefs : {"unset", "True", "False"}, PartiallyInvalid : BOOLEAN]

LEMMA ConditionsFields ==
    ASSUME NEW s \in Conditions
    PROVE  s.Accepted \in AcceptedReasons /\ s.ResolvedRefs \in {"unset", "True", "False"} /\ s.PartiallyInvalid \in BOOLEAN
  BY Zenon DEF Conditions

StatusType ==
    /\ DOMAIN routeStatus = DOMAIN routes
    /\ \A n \in DOMAIN routes : routeStatus[n] \in [DOMAIN routes[n].parents -> Conditions]

\* Nothing speaks against serving the route so far.
Unblamed(n, i) ==
    routeStatus[n][i].Accepted \in {"unset", "True"} /\ ~routeStatus[n][i].PartiallyInvalid

\* The conditions of reference b of route a are replaced.
Replaced(a, b, v) == routeStatus' = [routeStatus EXCEPT ![a][b] = v]

LEMMA OneStatus ==
    ASSUME StatusType, routes' = routes, NEW a \in DOMAIN routes, NEW b \in DOMAIN routes[a].parents,
           NEW v \in Conditions, Replaced(a, b, v)
    PROVE  /\ StatusType'
           /\ routeStatus'[a][b] = v
           /\ \A n \in DOMAIN routes : \A i \in DOMAIN routes[n].parents :
                n # a \/ i # b => routeStatus'[n][i] = routeStatus[n][i]
<1>1. DOMAIN routeStatus' = DOMAIN routes
  BY Zenon DEF StatusType, Replaced
<1>2. routeStatus'[a] = [routeStatus[a] EXCEPT ![b] = v]
  BY Zenon DEF StatusType, Replaced
<1>3. \A n \in DOMAIN routes : n # a => routeStatus'[n] = routeStatus[n]
  BY Zenon DEF StatusType, Replaced
<1>4. routeStatus'[a] \in [DOMAIN routes[a].parents -> Conditions] /\ routeStatus'[a][b] = v
  BY <1>2 DEF StatusType
<1>5. \A i \in DOMAIN routes[a].parents : i # b => routeStatus'[a][i] = routeStatus[a][i]
  BY <1>2 DEF StatusType
<1>. QED  BY Zenon, <1>1, <1>3, <1>4, <1>5 DEF StatusType

\* The new conditions say no more in favour of the route than the old ones, and do not blame it.
NoBetter(v, w) ==
    /\ w.Accepted \in {"unset", "True"} /\ ~w.PartiallyInvalid => v.Accepted \in {"unset", "True"} /\ ~v.PartiallyInvalid
    /\ w.Accepted = "RuleMatchConflict" \/ w.PartiallyInvalid => v.Accepted = "RuleMatchConflict" \/ v.PartiallyInvalid

\* The current route may be blamed for a conflict by EndRules, when rules of it were dropped.
BlamesCurrent == EndRules /\ curRoute.kind \in {"HTTPRoute", "GRPCRoute"}

LEMMA StatusKept ==
    ASSUME StatusType, routes' = routes, routeStatus' = routeStatus
    PROVE  /\ StatusType'
           /\ \A n \in DOMAIN routes : \A i \in DOMAIN routes[n].parents : routeStatus'[n][i] = routeStatus[n][i]
  BY Zenon DEF StatusType

\* The conditions of the current reference after a step that sets them.
LEMMA CurrentStatus ==
    ASSUME routes \in RouteLists, StatusType, cur.route \in DOMAIN routes, cur.parent \in DOMAIN curRoute.parents,
           [GatewayNext]_gatewayVars, routeStatus' # routeStatus
    PROVE  \E v \in Conditions :
              /\ routeStatus' = [routeStatus EXCEPT ![cur.route][cur.parent] = v]
              /\ NoBetter(routeStatus[cur.route][cur.parent], v) \/ BlamesCurrent
              /\ RejectForGateway => v.Accepted = "InvalidGateway"
              /\ BlamesCurrent => v.Accepted = "RuleMatchConflict" \/ v.PartiallyInvalid
<1>. DEFINE old == routeStatus[cur.route][cur.parent]
            Goal(v) == /\ v \in Conditions
                       /\ routeStatus' = [routeStatus EXCEPT ![cur.route][cur.parent] = v]
                       /\ NoBetter(old, v) \/ BlamesCurrent
                       /\ RejectForGateway => v.Accepted = "InvalidGateway"
                       /\ BlamesCurrent => v.Accepted = "RuleMatchConflict" \/ v.PartiallyInvalid
<1>. SUFFICES \E v : Goal(v)
  BY Zenon
<1>0. old \in Conditions
  BY Zenon DEF StatusType, curRoute
<1>a. /\ old.Accepted \in AcceptedReasons /\ old.ResolvedRefs \in {"unset", "True", "False"}
      /\ old.PartiallyInvalid \in BOOLEAN
  BY Zenon, <1>0, ConditionsFields
<1>b. {"InvalidGateway", "InvalidRouteRules", "RuleMatchConflict"} \subseteq AcceptedReasons
  BY Zenon DEF AcceptedReasons
<1>1. CASE RejectForGateway
  <2>. DEFINE v == [old EXCEPT !.Accepted = "InvalidGateway"]
  <2>1. routeStatus' = [routeStatus EXCEPT ![cur.route][cur.parent] = v]
    BY Zenon, <1>1 DEF RejectForGateway
  <2>. HIDE DEF old
  <2>2. v \in Conditions /\ v.Accepted = "InvalidGateway" /\ v.PartiallyInvalid = old.PartiallyInvalid
    BY Zenon, <1>0, <1>b DEF Conditions
  <2>3. ~BlamesCurrent
    BY Zenon, <1>1 DEF BlamesCurrent, EndRules, RejectForGateway, AtParent
  <2>. HIDE DEF v, old
  <2>. QED  BY Zenon, <2>1, <2>2, <2>3 DEF NoBetter
<1>2. CASE getListenersForRouteParentRef
  <2>. DEFINE allowed == AllowedListeners(curRoute, curParent)
              a == IF ~\E l \in Selected(curParent) : IsReady(l) THEN "NoMatchingParent"
                   ELSE IF allowed = {} THEN "NotAllowedByListeners" ELSE old.Accepted
              b == IF allowed = {} /\ ~ReferencesResolve(curRoute) THEN "False" ELSE old.ResolvedRefs
              v == [Accepted |-> a, ResolvedRefs |-> b, PartiallyInvalid |-> old.PartiallyInvalid]
  <2>1. routeStatus' = [routeStatus EXCEPT ![cur.route][cur.parent] = v]
    BY Zenon, <1>2 DEF getListenersForRouteParentRef
  <2>. HIDE DEF old, allowed
  <2>2. v \in Conditions /\ v.Accepted \in {old.Accepted, "NoMatchingParent", "NotAllowedByListeners"}
        /\ v.PartiallyInvalid = old.PartiallyInvalid
    <3>1. a \in AcceptedReasons /\ a \in {old.Accepted, "NoMatchingParent", "NotAllowedByListeners"}
      BY Zenon, <1>a DEF AcceptedReasons
    <3>2. b \in {"unset", "True", "False"}
      BY Zenon, <1>a
    <3>. HIDE DEF a, b
    <3>. QED  BY Zenon, <1>a, <3>1, <3>2 DEF Conditions
  <2>3. ~BlamesCurrent /\ ~RejectForGateway
    BY Zenon, <1>2 DEF BlamesCurrent, EndRules, getListenersForRouteParentRef, AtParent, RejectForGateway
  <2>. HIDE DEF v
  <2>. QED  BY Zenon, <2>1, <2>2, <2>3 DEF NoBetter, old
<1>3. ASSUME NEW l \in cur.left, StartListener(l) PROVE \E v : Goal(v)
  <2>. DEFINE bad == curRoute.kind # "TCPRoute" /\ \E h \in curRoute.hostnames : ~IsValidHostname(h)
              b == IF bad THEN "False" ELSE old.ResolvedRefs
              v == [old EXCEPT !.ResolvedRefs = b]
  <2>1. routeStatus' = [routeStatus EXCEPT ![cur.route][cur.parent] = v]
    BY Zenon, <1>3 DEF StartListener
  <2>. HIDE DEF old, bad
  <2>2. v \in Conditions /\ v.Accepted = old.Accepted /\ v.PartiallyInvalid = old.PartiallyInvalid
    <3>1. b \in {"unset", "True", "False"}
      BY Zenon, <1>a
    <3>. HIDE DEF b
    <3>. QED  BY Zenon, <1>0, <3>1 DEF Conditions
  <2>3. ~BlamesCurrent /\ ~RejectForGateway
    BY Zenon, <1>3 DEF BlamesCurrent, EndRules, StartListener, AtParent, RejectForGateway
  <2>. HIDE DEF v
  <2>. QED  BY Zenon, <2>1, <2>2, <2>3 DEF NoBetter, old
<1>4. CASE AddRuleConditions /\ step = "rule" /\ ~EndRules
  <2>1. PICK x, y : RuleStatus(old) = AddConditions(old, x, y)
    BY Zenon DEF RuleStatus, HTTPRuleStatus, GRPCRuleStatus
  <2>. DEFINE v == AddConditions(old, x, y)
  <2>2. routeStatus' = [routeStatus EXCEPT ![cur.route][cur.parent] = v]
    BY Zenon, <1>4, <2>1 DEF AddRuleConditions
  <2>. HIDE DEF old
  <2>3. v \in Conditions /\ v.Accepted \in {old.Accepted, "UnsupportedValue"}
        /\ v.PartiallyInvalid = old.PartiallyInvalid
    <3>. DEFINE a == IF x THEN "UnsupportedValue" ELSE old.Accepted
                b == IF y THEN "False" ELSE old.ResolvedRefs
    <3>1. a \in AcceptedReasons /\ a \in {old.Accepted, "UnsupportedValue"}
      BY Zenon, <1>a DEF AcceptedReasons
    <3>2. b \in {"unset", "True", "False"}
      BY Zenon, <1>a
    <3>3. v = [Accepted |-> a, ResolvedRefs |-> b, PartiallyInvalid |-> old.PartiallyInvalid]
      BY Zenon DEF AddConditions
    <3>. HIDE DEF a, b, v
    <3>. QED  BY Zenon, <1>a, <3>1, <3>2, <3>3 DEF Conditions
  <2>4. ~BlamesCurrent /\ ~RejectForGateway
    BY Zenon, <1>4 DEF BlamesCurrent, AtParent, RejectForGateway
  <2>. HIDE DEF v
  <2>. QED  BY Zenon, <2>2, <2>3, <2>4 DEF NoBetter, old
<1>5. CASE computeTCPRouteForListener /\ ~AddRuleConditions
  <2>. DEFINE v == [old EXCEPT !.Accepted = "InvalidRouteRules"]
  <2>1. routeStatus' = [routeStatus EXCEPT ![cur.route][cur.parent] = v]
    BY Zenon, <1>5 DEF computeTCPRouteForListener
  <2>. HIDE DEF old
  <2>2. v \in Conditions /\ v.Accepted = "InvalidRouteRules" /\ v.PartiallyInvalid = old.PartiallyInvalid
    BY Zenon, <1>0, <1>b DEF Conditions
  <2>3. ~BlamesCurrent /\ ~RejectForGateway
    BY Zenon, <1>5 DEF BlamesCurrent, EndRules, computeTCPRouteForListener, AtParent, RejectForGateway
  <2>. HIDE DEF v, old
  <2>. QED  BY Zenon, <2>1, <2>2, <2>3 DEF NoBetter
<1>6. CASE EndRules
  <2>1. BlamesCurrent /\ ~RejectForGateway
    <3>1. curRoute.kind \in RouteKinds
      BY Zenon, RoutesTyped DEF curRoute
    <3>. QED  BY Zenon, <1>6, <3>1 DEF BlamesCurrent, EndRules, AtParent, RejectForGateway, RouteKinds
  <2>2. CASE cur.dropped = Len(curRoute.rules)
    <3>. DEFINE v == [old EXCEPT !.Accepted = "RuleMatchConflict"]
    <3>1. routeStatus' = [routeStatus EXCEPT ![cur.route][cur.parent] = v]
      BY Zenon, <1>6, <2>2 DEF EndRules
    <3>. HIDE DEF old
    <3>2. v \in Conditions /\ v.Accepted = "RuleMatchConflict"
      BY Zenon, <1>0, <1>b DEF Conditions
    <3>. HIDE DEF v
    <3>. QED  BY Zenon, <2>1, <3>1, <3>2
  <2>3. CASE cur.dropped # Len(curRoute.rules)
    <3>. DEFINE v == [old EXCEPT !.PartiallyInvalid = TRUE]
    <3>1. routeStatus' = [routeStatus EXCEPT ![cur.route][cur.parent] = v]
      BY Zenon, <1>6, <2>3 DEF EndRules
    <3>. HIDE DEF old
    <3>2. v \in Conditions /\ v.PartiallyInvalid
      BY Zenon, <1>0 DEF Conditions
    <3>. HIDE DEF v
    <3>. QED  BY Zenon, <2>1, <3>1, <3>2
  <2>. QED  BY Zenon, <2>2, <2>3
<1>7. CASE EndParent
  <2>. DEFINE a == IF old.Accepted # "unset" THEN old.Accepted
                   ELSE IF curRoute.kind # "TCPRoute" /\ ~cur.matched
                   THEN "NoMatchingListenerHostname" ELSE "True"
              b == IF old.ResolvedRefs = "unset" THEN "True" ELSE old.ResolvedRefs
              v == [Accepted |-> a, ResolvedRefs |-> b, PartiallyInvalid |-> old.PartiallyInvalid]
  <2>1. routeStatus' = [routeStatus EXCEPT ![cur.route][cur.parent] = v]
    BY Zenon, <1>7 DEF EndParent
  <2>. HIDE DEF old
  <2>2. /\ v \in Conditions /\ v.PartiallyInvalid = old.PartiallyInvalid
        /\ v.Accepted = old.Accepted \/ (old.Accepted = "unset" /\ v.Accepted \in {"True", "NoMatchingListenerHostname"})
    <3>1. /\ a \in AcceptedReasons
          /\ a = old.Accepted \/ (old.Accepted = "unset" /\ a \in {"True", "NoMatchingListenerHostname"})
      BY Zenon, <1>a DEF AcceptedReasons
    <3>2. b \in {"unset", "True", "False"}
      BY Zenon, <1>a
    <3>. HIDE DEF a, b
    <3>. QED  BY Zenon, <1>a, <3>1, <3>2 DEF Conditions
  <2>3. ~BlamesCurrent /\ ~RejectForGateway
    BY Zenon, <1>7 DEF BlamesCurrent, EndRules, EndParent, AtParent, RejectForGateway
  <2>. HIDE DEF v
  <2>. QED  BY Zenon, <2>1, <2>2, <2>3 DEF NoBetter, old
<1>8. ASSUME NEW before \in SUBSET cur.hosts, DropRule(before) PROVE \E v : Goal(v)
  BY Zenon, <1>4, <1>6, <1>8 DEF DropRule, AtRule
<1>9. CASE SkipRule \/ AddRule \/ computeTLSRouteForListener \/ computeTCPRouteForListener
  BY Zenon, <1>4, <1>5, <1>6, <1>9 DEF SkipRule, AddRule, computeTLSRouteForListener, computeTCPRouteForListener, AtRule
<1>10. CASE NotConfigured \/ ComputeListeners \/ SkipParent \/ Panic \/ EndRoute \/ computeGatewayConditions
            \/ UNCHANGED gatewayVars \/ \E n \in left : StartRoute(n)
  BY Zenon, <1>10 DEF NotConfigured, ComputeListeners, SkipParent, Panic, EndRoute, computeGatewayConditions,
     gatewayVars, StartRoute
<1>. QED  BY Zenon, <1>1, <1>2, <1>3, <1>6, <1>7, <1>8, <1>9, <1>10 DEF GatewayNext

\* What a step makes of the conditions: only EndRules blames a route for a conflict, and nothing
\* that speaks against a route is taken back.
LEMMA StatusStep ==
    ASSUME Walk, StatusType, [GatewayNext]_gatewayVars
    PROVE  /\ StatusType'
           /\ \A n \in DOMAIN routes : \A i \in DOMAIN routes[n].parents :
                /\ Unblamed(n, i)' => Unblamed(n, i)
                /\ Blamed(n, i)' => Blamed(n, i) \/ (n = cur.route /\ BlamesCurrent /\ routeStatus' # routeStatus)
<1>1. routes' = routes
  BY Zenon, AsksFixed
<1>2. CASE routeStatus' = routeStatus
  BY Zenon, <1>1, <1>2, StatusKept DEF Unblamed, Blamed
<1>3. CASE routeStatus' # routeStatus
  <2>1. step \in {"parent", "listener", "rule"} /\ (step = "parent" => AtParent)
    BY Zenon, <1>3 DEF GatewayNext, gatewayVars, NotConfigured, ComputeListeners, StartRoute, SkipParent,
       RejectForGateway, Panic, getListenersForRouteParentRef, StartListener, SkipRule, AddRule, DropRule,
       computeTLSRouteForListener, computeTCPRouteForListener, EndRules, EndParent, EndRoute,
       computeGatewayConditions, AtRule, AtParent
  <2>2. PICK a, b : a = cur.route /\ b = cur.parent
    BY Zenon
  <2>3. a \in DOMAIN routes /\ b \in DOMAIN routes[a].parents
    <3>1. a \in DOMAIN routes /\ b \in Nat /\ b > 0
      BY Zenon, <2>1, <2>2 DEF Walk
    <3>2. CASE step = "parent"
      <4>1. b <= Len(routes[a].parents)
        BY Zenon, <2>1, <2>2, <3>2 DEF AtParent, curRoute
      <4>2. DOMAIN routes[a].parents = 1..Len(routes[a].parents) /\ Len(routes[a].parents) \in Nat
        BY Zenon, <3>1, RoutesTyped DEF Walk
      <4>. QED  BY <3>1, <4>1, <4>2
    <3>3. CASE step # "parent"
      BY Zenon, <2>1, <2>2, <3>1, <3>3 DEF Walk, AtListener
    <3>. QED  BY Zenon, <3>2, <3>3
  <2>4. PICK v \in Conditions :
              /\ routeStatus' = [routeStatus EXCEPT ![a][b] = v]
              /\ NoBetter(routeStatus[a][b], v) \/ BlamesCurrent
              /\ BlamesCurrent => v.Accepted = "RuleMatchConflict" \/ v.PartiallyInvalid
    BY Zenon, <1>3, <2>2, <2>3, CurrentStatus DEF Walk, curRoute
  <2>5. /\ StatusType'
        /\ routeStatus'[a][b] = v
        /\ \A n \in DOMAIN routes : \A i \in DOMAIN routes[n].parents :
             n # a \/ i # b => routeStatus'[n][i] = routeStatus[n][i]
    <3>1. Replaced(a, b, v)
      BY Zenon, <2>4 DEF Replaced
    <3>. QED  BY Zenon, <1>1, <2>3, <3>1, OneStatus
  <2>6. ASSUME NEW n \in DOMAIN routes, NEW i \in DOMAIN routes[n].parents
        PROVE  /\ Unblamed(n, i)' => Unblamed(n, i)
               /\ Blamed(n, i)' => Blamed(n, i) \/ (n = cur.route /\ BlamesCurrent)
    <3>1. CASE n = a /\ i = b
      BY Zenon, <2>2, <2>4, <2>5, <3>1 DEF Unblamed, Blamed, NoBetter
    <3>2. CASE n # a \/ i # b
      BY Zenon, <2>5, <3>2 DEF Unblamed, Blamed
    <3>. QED  BY Zenon, <3>1, <3>2
  <2>. QED  BY Zenon, <1>3, <2>5, <2>6
<1>. QED  BY Zenon, <1>2, <1>3

\* A reference that is turned down, and one of whose rules a rule was dropped, is not accepted.
LEMMA Condemned ==
    ASSUME StatusType, NEW n \in DOMAIN routes, NEW i \in DOMAIN routes[n].parents,
           n = cur.route, i = cur.parent,
           RejectForGateway \/ (BlamesCurrent /\ cur.dropped # 0 /\ cur.dropped \in Nat)
    PROVE  ~Unblamed(n, i)'
<1>1. n \in DOMAIN routeStatus /\ i \in DOMAIN routeStatus[n] /\ routeStatus[n][i] \in Conditions
  BY Zenon DEF StatusType
<1>2. ASSUME NEW a, routeStatus' = [routeStatus EXCEPT ![n][i].Accepted = a]
      PROVE  routeStatus'[n][i].Accepted = a
  <2>. DEFINE v == [routeStatus[n][i] EXCEPT !.Accepted = a]
  <2>1. routeStatus'[n] = [routeStatus[n] EXCEPT ![i] = v]
    BY Zenon, <1>1, <1>2
  <2>2. routeStatus'[n][i] = v
    BY Zenon, <1>1, <2>1
  <2>. QED  BY Zenon, <1>1, <2>2 DEF Conditions
<1>3. ASSUME routeStatus' = [routeStatus EXCEPT ![n][i].PartiallyInvalid = TRUE]
      PROVE  routeStatus'[n][i].PartiallyInvalid
  <2>. DEFINE v == [routeStatus[n][i] EXCEPT !.PartiallyInvalid = TRUE]
  <2>1. routeStatus'[n] = [routeStatus[n] EXCEPT ![i] = v]
    BY Zenon, <1>1, <1>3
  <2>2. routeStatus'[n][i] = v
    BY Zenon, <1>1, <2>1
  <2>. QED  BY Zenon, <1>1, <2>2 DEF Conditions
<1>4. CASE RejectForGateway
  BY Zenon, <1>2, <1>4 DEF RejectForGateway, Unblamed
<1>5. CASE BlamesCurrent /\ cur.dropped = Len(curRoute.rules)
  BY Zenon, <1>2, <1>5 DEF BlamesCurrent, EndRules, Unblamed
<1>6. CASE BlamesCurrent /\ cur.dropped # Len(curRoute.rules) /\ cur.dropped # 0 /\ cur.dropped \in Nat
  <2>1. cur.dropped > 0
    BY <1>6
  <2>. QED  BY Zenon, <1>3, <1>6, <2>1 DEF BlamesCurrent, EndRules, Unblamed
<1>. QED  BY Zenon, <1>4, <1>5, <1>6

LEMMA StatusInit == GatewayInit => StatusType
<1>. SUFFICES ASSUME GatewayInit PROVE StatusType
  OBVIOUS
<1>1. NoConditions \in Conditions
  BY Zenon DEF NoConditions, Conditions, AcceptedReasons
<1>2. routeStatus = [n \in DOMAIN routes |-> [i \in DOMAIN routes[n].parents |-> NoConditions]]
  BY Zenon DEF GatewayInit
<1>3. DOMAIN routeStatus = DOMAIN routes
  BY Zenon, <1>2
<1>4. \A n \in DOMAIN routes : routeStatus[n] = [i \in DOMAIN routes[n].parents |-> NoConditions]
  BY Zenon, <1>2
<1>5. ASSUME NEW n \in DOMAIN routes PROVE routeStatus[n] \in [DOMAIN routes[n].parents -> Conditions]
  BY Zenon, <1>1, <1>4
<1>. QED  BY Zenon, <1>3, <1>5 DEF StatusType

-----------------------------------------------------------------------------
(* The order of the routes *)

\* The routes that are taken come before the ones that wait.
OrderInv ==
    /\ \A m \in DOMAIN routes \ left, n \in left : Before(m, n)
    /\ \A m \in DOMAIN routes \ left, n \in DOMAIN routes : n = cur.route /\ m # n => Before(m, n)

LEMMA NextIsBefore ==
    ASSUME routes \in RouteLists, left \subseteq DOMAIN routes, NEW n \in left, n \in NextRoutes,
           NEW m \in left, m # n
    PROVE  Before(n, m)
<1>. DEFINE ofKind(k) == {j \in left : routes[j].kind = KindOrder[k]}
            kind == CHOOSE k \in 1..4 : ofKind(k) # {} /\ \A j \in 1..(k - 1) : ofKind(j) = {}
<1>1. KindOrder[1] = "HTTPRoute" /\ KindOrder[2] = "TLSRoute" /\ KindOrder[3] = "GRPCRoute" /\ KindOrder[4] = "TCPRoute"
  BY DEF KindOrder
<1>2. routes[n].kind \in RouteKinds
  BY Zenon, RoutesTyped
<1>3. ofKind(1) # {} \/ ofKind(2) # {} \/ ofKind(3) # {} \/ ofKind(4) # {}
  BY Zenon, <1>1, <1>2 DEF RouteKinds
<1>4. n \in ofKind(kind) /\ (KindOrder[kind] \in {"HTTPRoute", "GRPCRoute"} =>
                                \A j \in ofKind(kind) \ {n} : SortsBefore(n, j))
  BY Zenon DEF NextRoutes
<1>5. \E k \in 1..4 : ofKind(k) # {} /\ \A j \in 1..(k - 1) : ofKind(j) = {}
  <2>. HIDE DEF ofKind
  <2>1. CASE ofKind(1) # {}
    <3>1. 1 \in 1..4 /\ \A j \in 1..(1 - 1) : ofKind(j) = {}
      OBVIOUS
    <3>. QED  BY Zenon, <2>1, <3>1
  <2>2. CASE ofKind(1) = {} /\ ofKind(2) # {}
    <3>1. 2 \in 1..4 /\ \A j \in 1..(2 - 1) : j = 1
      OBVIOUS
    <3>. QED  BY Zenon, <2>2, <3>1
  <2>3. CASE ofKind(1) = {} /\ ofKind(2) = {} /\ ofKind(3) # {}
    <3>1. 3 \in 1..4 /\ \A j \in 1..(3 - 1) : j = 1 \/ j = 2
      OBVIOUS
    <3>. QED  BY Zenon, <2>3, <3>1
  <2>4. CASE ofKind(1) = {} /\ ofKind(2) = {} /\ ofKind(3) = {} /\ ofKind(4) # {}
    <3>1. 4 \in 1..4 /\ \A j \in 1..(4 - 1) : j = 1 \/ j = 2 \/ j = 3
      OBVIOUS
    <3>. QED  BY Zenon, <2>4, <3>1
  <2>. QED  BY Zenon, <1>3, <2>1, <2>2, <2>3, <2>4
<1>6. kind \in 1..4 /\ \A j \in 1..(kind - 1) : ofKind(j) = {}
  <2>. HIDE DEF ofKind
  <2>. QED  BY Zenon, <1>5
<1>7. routes[n].kind = KindOrder[kind]
  BY Zenon, <1>4
<1>8. ASSUME routes[n].kind = "GRPCRoute" PROVE routes[m].kind # "HTTPRoute"
  <2>. HIDE DEF kind
  <2>1. kind = 3
    <3>1. kind = 1 \/ kind = 2 \/ kind = 3 \/ kind = 4
      BY <1>6
    <3>. QED  BY Zenon, <1>1, <1>7, <1>8, <3>1
  <2>2. 1 \in 1..(3 - 1)
    OBVIOUS
  <2>3. ofKind(1) = {}
    BY Zenon, <1>6, <2>1, <2>2
  <2>. QED  BY Zenon, <1>1, <2>3
<1>9. ASSUME routes[n].kind = routes[m].kind, routes[n].kind \in {"HTTPRoute", "GRPCRoute"}
      PROVE  HasPrecedence(n, m)
  <2>. HIDE DEF kind
  <2>1. m \in ofKind(kind) \ {n}
    BY Zenon, <1>7, <1>9
  <2>. QED  BY Zenon, <1>4, <1>7, <1>9, <2>1 DEF SortsBefore, HasPrecedence
<1>. QED  BY Zenon, <1>8, <1>9 DEF Before

LEMMA OrderInit == GatewayInit => OrderInv
<1>. SUFFICES ASSUME GatewayInit PROVE OrderInv
  OBVIOUS
<1>1. left = DOMAIN routes
  BY Zenon DEF GatewayInit
<1>. QED  BY Zenon, <1>1 DEF OrderInv

LEMMA OrderStep == Walk /\ OrderInv /\ [GatewayNext]_gatewayVars => OrderInv'
<1>. SUFFICES ASSUME Walk, OrderInv, [GatewayNext]_gatewayVars PROVE OrderInv'
  BY Zenon
<1>1. routes' = routes /\ \A m, n : Before(m, n)' <=> Before(m, n)
  BY Zenon, AsksFixed
<1>2. ASSUME NEW t, RouteTaken(t) PROVE OrderInv'
  <2>1. t \in left /\ t \in NextRoutes /\ left' = left \ {t} /\ cur'.route = t
    BY Zenon, <1>2 DEF RouteTaken
  <2>2. \A m \in left : m # t => Before(t, m)
    BY Zenon, <2>1, NextIsBefore DEF Walk
  <2>3. ASSUME NEW m \in DOMAIN routes \ left', NEW n \in left' PROVE Before(m, n)
    BY Zenon, <2>1, <2>2, <2>3 DEF OrderInv
  <2>4. ASSUME NEW m \in DOMAIN routes \ left', NEW n \in DOMAIN routes, n = t, m # n PROVE Before(m, n)
    BY Zenon, <2>1, <2>4 DEF OrderInv
  <2>. QED  BY Zenon, <1>1, <2>1, <2>3, <2>4 DEF OrderInv
<1>3. ASSUME left' = left, cur'.route = cur.route PROVE OrderInv'
  BY Zenon, <1>1, <1>3 DEF OrderInv
<1>4. CASE RouteDone
  <2>1. left' = left /\ cur'.route = 0 /\ 0 \notin DOMAIN routes
    BY Zenon, <1>4, RoutesTyped DEF RouteDone, Walk
  <2>. QED  BY Zenon, <1>1, <2>1 DEF OrderInv
<1>5. CASE AroundRoutes \/ ParentDone \/ Halted \/ ListenersFound \/ (\E l : ListenerTaken(l)) \/ RuleDone
           \/ ListenerDone \/ Standing
  <2>1. left' = left /\ cur'.route = cur.route
    BY Zenon, <1>5 DEF AroundRoutes, ParentDone, Halted, ListenersFound, ListenerTaken, RuleDone, ListenerDone, Standing
  <2>. QED  BY Zenon, <1>3, <2>1
<1>. QED  BY Zenon, <1>2, <1>4, <1>5, Moves DEF Walk

-----------------------------------------------------------------------------
(* A route is blamed for a reason *)

\* Route m, of the kind of n and with precedence over it, or n itself with another rule, listener
\* or reference, asks for a place n asks for; or n has no rules.
Rivals(n, i, l, r, m, j, p, q, s, vh, k) ==
    /\ Offered(n, i, l, r, s, vh, k) /\ Offered(m, j, p, q, s, vh, k)
    /\ \/ m \in DOMAIN routes \ {n} /\ routes[m].kind = routes[n].kind /\ HasPrecedence(m, n)
       \/ m = n /\ ~(i = j /\ l = p /\ r = q)

Excuse(n) ==
    \/ \E i, l, r, m, j, p, q, s, vh, k : Rivals(n, i, l, r, m, j, p, q, s, vh, k)
    \/ Len(routes[n].rules) = 0

\* The offer of route n that Offered describes.
HasOffer(n, i, l, r, vh, k) ==
    \E o \in Offers(n) : /\ o.parent = i /\ o.listener = l /\ o.rule = r
                         /\ o.place = <<Secure(l), vh, k>>

LEMMA OfferOf ==
    ASSUME NEW n, NEW i, NEW l, NEW r, NEW s, NEW vh, NEW k, Offered(n, i, l, r, s, vh, k)
    PROVE  HasOffer(n, i, l, r, vh, k)
<1>1. PICK h \in HostsOf(n, i, l) : vh = VirtualHost(l, h)
  BY Zenon DEF Offered
<1>. DEFINE o == [parent |-> i, listener |-> l, rule |-> r, place |-> Place(l, h, k)]
<1>2. o \in Offers(n)
  BY Zenon, <1>1, OfferIs DEF Offered
<1>3. o.parent = i /\ o.listener = l /\ o.rule = r /\ o.place = Place(l, h, k)
  BY Zenon
<1>4. Place(l, h, k) = <<Secure(l), vh, k>>
  BY <1>1 DEF Place
<1>. HIDE DEF o
<1>. QED  BY Zenon, <1>2, <1>3, <1>4 DEF HasOffer

LEMMA ExcuseIs ==
    ASSUME NEW n, Excuse(n)
    PROVE  Excused(n)
<1>1. CASE Len(routes[n].rules) = 0
  BY Zenon, <1>1 DEF Excused
<1>2. CASE Len(routes[n].rules) # 0
  <2>1. PICK i, l, r, m, j, p, q, s, vh, k : Rivals(n, i, l, r, m, j, p, q, s, vh, k)
    BY Zenon, <1>2 DEF Excuse
  <2>2. Secure(l) = Secure(p)
    <3>1. Secure(l) <=> Secure(p)
      BY Zenon, <2>1 DEF Offered, Rivals
    <3>. QED  BY <3>1 DEF Secure
  <2>3. PICK o \in Offers(n) : o.parent = i /\ o.listener = l /\ o.rule = r /\ o.place = <<Secure(l), vh, k>>
    <3>1. HasOffer(n, i, l, r, vh, k)
      BY Zenon, <2>1, OfferOf DEF Rivals
    <3>. QED  BY Zenon, <3>1 DEF HasOffer
  <2>4. PICK w \in Offers(m) : w.parent = j /\ w.listener = p /\ w.rule = q /\ w.place = <<Secure(p), vh, k>>
    <3>1. HasOffer(m, j, p, q, vh, k)
      BY Zenon, <2>1, OfferOf DEF Rivals
    <3>. QED  BY Zenon, <3>1 DEF HasOffer
  <2>5. o.place = w.place
    BY <2>2, <2>3, <2>4
  <2>. QED  BY Zenon, <2>1, <2>3, <2>4, <2>5 DEF Rivals, Excused, OlderRival, AsksTwice
<1>. QED  BY Zenon, <1>1, <1>2

LEMMA ExcuseStays ==
    ASSUME [GatewayNext]_gatewayVars, NEW n, Excuse(n)
    PROVE  Excuse(n)'
<1>1. routes' = routes /\ \A m, i, l, r, s, vh, k : Offered(m, i, l, r, s, vh, k)' <=> Offered(m, i, l, r, s, vh, k)
  BY Zenon, AsksFixed
<1>2. CASE Len(routes[n].rules) = 0
  BY Zenon, <1>1, <1>2 DEF Excuse
<1>3. CASE Len(routes[n].rules) # 0
  <2>1. PICK i, l, r, m, j, p, q, s, vh, k : Rivals(n, i, l, r, m, j, p, q, s, vh, k)
    BY Zenon, <1>3 DEF Excuse
  <2>2. Offered(n, i, l, r, s, vh, k)' /\ Offered(m, j, p, q, s, vh, k)'
    BY Zenon, <1>1, <2>1 DEF Rivals
  <2>3. \/ m \in DOMAIN routes' \ {n} /\ routes'[m].kind = routes'[n].kind /\ HasPrecedence(m, n)'
        \/ m = n /\ ~(i = j /\ l = p /\ r = q)
    BY Zenon, <1>1, <2>1 DEF Rivals, HasPrecedence
  <2>4. Rivals(n, i, l, r, m, j, p, q, s, vh, k)'
    BY Zenon, <2>2, <2>3 DEF Rivals
  <2>. QED  BY Zenon, <2>4 DEF Excuse
<1>. QED  BY Zenon, <1>2, <1>3

\* A rule that is dropped meets a route of its kind that came before, or its own route.
LEMMA DroppedIsExcused ==
    ASSUME Walk, EntryInv, OrderInv, NEW before, DropRule(before), NEW n, n = cur.route
    PROVE  Excuse(n)
<1>1. /\ AtRule({"HTTPRoute", "GRPCRoute"}) /\ ~RuleIsSkipped
      /\ \E h \in cur.hosts : \E e \in RoutesAt(cur.listener, h) : e.match \in curKeys /\ e.kind = curRoute.kind
  BY Zenon DEF DropRule, ConflictingHosts, HasConflictRoute
<1>2. PICK h \in cur.hosts : \E e \in RoutesAt(cur.listener, h) : e.match \in curKeys /\ e.kind = curRoute.kind
  BY Zenon, <1>1
<1>3. PICK e \in RoutesAt(cur.listener, h) : e.match \in curKeys /\ e.kind = curRoute.kind
  BY Zenon, <1>2
<1>4. PICK i, l, r, s, vh, k : /\ i = cur.parent /\ l = cur.listener /\ r = cur.rule /\ k = e.match
                               /\ (s <=> Secure(cur.listener)) /\ vh = VirtualHost(cur.listener, h)
  BY Zenon
<1>5. Asked(s, vh, e)
  <2>1. e \in Entries(s, vh)
    BY Zenon, <1>3, <1>4 DEF RoutesAt, Entries
  <2>. QED  BY Zenon, <2>1 DEF EntryInv
<1>6. PICK m : m = e.route
  BY Zenon
<1>7. /\ m \in DOMAIN routes \ left /\ routes[m].kind = routes[n].kind
      /\ routes[n].kind \in {"HTTPRoute", "GRPCRoute"}
  BY Zenon, <1>1, <1>3, <1>5, <1>6 DEF Asked, AtRule, curRoute
<1>8. PICK j, p, q : Offered(m, j, p, q, s, vh, k) /\ (m = n => DoneAt(j, p, q))
  BY Zenon, <1>4, <1>5, <1>6 DEF Asked
<1>9. n \in DOMAIN routes \ left /\ Offered(n, i, l, r, s, vh, k)
  <2>1. k \in curKeys /\ (s <=> Secure(cur.listener))
    BY Zenon, <1>3, <1>4
  <2>2. /\ cur.route \in DOMAIN routes \ left
        /\ Offered(cur.route, cur.parent, cur.listener, cur.rule, s, VirtualHost(cur.listener, h), k)
    BY Zenon, <1>1, <2>1, AddedIsOffered
  <2>. QED  BY Zenon, <1>4, <2>2
<1>10. CASE m # n
  <2>1. HasPrecedence(m, n)
    BY Zenon, <1>7, <1>9, <1>10 DEF OrderInv, Before
  <2>2. Rivals(n, i, l, r, m, j, p, q, s, vh, k)
    BY Zenon, <1>7, <1>8, <1>9, <1>10, <2>1 DEF Rivals
  <2>. QED  BY Zenon, <2>2 DEF Excuse
<1>11. CASE m = n
  <2>1. step = "rule" /\ i \in Nat /\ r \in Nat
    BY Zenon, <1>1, <1>4 DEF AtRule, Walk, InRules
  <2>2. ~(i < i) /\ ~(r < r)
    BY <2>1
  <2>3. ~(i = j /\ l = p /\ r = q)
    BY Zenon, <1>4, <1>8, <1>11, <2>1, <2>2 DEF DoneAt
  <2>4. Rivals(n, i, l, r, m, j, p, q, s, vh, k)
    BY Zenon, <1>8, <1>9, <1>11, <2>3 DEF Rivals
  <2>. QED  BY Zenon, <2>4 DEF Excuse
<1>. QED  BY Zenon, <1>10, <1>11

\* A route that is blamed, or has dropped a rule at the current listener, has an excuse.
BlameInv ==
    /\ \A n \in DOMAIN routes : \A i \in DOMAIN routes[n].parents : Blamed(n, i) => Excuse(n)
    /\ step = "rule" /\ cur.dropped # 0 => \A n : n = cur.route => Excuse(n)

GatewayInv == Walk /\ StatusType /\ OrderInv /\ EntryInv /\ BlameInv

LEMMA BlameInit == GatewayInit => BlameInv
<1>. SUFFICES ASSUME GatewayInit PROVE BlameInv
  OBVIOUS
<1>1. step = "start"
  BY Zenon DEF GatewayInit
<1>2. routeStatus = [n \in DOMAIN routes |-> [i \in DOMAIN routes[n].parents |-> NoConditions]]
  BY Zenon DEF GatewayInit
<1>3. \A n \in DOMAIN routes : routeStatus[n] = [i \in DOMAIN routes[n].parents |-> NoConditions]
  BY Zenon, <1>2
<1>4. \A n \in DOMAIN routes : \A i \in DOMAIN routes[n].parents : routeStatus[n][i] = NoConditions
  BY Zenon, <1>3
<1>5. NoConditions.Accepted = "unset" /\ ~NoConditions.PartiallyInvalid
  BY Zenon DEF NoConditions
<1>6. \A n \in DOMAIN routes : \A i \in DOMAIN routes[n].parents : ~Blamed(n, i)
  BY Zenon, <1>4, <1>5 DEF Blamed
<1>. QED  BY Zenon, <1>1, <1>6 DEF BlameInv

LEMMA BlameStep == GatewayInv /\ [GatewayNext]_gatewayVars => BlameInv'
<1>. SUFFICES ASSUME GatewayInv, [GatewayNext]_gatewayVars PROVE BlameInv'
  BY Zenon
<1>. USE DEF GatewayInv
<1>1. routes' = routes /\ \A n : Excuse(n) => Excuse(n)'
  BY Zenon, AsksFixed, ExcuseStays
<1>2. ASSUME NEW n \in DOMAIN routes, NEW i \in DOMAIN routes[n].parents, Blamed(n, i)' PROVE Excuse(n)'
  <2>1. CASE Blamed(n, i)
    BY Zenon, <1>1, <2>1 DEF BlameInv
  <2>2. CASE n = cur.route /\ BlamesCurrent /\ routeStatus' # routeStatus
    <3>1. step = "rule" /\ curRoute = routes[n]
      BY Zenon, <2>2 DEF BlamesCurrent, EndRules, curRoute
    <3>2. CASE cur.dropped # 0
      BY Zenon, <1>1, <2>2, <3>1, <3>2 DEF BlameInv
    <3>3. CASE cur.dropped = 0
      <4>1. ~(cur.dropped > 0)
        BY <3>3
      <4>2. Len(routes[n].rules) = 0
        BY Zenon, <2>2, <3>1, <3>3, <4>1 DEF BlamesCurrent, EndRules
      <4>. QED  BY Zenon, <1>1, <4>2 DEF Excuse
    <3>. QED  BY Zenon, <3>2, <3>3
  <2>. QED  BY Zenon, <1>2, <2>1, <2>2, StatusStep
<1>3. ASSUME step' = "rule", cur'.dropped # 0, NEW n, n = cur'.route PROVE Excuse(n)'
  <2>1. CASE step = "rule" /\ cur.dropped # 0 /\ cur'.route = cur.route
    BY Zenon, <1>1, <1>3, <2>1 DEF BlameInv
  <2>2. ASSUME NEW before, DropRule(before) PROVE Excuse(n)'
    <3>1. n = cur.route
      BY Zenon, <1>3, <2>2 DEF DropRule, Walk, CurShape
    <3>. QED  BY Zenon, <1>1, <2>2, <3>1, DroppedIsExcused
  <2>3. ASSUME NEW l, ListenerTaken(l) PROVE FALSE
    BY Zenon, <1>3, <2>3 DEF ListenerTaken
  <2>4. CASE SkipRule \/ AddRule \/ computeTLSRouteForListener
    <3>1. step = "rule" /\ cur'.dropped = cur.dropped /\ cur'.route = cur.route
      BY Zenon, <2>4 DEF SkipRule, AddRule, computeTLSRouteForListener, AtRule, Walk, CurShape
    <3>. QED  BY Zenon, <1>3, <2>1, <3>1
  <2>5. CASE Standing
    BY Zenon, <1>3, <2>1, <2>5 DEF Standing
  <2>6. CASE RuleDone
    <3>1. \/ SkipRule \/ AddRule \/ computeTLSRouteForListener \/ (\E before : DropRule(before))
          \/ UNCHANGED gatewayVars
      BY Zenon, <2>6 DEF GatewayNext, RuleDone, NotConfigured, ComputeListeners, StartRoute, SkipParent,
         RejectForGateway, Panic, getListenersForRouteParentRef, StartListener, computeTCPRouteForListener,
         EndRules, EndParent, EndRoute, computeGatewayConditions, AtParent
    <3>2. CASE UNCHANGED gatewayVars
      BY Zenon, <1>3, <2>1, <2>6, <3>2 DEF RuleDone, gatewayVars
    <3>. QED  BY Zenon, <2>2, <2>4, <3>1, <3>2
  <2>7. CASE AroundRoutes \/ (\E m : RouteTaken(m)) \/ ParentDone \/ Halted \/ ListenersFound \/ ListenerDone \/ RouteDone
    BY Zenon, <1>3, <2>7 DEF AroundRoutes, RouteTaken, ParentDone, Halted, ListenersFound, ListenerDone, RouteDone
  <2>. QED  BY Zenon, <2>3, <2>5, <2>6, <2>7, Moves DEF Walk
<1>. QED  BY Zenon, <1>1, <1>2, <1>3 DEF BlameInv

LEMMA GatewayInvInit == GatewayInit => GatewayInv
  BY Zenon, WalkInit, StatusInit, OrderInit, EntryInit, BlameInit DEF GatewayInv

LEMMA GatewayInvStep == GatewayInv /\ [GatewayNext]_gatewayVars => GatewayInv'
  BY Zenon, WalkStep, StatusStep, OrderStep, EntryStep, BlameStep DEF GatewayInv

\* A route gets the condition of a rule conflict, or of a partial one, only when an older route
\* of its kind asks for one of its matches on one of its virtual hosts, or it asks for such a
\* place twice itself, or it has no rules: for every Gateway, every list of routes and every
\* order of the Go maps.
THEOREM ConflictsBlameOlderAlways == GatewaySpec => []ConflictsBlameOlder
<1>1. GatewayInv => ConflictsBlameOlder
  <2>. SUFFICES ASSUME GatewayInv, NEW n \in DOMAIN routes, NEW i \in DOMAIN routeStatus[n], Blamed(n, i)
                PROVE  Excused(n)
    BY Zenon DEF ConflictsBlameOlder, Excused
  <2>1. DOMAIN routeStatus[n] = DOMAIN routes[n].parents
    <3>1. routeStatus[n] \in [DOMAIN routes[n].parents -> Conditions]
      BY Zenon DEF GatewayInv, StatusType
    <3>. QED  BY Zenon, <3>1
  <2>. QED  BY Zenon, <2>1, ExcuseIs DEF GatewayInv, BlameInv
<1>. QED  BY <1>1, GatewayInvInit, GatewayInvStep, PTL DEF GatewaySpec

-----------------------------------------------------------------------------
(* An accepted route is served *)

\* The place belongs to the route, or to a GRPCRoute that took it from the HTTPRoute.
Held(n, s, vh, k) ==
    \E e \in Entries(s, vh) :
        e.match = k /\ (e.route = n \/ (e.kind = "GRPCRoute" /\ routes[n].kind = "HTTPRoute"))

\* The route is through with what it asks for here, and has dropped nothing of it.
Settled(n, i, l, r) ==
    n = cur.route =>
        /\ DoneAt(i, l, r)
        /\ step = "rule" /\ i = cur.parent /\ l = cur.listener => cur.dropped = 0

Served(n, i, l, r, s, vh, k) ==
    Offered(n, i, l, r, s, vh, k) /\ Unblamed(n, i) /\ Settled(n, i, l, r) => Held(n, s, vh, k)

ServedInv ==
    \A n \in DOMAIN routes \ left : routes[n].kind \in {"HTTPRoute", "GRPCRoute"} =>
        \A i, l, r, s, vh, k : Served(n, i, l, r, s, vh, k)

\* The step that adds a rule adds it at every host of the listener.
LEMMA RuleAdded ==
    ASSUME Walk, AddRule, NEW s, NEW vh
    PROVE  Entries(s, vh)' = IF (s <=> Secure(cur.listener)) /\ vh \in curHosts(cur.hosts) /\ curKeys # {}
                             THEN PutRoutes(Entries(s, vh), cur.route, cur.rule, curKeys) ELSE Entries(s, vh)
<1>. DEFINE vhs == IF curKeys = {} THEN {} ELSE curHosts(cur.hosts)
<1>1. AddToVirtualHosts(cur.listener, vhs, cur.route, cur.rule, curKeys) /\ HostsShape
  BY Zenon DEF AddRule, Walk
<1>2. vh \in vhs <=> vh \in curHosts(cur.hosts) /\ curKeys # {}
  BY Zenon
<1>. HIDE DEF vhs
<1>3. Entries(s, vh)' = IF (s <=> Secure(cur.listener)) /\ vh \in vhs
                        THEN PutRoutes(Entries(s, vh), cur.route, cur.rule, curKeys) ELSE Entries(s, vh)
  BY <1>1, EntriesAdded
<1>. QED  BY Zenon, <1>2, <1>3

\* A place that is held stays held.
LEMMA HeldStays ==
    ASSUME Walk, OrderInv, EntryInv, [GatewayNext]_gatewayVars, NEW n, NEW s, NEW vh, NEW k, Held(n, s, vh, k)
    PROVE  Held(n, s, vh, k)'
<1>1. routes' = routes
  BY Zenon, AsksFixed
<1>2. PICK e \in Entries(s, vh) : e.match = k /\ (e.route = n \/ (e.kind = "GRPCRoute" /\ routes[n].kind = "HTTPRoute"))
  BY Zenon DEF Held
<1>3. CASE e \in Entries(s, vh)'
  BY Zenon, <1>1, <1>2, <1>3 DEF Held
<1>4. CASE e \notin Entries(s, vh)'
  <2>1. AddRule
    BY Zenon, <1>2, <1>4, EntriesKept DEF Walk
  <2>2. /\ s <=> Secure(cur.listener)
        /\ vh \in curHosts(cur.hosts)
        /\ Entries(s, vh)' = PutRoutes(Entries(s, vh), cur.route, cur.rule, curKeys)
    BY Zenon, <1>4, <2>1, RuleAdded
  <2>3. k \in curKeys
    BY Zenon, <1>2, <1>4, <2>2 DEF PutRoutes
  <2>4. PICK h \in cur.hosts : vh = VirtualHost(cur.listener, h)
    BY Zenon, <2>2 DEF curHosts
  <2>5. e \in RoutesAt(cur.listener, h)
    BY Zenon, <1>2, <2>2, <2>4 DEF RoutesAt, Entries
  <2>6. e.kind # curRoute.kind
    BY Zenon, <1>2, <2>1, <2>3, <2>5 DEF AddRule, ConflictingHosts, HasConflictRoute
  <2>7. PICK m, c, r : m = e.route /\ c = cur.route /\ r = cur.rule
    BY Zenon
  <2>8. m \in DOMAIN routes \ left /\ e.kind = routes[m].kind /\ e.kind \in {"HTTPRoute", "GRPCRoute"}
    <3>1. Asked(s, vh, e)
      BY Zenon, <1>2 DEF EntryInv
    <3>. QED  BY Zenon, <2>7, <3>1 DEF Asked
  <2>9. c \in DOMAIN routes \ left /\ routes[c].kind \in {"HTTPRoute", "GRPCRoute"} /\ routes[c].kind # e.kind
    BY Zenon, <2>1, <2>6, <2>7 DEF AddRule, AtRule, Walk, curRoute
  <2>10. Before(m, c)
    BY Zenon, <2>7, <2>8, <2>9 DEF OrderInv
  <2>11. e.kind = "HTTPRoute" /\ routes[c].kind = "GRPCRoute"
    BY Zenon, <2>8, <2>9, <2>10 DEF Before
  <2>12. routes[n].kind = "HTTPRoute"
    BY Zenon, <1>2, <2>7, <2>8, <2>11
  <2>13. Entry(c, r, k) \in Entries(s, vh)'
    BY Zenon, <2>2, <2>3, <2>7 DEF PutRoutes, Entry
  <2>14. Entry(c, r, k).match = k /\ Entry(c, r, k).kind = routes[c].kind
    BY Zenon DEF Entry
  <2>. QED  BY Zenon, <1>1, <2>11, <2>12, <2>13, <2>14 DEF Held
<1>. QED  BY Zenon, <1>3, <1>4

\* The rule that is added holds the places it asks for.
LEMMA AddedIsHeld ==
    ASSUME Walk, [GatewayNext]_gatewayVars, AddRule, NEW n, NEW i, NEW l, NEW r, NEW s, NEW vh, NEW k,
           n = cur.route, i = cur.parent, l = cur.listener, r = cur.rule, Offered(n, i, l, r, s, vh, k)
    PROVE  Held(n, s, vh, k)'
<1>1. k \in curKeys /\ (s <=> Secure(cur.listener))
  BY Zenon DEF Offered, KeysOf, curKeys, curRule, curRoute
<1>2. cur.hosts = HostsOf(n, i, l)
  BY Zenon DEF AddRule, AtRule, Walk, InRules, curRoute
<1>3. vh \in curHosts(cur.hosts)
  BY Zenon, <1>2 DEF Offered, curHosts
<1>4. Entries(s, vh)' = PutRoutes(Entries(s, vh), cur.route, cur.rule, curKeys)
  BY Zenon, <1>1, <1>3, RuleAdded
<1>5. Entry(n, r, k) \in Entries(s, vh)'
  BY Zenon, <1>1, <1>4 DEF PutRoutes, Entry
<1>6. Entry(n, r, k).match = k /\ Entry(n, r, k).route = n
  BY Zenon DEF Entry
<1>. QED  BY Zenon, <1>5, <1>6 DEF Held

\* The actions that deal with a rule.
LEMMA RuleSteps ==
    ASSUME RuleDone, [GatewayNext]_gatewayVars
    PROVE  \/ SkipRule \/ AddRule \/ computeTLSRouteForListener \/ (\E before : DropRule(before))
           \/ UNCHANGED gatewayVars
  BY Zenon DEF GatewayNext, RuleDone, NotConfigured, ComputeListeners, StartRoute, SkipParent,
     RejectForGateway, Panic, getListenersForRouteParentRef, StartListener, computeTCPRouteForListener,
     EndRules, EndParent, EndRoute, computeGatewayConditions, AtParent

\* What is settled after a step was settled before it, unless the step adds the rule.
LEMMA SettledBefore ==
    ASSUME Walk, StatusType, [GatewayNext]_gatewayVars,
           NEW n \in DOMAIN routes \ left', routes[n].kind \in {"HTTPRoute", "GRPCRoute"},
           NEW i, NEW l, NEW r, NEW s, NEW vh, NEW k, Offered(n, i, l, r, s, vh, k),
           Unblamed(n, i)', Settled(n, i, l, r)'
    PROVE  \/ n \notin left /\ Settled(n, i, l, r)
           \/ AddRule /\ n = cur.route /\ i = cur.parent /\ l = cur.listener /\ r = cur.rule
<1>1. /\ n # 0
      /\ i \in 1..Len(routes[n].parents) /\ Len(routes[n].parents) \in Nat /\ i \in DOMAIN routes[n].parents
      /\ r \in 1..Len(routes[n].rules) /\ Len(routes[n].rules) \in Nat
  BY Zenon, RoutesTyped DEF Walk, Offered, Asking
<1>2. CASE n = cur'.route
  <2>1. DoneAt(i, l, r)' /\ (step' = "rule" /\ i = cur'.parent /\ l = cur'.listener => cur'.dropped = 0)
    BY Zenon, <1>2 DEF Settled
  <2>2. /\ n = cur.route
        /\ \/ DoneAt(i, l, r)
           \/ RejectForGateway /\ i = cur.parent
           \/ RuleDone /\ i = cur.parent /\ l = cur.listener /\ r = cur.rule
    <3>1. routes[n].kind # "TCPRoute"
      BY Zenon
    <3>. QED  BY Zenon, <1>2, <2>1, <3>1, Progress
  <2>3. n \notin left
    BY Zenon, <1>1, <2>2 DEF Walk
  <2>4. CASE RejectForGateway /\ i = cur.parent
    BY Zenon, <1>1, <2>2, <2>4, Condemned
  <2>5. ASSUME RuleDone, i = cur.parent, l = cur.listener PROVE cur.dropped = 0 /\ ~\E before : DropRule(before)
    <3>1. cur.dropped \in Nat /\ cur'.dropped = 0
      BY Zenon, <2>1, <2>5 DEF RuleDone, Walk, InRules
    <3>2. cur.dropped + 1 # 0
      BY <3>1
    <3>3. ASSUME NEW before, DropRule(before) PROVE cur'.dropped = cur.dropped + 1
      BY Zenon, <3>3 DEF DropRule, Walk, CurShape
    <3>. QED  BY Zenon, <2>5, <3>1, <3>2, <3>3 DEF RuleDone
  <2>6. CASE RuleDone /\ i = cur.parent /\ l = cur.listener /\ r = cur.rule
    <3>1. ~SkipRule /\ ~computeTLSRouteForListener
      BY Zenon, <2>2, <2>6 DEF SkipRule, computeTLSRouteForListener, AtRule, RuleIsSkipped, curRule, curRoute,
         Offered, Asking
    <3>2. ASSUME UNCHANGED gatewayVars PROVE FALSE
      <4>1. cur' = cur /\ cur.rule \in Nat /\ cur'.rule = cur.rule + 1
        BY Zenon, <2>6, <3>2 DEF gatewayVars, RuleDone, Walk, InRules
      <4>. QED  BY <4>1
    <3>. QED  BY Zenon, <2>2, <2>5, <2>6, <3>1, <3>2, RuleSteps
  <2>7. CASE DoneAt(i, l, r)
    <3>1. ASSUME step = "rule", i = cur.parent, l = cur.listener PROVE cur.dropped = 0
      <4>1. CASE RuleDone
        BY Zenon, <2>5, <3>1, <4>1
      <4>2. CASE Standing
        BY Zenon, <2>1, <3>1, <4>2 DEF Standing
      <4>3. CASE ListenerDone
        <5>1. EndRules \/ computeTCPRouteForListener
          BY Zenon, <4>3 DEF ListenerDone, GatewayNext, gatewayVars, NotConfigured, ComputeListeners, StartRoute,
             SkipParent, RejectForGateway, Panic, getListenersForRouteParentRef, StartListener, SkipRule, AddRule,
             DropRule, computeTLSRouteForListener, EndParent, EndRoute, computeGatewayConditions, AtRule, AtParent
        <5>2. BlamesCurrent
          BY Zenon, <2>2, <5>1 DEF BlamesCurrent, computeTCPRouteForListener, curRoute
        <5>3. cur.dropped \in Nat
          BY Zenon, <3>1 DEF Walk, InRules
        <5>. QED  BY Zenon, <1>1, <2>2, <3>1, <5>2, <5>3, Condemned
      <4>. QED  BY Zenon, <3>1, <4>1, <4>2, <4>3, Moves DEF Walk, AroundRoutes, RouteTaken, ParentDone, Halted,
                   ListenersFound, ListenerTaken, RouteDone, AtParent, RejectForGateway
    <3>. QED  BY Zenon, <2>3, <2>7, <3>1 DEF Settled
  <2>. QED  BY Zenon, <2>2, <2>4, <2>6, <2>7
<1>3. CASE n # cur'.route
  <2>1. n \notin left
    BY Zenon, <1>3, Moves DEF Walk, AroundRoutes, RouteTaken, ParentDone, Halted, ListenersFound, ListenerTaken,
       RuleDone, ListenerDone, RouteDone, Standing
  <2>2. CASE n # cur.route
    BY Zenon, <2>1, <2>2 DEF Settled
  <2>3. CASE n = cur.route
    <3>1. RouteDone
      BY Zenon, <1>1, <1>3, <2>3, Moves DEF Walk, AroundRoutes, RouteTaken, ParentDone, Halted, ListenersFound,
         ListenerTaken, RuleDone, ListenerDone, Standing
    <3>2. cur.parent \in Nat /\ cur.parent > Len(routes[n].parents) /\ step = "parent"
      BY Zenon, <2>3, <3>1 DEF RouteDone, Walk, curRoute
    <3>3. i < cur.parent
      BY <1>1, <3>2
    <3>. QED  BY Zenon, <2>1, <3>2, <3>3 DEF Settled, DoneAt
  <2>. QED  BY Zenon, <2>2, <2>3
<1>. QED  BY Zenon, <1>2, <1>3

LEMMA ServedInit == GatewayInit => ServedInv
<1>. SUFFICES ASSUME GatewayInit PROVE ServedInv
  OBVIOUS
<1>1. left = DOMAIN routes
  BY Zenon DEF GatewayInit
<1>. QED  BY Zenon, <1>1 DEF ServedInv

LEMMA ServedStep == GatewayInv /\ ServedInv /\ [GatewayNext]_gatewayVars => ServedInv'
<1>. SUFFICES ASSUME GatewayInv, ServedInv, [GatewayNext]_gatewayVars PROVE ServedInv'
  BY Zenon
<1>1. Walk /\ StatusType /\ OrderInv /\ EntryInv
  BY Zenon DEF GatewayInv
<1>2. routes' = routes /\ \A n, i, l, r, s, vh, k : Offered(n, i, l, r, s, vh, k)' <=> Offered(n, i, l, r, s, vh, k)
  BY Zenon, AsksFixed
<1>3. ASSUME NEW n \in DOMAIN routes \ left', routes[n].kind \in {"HTTPRoute", "GRPCRoute"},
             NEW i, NEW l, NEW r, NEW s, NEW vh, NEW k
      PROVE  Served(n, i, l, r, s, vh, k)'
  <2>. SUFFICES ASSUME Offered(n, i, l, r, s, vh, k), Unblamed(n, i)', Settled(n, i, l, r)'
                PROVE  Held(n, s, vh, k)'
    BY Zenon, <1>2 DEF Served
  <2>1. \/ n \notin left /\ Settled(n, i, l, r)
        \/ AddRule /\ n = cur.route /\ i = cur.parent /\ l = cur.listener /\ r = cur.rule
    BY Zenon, <1>1, <1>3, SettledBefore
  <2>2. CASE n \notin left /\ Settled(n, i, l, r)
    <3>1. i \in DOMAIN routes[n].parents
      BY Zenon DEF Offered
    <3>2. Unblamed(n, i)
      BY Zenon, <1>1, <1>3, <3>1, StatusStep
    <3>3. Held(n, s, vh, k)
      <4>1. Served(n, i, l, r, s, vh, k)
        BY Zenon, <1>3, <2>2 DEF ServedInv
      <4>. QED  BY Zenon, <2>2, <3>2, <4>1 DEF Served
    <3>. QED  BY Zenon, <1>1, <3>3, HeldStays
  <2>3. CASE AddRule /\ n = cur.route /\ i = cur.parent /\ l = cur.listener /\ r = cur.rule
    BY Zenon, <1>1, <1>3, <2>3, AddedIsHeld
  <2>. QED  BY Zenon, <2>1, <2>2, <2>3
<1>. QED  BY Zenon, <1>2, <1>3 DEF ServedInv

\* An HTTPRoute or GRPCRoute whose reference is accepted without a partial conflict serves every
\* place it asks for through it, from then on to the end of the run; only a GRPCRoute can take a
\* place from an HTTPRoute: for every Gateway, every list of routes and every order of the Go maps.
THEOREM AcceptedMeansServedAlways == GatewaySpec => []AcceptedMeansServed
<1>1. ServedInv => AcceptedMeansServed
  <2>. SUFFICES ASSUME ServedInv, NEW n \in Processed, routes[n].kind \in {"HTTPRoute", "GRPCRoute"},
                       NEW o \in Offers(n), routeStatus[n][o.parent].Accepted = "True",
                       ~routeStatus[n][o.parent].PartiallyInvalid
                PROVE  \E e \in EntriesAt(o.place) :
                          e.route = n \/ (e.kind = "GRPCRoute" /\ routes[n].kind = "HTTPRoute")
    BY Zenon DEF AcceptedMeansServed
  <2>1. PICK i, l, r, h, k :
              /\ i \in DOMAIN routes[n].parents /\ IsRefToGateway(routes[n].parents[i])
              /\ l \in Allowed(n, i) /\ r \in Asking(routes[n])
              /\ h \in HostsOf(n, i, l) /\ k \in KeysOf(n, r)
              /\ o = [parent |-> i, listener |-> l, rule |-> r, place |-> Place(l, h, k)]
    BY OfferFor
  <2>2. o.parent = i /\ o.place = Place(l, h, k)
    BY Zenon, <2>1
  <2>3. PICK s, vh : s = Secure(l) /\ vh = VirtualHost(l, h)
    BY Zenon
  <2>4. o.place[1] = s /\ o.place[2] = vh /\ o.place[3] = k
    BY <2>2, <2>3 DEF Place
  <2>5. Offered(n, i, l, r, s, vh, k)
    BY Zenon, <2>1, <2>3 DEF Offered
  <2>6. n \in DOMAIN routes \ left /\ Settled(n, i, l, r) /\ Unblamed(n, i)
    BY Zenon, <2>2 DEF Processed, Settled, Unblamed
  <2>7. PICK e \in Entries(s, vh) :
              e.match = k /\ (e.route = n \/ (e.kind = "GRPCRoute" /\ routes[n].kind = "HTTPRoute"))
    <3>1. Served(n, i, l, r, s, vh, k)
      BY Zenon, <2>6 DEF ServedInv
    <3>. QED  BY Zenon, <2>5, <2>6, <3>1 DEF Served, Held
  <2>8. e \in EntriesAt(o.place)
    <3>1. CASE s
      BY Zenon, <2>4, <2>7, <3>1 DEF EntriesAt, Entries, NoEntries
    <3>2. CASE ~s
      BY Zenon, <2>4, <2>7, <3>2 DEF EntriesAt, Entries, NoEntries
    <3>. QED  BY Zenon, <3>1, <3>2
  <2>. QED  BY Zenon, <2>7, <2>8
<1>. QED  BY <1>1, GatewayInvInit, GatewayInvStep, ServedInit, ServedStep, PTL DEF GatewaySpec
=============================================================================
