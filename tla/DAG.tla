--------------------------------- MODULE DAG ---------------------------------
(***************************************************************************)
(* The DAG: what the processors build out of the Kubernetes objects and    *)
(* what the resource caches read (internal/dag/dag.go, accessors.go,       *)
(* builder.go).  Operators only; IngressProcessor, ExtensionServices and   *)
(* RootProxies write DAGs, XdsResources reads them.                        *)
(*                                                                         *)
(* A pointer that may be nil is a set of at most one element.  A map that  *)
(* is keyed by a field of its values is a set of values.                   *)
(***************************************************************************)
EXTENDS Naturals, Sequences

Is(pointer) == pointer # {}
The(pointer) == CHOOSE x \in pointer : TRUE

-----------------------------------------------------------------------------
(* Services. *)

\* A Service has a sequence of ports, for each protocol the names and numbers of ports that
\* its annotation lists, and a DNS name when its type is ExternalName.  Port numbers are
\* strings, as a name that reads as a number is one.
Matching(s, port) == {i \in DOMAIN s.ports : port \in {s.ports[i].number, s.ports[i].name}}

\* The first port that matches, nil when none does or it is not a TCP port.
LookupService(services, name, port) ==
  UNION {{[service |-> s, port |-> s.ports[i]] :
            i \in {k \in Matching(s, port) : /\ \A j \in Matching(s, port) : k <= j
                                            /\ s.ports[k].tcp}} :
         s \in {x \in services : x.name = name}}

localhostNames == {"localhost", "localhost.localdomain", "local.projectcontour.io"}

validateExternalName(s, enabled) ==
  s.external = "" \/ (enabled /\ s.external \notin localhostNames)

toContourProtocol(app) ==
  CASE app = "kubernetes.io/h2c" -> "h2c"
    [] app = "https"             -> "tls"
    [] OTHER                     -> ""

\* A port that is listed for several protocols has the last of them.
ParseUpstreamProtocols(lists, port) ==
  CASE port \in lists.tls -> "tls"
    [] port \in lists.h2c \ lists.tls -> "h2c"
    [] port \in lists.h2 \ (lists.tls \cup lists.h2c) -> "h2"
    [] OTHER -> ""

upstreamProtocol(s, p) ==
  IF p.app # "" THEN toContourProtocol(p.app)
  ELSE IF ParseUpstreamProtocols(s.upstream, p.name) # ""
       THEN ParseUpstreamProtocols(s.upstream, p.name)
  ELSE ParseUpstreamProtocols(s.upstream, p.number)

\* The service to put into the DAG, nil when there is an error.
EnsureService(services, name, port, healthPort, externalEnabled) ==
  {[name |-> f.service.name, port |-> f.port.number, portName |-> f.port.name,
    health |-> h.port.number, weight |-> 1,
    protocol |-> upstreamProtocol(f.service, f.port), external |-> f.service.external] :
     f \in {x \in LookupService(services, name, port) :
              validateExternalName(x.service, externalEnabled)},
     h \in LookupService(services, name, IF healthPort = "" THEN port ELSE healthPort)}

-----------------------------------------------------------------------------
(* Clusters, routes, virtual hosts, listeners.                             *)
(* Strings that are concatenated into the name of a cluster are sequences. *)

\* A cluster of service s with the settings every processor starts from.
Cluster(s) ==
  [upstream |-> s, weight |-> 0, protocol |-> s.protocol, lb |-> <<>>,
   httpHealth |-> {}, tcpHealth |-> {}, validation |-> {}, sni |-> <<>>,
   idle |-> {}, connect |-> 0, slowStart |-> {}, clientCertificate |-> {}]

\* A path condition with header and query parameter conditions, and what is done
\* with a request that meets them.
Route(match, clusters) ==
  [match |-> match, kind |-> "", httpsUpgrade |-> FALSE, clusters |-> clusters,
   mirrors |-> {}, directResponse |-> {}, redirect |-> {}, authDisabled |-> FALSE, jwt |-> ""]

VirtualHost(name) == [name |-> name, routes |-> {}]

SecureVirtualHost(name) ==
  [name |-> name, routes |-> {}, minTLS |-> 0, maxTLS |-> 0, secret |-> {}, fallback |-> {},
   tcpproxy |-> {}, validation |-> {}, authorization |-> {}, jwtProviders |-> {}]

Listener(name, protocol, routeConfig, fallbackRouteConfig) ==
  [name |-> name, protocol |-> protocol, routeConfig |-> routeConfig,
   fallbackRouteConfig |-> fallbackRouteConfig,
   vhosts |-> {}, svhosts |-> {}, tcpproxy |-> {}]

\* A map keyed by the conditions: a route replaces the one with the same conditions.
AddRoute(vhost, route) ==
  [vhost EXCEPT !.routes = {r \in @ : r.match # route.match} \cup {route}]

HasConflictRoute(vhost, route) ==
  \E r \in vhost.routes : r.match = route.match /\ r.kind = route.kind

Valid(vhost) == vhost.routes # {}

ValidSecure(svhost) ==
  (Is(svhost.secret) /\ svhost.routes # {}) \/ Is(svhost.tcpproxy)

-----------------------------------------------------------------------------
(* Access to listeners and virtual hosts. *)

\* The listener of this protocol, nil when there is none or more than one.
GetSingleListener(dag, protocol) ==
  LET ls == {l \in dag.listeners : l.protocol = protocol}
  IN {l \in ls : \A k \in ls : k = l}

GetSecureVirtualHost(listener, host) == {v \in listener.svhosts : v.name = host}
GetVirtualHost(listener, host) == {v \in listener.vhosts : v.name = host}

EnsureSecureVirtualHost(listener, host) ==
  IF Is(GetSecureVirtualHost(listener, host)) THEN The(GetSecureVirtualHost(listener, host))
  ELSE SecureVirtualHost(host)

EnsureVirtualHost(listener, host) ==
  IF Is(GetVirtualHost(listener, host)) THEN The(GetVirtualHost(listener, host))
  ELSE VirtualHost(host)

\* The virtual hosts are pointers: writing one writes the DAG.
WithListener(dag, l) ==
  [dag EXCEPT !.listeners = {k \in @ : k.name # l.name} \cup {l}]
WithVirtualHost(l, v) == [l EXCEPT !.vhosts = {w \in @ : w.name # v.name} \cup {v}]
WithSecureVirtualHost(l, v) == [l EXCEPT !.svhosts = {w \in @ : w.name # v.name} \cup {v}]

-----------------------------------------------------------------------------
(* What the resource caches ask the DAG for. *)

RouteClusters(r) == {r.clusters[i] : i \in DOMAIN r.clusters} \cup r.mirrors
ProxyClusters(tcpproxy) == UNION {{p[i] : i \in DOMAIN p} : p \in tcpproxy}
HostClusters(v) == UNION {RouteClusters(r) : r \in v.routes}

GetClusters(dag) ==
  UNION {ProxyClusters(l.tcpproxy)
           \cup UNION {HostClusters(v) : v \in l.vhosts}
           \cup UNION {HostClusters(v) \cup ProxyClusters(v.tcpproxy) : v \in l.svhosts} :
         l \in dag.listeners}

GetDNSNameClusters(dag) ==
  UNION {UNION {v.jwtProviders : v \in l.svhosts} : l \in dag.listeners}

ClusterLoadAssignmentName(s) == <<s.name, s.portName>>

GetServiceClusters(dag) ==
  {[name |-> ClusterLoadAssignmentName(c.upstream), services |-> <<c.upstream>>] :
     c \in {x \in GetClusters(dag) : x.upstream.external = ""}}
    \cup {e.upstream : e \in dag.extensions}

GetSecrets_NoFallback(dag) ==
  UNION {UNION {v.secret : v \in l.svhosts} : l \in dag.listeners}
    \cup UNION {c.clientCertificate : c \in GetClusters(dag)}

GetSecrets(dag) ==
  UNION {UNION {v.secret \cup v.fallback : v \in l.svhosts} : l \in dag.listeners}
    \cup UNION {c.clientCertificate : c \in GetClusters(dag)}

GetExtensionCluster(dag, name) == {e \in dag.extensions : e.name = name}

-----------------------------------------------------------------------------
(* Building. *)

\* Without a Gateway the two listeners have fixed names; with one, ports holds the
\* names and protocols of the listeners that its spec asks for.
ListenerProcessorRun(gateway, ports) ==
  [dynamic |-> gateway, extensions |-> {},
   listeners |->
     IF gateway THEN {Listener(p.name, p.protocol, "", "") : p \in ports}
     ELSE {Listener("ingress_http", "http", "ingress_http", ""),
           Listener("ingress_https", "https", "https", "ingress_fallbackcert")}]

\* The end of Build: virtual hosts that are not valid go, then listeners without any.
Prune(dag) ==
  LET pruned == {[l EXCEPT !.vhosts = {v \in @ : Valid(v)},
                           !.svhosts = {v \in @ : ValidSecure(v)}] : l \in dag.listeners}
  IN [dag EXCEPT !.listeners =
        {l \in pruned : l.vhosts # {} \/ l.svhosts # {} \/ Is(l.tcpproxy)}]
=============================================================================
