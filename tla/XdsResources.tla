---------------------------- MODULE XdsResources ----------------------------
(***************************************************************************)
(* The resources that the caches publish for a DAG: OnChange of the        *)
(* listener, route, cluster and secret caches (xdscache/v3), the names of  *)
(* the endpoints, and the translation to Envoy's types (internal/envoy/v3) *)
(* as far as it decides which resource refers to which.                    *)
(*                                                                         *)
(* cfg is the part of the listener configuration that does: the range of   *)
(* TLS versions and the extension services of global authorization,        *)
(* tracing and rate limiting, nil when they are not configured.            *)
(***************************************************************************)
EXTENDS DAG, SequencesExt

-----------------------------------------------------------------------------
(* Names. *)

httpRouteConfigName(l) == IF l.routeConfig # "" THEN <<l.routeConfig>> ELSE <<l.name>>
httpsRouteConfigName(l, host) == httpRouteConfigName(l) \o <<host>>
fallbackCertRouteConfigName(l) ==
  IF l.fallbackRouteConfig # "" THEN <<l.fallbackRouteConfig>>
  ELSE httpRouteConfigName(l) \o <<"fallbackcert">>

Text(pointer) == IF Is(pointer) THEN <<The(pointer)>> ELSE <<>>

\* What is hashed into the name of a cluster.  Of a health check the parameters and the
\* path, of an upstream validation the names of the first CA and of the first subject.
ClusterText(c) ==
  c.lb \o (IF Is(c.httpHealth) THEN The(c.httpHealth).params \o <<The(c.httpHealth).path>> ELSE <<>>)
    \o (IF Is(c.validation) THEN <<The(c.validation).ca, The(c.validation).subject>> ELSE <<>>)
    \o (IF c.protocol = "" THEN <<>> ELSE <<c.protocol>>) \o c.sni
    \o Text(c.idle) \o Text(c.slowStart)

Clustername_ServiceOnly(c) == <<c.upstream.name, c.upstream.port>>

Clustername(c) == <<c.upstream.name, c.upstream.port>> \o ClusterText(c)

DNSNameClusterName(d) == <<"dnsname", d.scheme, d.address>>

Secretname(s) == <<s.name, s.cert>>

-----------------------------------------------------------------------------
(* Listeners. *)

\* HTTP filters: the default ones end with the router, and what is added goes before it.
Filter(name, clusters) == [name |-> name, clusters |-> clusters]
DefaultFilters ==
  [i \in 1..8 |-> Filter(<<"compressor", "grpcweb", "grpcstats", "cors", "local_ratelimit",
                           "lua", "rbac", "router">>[i], {})]

AddFilter(filters, f) ==
  IF ~Is(f) THEN filters
  ELSE IF filters = <<>> \/ Last(filters).name # "router" THEN Append(filters, The(f))
  ELSE Append(Append(Front(filters), The(f)), Last(filters))

FilterMisdirectedRequests == {Filter("misdirected", {})}
FilterExternalAuthz(extensions) == {Filter("ext_authz", {e}) : e \in extensions}
GlobalRateLimitFilter(cfg) == {Filter("ratelimit", {e}) : e \in cfg.rateLimit}
FilterJWTAuthN(providers) ==
  IF providers = {} THEN {}
  ELSE {Filter("jwt_authn", {DNSNameClusterName(p.cluster) : p \in providers})}

\* A connection manager; Get panics unless the router comes last.
ConnectionManager(cfg, routeConfig, filters) ==
  [routeConfig |-> {routeConfig}, filters |-> filters, tracing |-> cfg.tracing, tcp |-> {}]

\* A TCP proxy leaves out the clusters of weight zero, unless all are.
KeptClusters(p) ==
  LET kept == {i \in DOMAIN p : p[i].weight > 0}
  IN IF kept = {} THEN DOMAIN p ELSE kept

TCPProxy(p) ==
  [routeConfig |-> {}, filters |-> <<>>, tracing |-> {},
   tcp |-> {<<i, Clustername(p[i]), IF p[i].weight = 0 THEN 1 ELSE p[i].weight>> :
              i \in KeptClusters(p)}]

\* TLS versions: 0 is automatic.
AtLeast(a, b) == IF a > b THEN a ELSE b
AtMost(a, b) == IF a < b THEN a ELSE b

DownstreamTLS(secret, min, max) == {[secret |-> Secretname(secret), min |-> min, max |-> max]}

HostTLS(cfg, v) ==
  LET max == AtMost(cfg.maxTLS, v.maxTLS)
  IN UNION {DownstreamTLS(s, AtLeast(cfg.minTLS, v.minTLS), IF max = 0 THEN cfg.maxTLS ELSE max) :
              s \in v.secret}

PlainChain(cfg, l) ==
  [match |-> "any", tls |-> {},
   proxy |-> ConnectionManager(cfg, httpRouteConfigName(l),
               AddFilter(AddFilter(DefaultFilters, FilterExternalAuthz(cfg.authorization)),
                         GlobalRateLimitFilter(cfg)))]

SecureFilters(cfg, v) ==
  AddFilter(AddFilter(AddFilter(
    AddFilter(<<>>, FilterMisdirectedRequests) \o DefaultFilters,
    FilterJWTAuthN(v.jwtProviders)),
    FilterExternalAuthz({e.name : e \in v.authorization})),
    GlobalRateLimitFilter(cfg))

FilterChainTLS(cfg, l, v) ==
  [match |-> IF v.name = "*" THEN "tls" ELSE v.name, tls |-> HostTLS(cfg, v),
   proxy |-> IF Is(v.tcpproxy) THEN TCPProxy(The(v.tcpproxy))
             ELSE ConnectionManager(cfg, httpsRouteConfigName(l, v.name), SecureFilters(cfg, v))]

\* One chain for connections without a server name, made of the first virtual host that
\* asks for it; the hosts are sorted by name.
FilterChainTLSFallback(cfg, l, v) ==
  [match |-> "tls",
   tls |-> UNION {DownstreamTLS(s, cfg.minTLS, cfg.maxTLS) : s \in v.fallback},
   proxy |-> ConnectionManager(cfg, fallbackCertRouteConfigName(l),
               AddFilter(AddFilter(DefaultFilters,
                                   FilterExternalAuthz({e.name : e \in v.authorization})),
                         GlobalRateLimitFilter(cfg)))]

FallbackHosts(l) == {v \in l.svhosts : Is(v.fallback)}

\* Of the hosts vs the one whose name comes first; order has the names in their order.
FirstHost(order, vs) ==
  CHOOSE v \in vs : \A w \in vs :
    (CHOOSE i \in DOMAIN order : order[i] = v.name)
      <= (CHOOSE i \in DOMAIN order : order[i] = w.name)

SecureChains(cfg, l, order) ==
  {FilterChainTLS(cfg, l, v) : v \in l.svhosts}
    \cup {FilterChainTLSFallback(cfg, l, v) :
            v \in IF FallbackHosts(l) = {} THEN {} ELSE {FirstHost(order, FallbackHosts(l))}}

\* The chains of the Envoy listener of l.  A listener without any virtual host has no entry
\* in the map, and the sort of its chains would dereference nil.
ListenerChains(cfg, l, order) ==
  IF Is(l.tcpproxy)
  THEN {[match |-> "any", tls |-> {}, proxy |-> TCPProxy(The(l.tcpproxy))]}
  ELSE IF l.svhosts # {} THEN SecureChains(cfg, l, order)
  ELSE IF l.vhosts # {} THEN {PlainChain(cfg, l)} ELSE {}

ListenersOnChange(cfg, dag, order) ==
  {[name |-> l.name, chains |-> ListenerChains(cfg, l, order)] : l \in dag.listeners}

OnChangePanics(dag) ==
  \E l \in dag.listeners : ~Is(l.tcpproxy) /\ l.vhosts = {} /\ l.svhosts = {}

-----------------------------------------------------------------------------
(* Routes. *)

\* The weights of the clusters of a route: one each when all are zero.
WeightedClusters(r) ==
  {<<i, Clustername(r.clusters[i]),
     IF \A j \in DOMAIN r.clusters : r.clusters[j].weight = 0 THEN 1
     ELSE r.clusters[i].weight>> : i \in DOMAIN r.clusters}

EnvoyRoute(r, secure) ==
  LET base == [match |-> r.match, action |-> "", clusters |-> {}, mirrors |-> {},
               authDisabled |-> r.authDisabled, jwt |-> ""]
  IN CASE r.httpsUpgrade /\ ~secure -> [base EXCEPT !.action = "upgrade", !.authDisabled = TRUE]
       [] OTHER ->
          CASE Is(r.directResponse) -> [base EXCEPT !.action = "direct"]
            [] OTHER ->
               CASE Is(r.redirect) -> [base EXCEPT !.action = "redirect", !.authDisabled = FALSE]
                 [] OTHER -> [base EXCEPT !.action = "route", !.clusters = WeightedClusters(r),
                                          !.mirrors = {Clustername(c) : c \in r.mirrors},
                                          !.jwt = r.jwt]

VirtualHostAndRoutes(v, secure) ==
  [name |-> v.name, routes |-> {EnvoyRoute(r, secure) : r \in v.routes}]

RouteConfiguration(name, vhosts) == [name |-> name, vhosts |-> vhosts]

PlainRouteConfigs(dag) ==
  {RouteConfiguration(httpRouteConfigName(l),
     {VirtualHostAndRoutes(v, FALSE) : v \in {w \in l.vhosts : w.routes # {}}}) :
     l \in {k \in dag.listeners : k.vhosts # {}}}

\* Secure virtual hosts without routes have neither a configuration of their own nor a
\* part in the one of the fallback certificate.
Routed(l) == {v \in l.svhosts : v.routes # {}}

SecureRouteConfigs(dag) ==
  UNION {{RouteConfiguration(httpsRouteConfigName(l, v.name), {VirtualHostAndRoutes(v, TRUE)}) :
            v \in Routed(l)} : l \in dag.listeners}

FallbackRouteConfigs(dag) ==
  {RouteConfiguration(fallbackCertRouteConfigName(l),
     {VirtualHostAndRoutes(v, TRUE) : v \in Routed(l) \cap FallbackHosts(l)}) :
     l \in {k \in dag.listeners : Routed(k) \cap FallbackHosts(k) # {}}}

RoutesOnChange(dag) ==
  LET configs == PlainRouteConfigs(dag) \cup SecureRouteConfigs(dag) \cup FallbackRouteConfigs(dag)
      names   == {rc.name : rc \in configs}
  IN configs \cup (IF dag.dynamic \/ <<"ingress_http">> \in names THEN {}
                   ELSE {RouteConfiguration(<<"ingress_http">>, {})})

-----------------------------------------------------------------------------
(* Clusters and secrets. *)

\* What Envoy is told of a cluster: where its endpoints come from, and how to connect.
EnvoyCluster(c) ==
  [name |-> Clustername(c),
   eds |-> IF c.upstream.external = "" THEN {ClusterLoadAssignmentName(c.upstream)} ELSE {},
   tls |-> c.protocol \in {"tls", "h2"},
   clientCertificate |-> IF c.protocol \in {"tls", "h2"}
                         THEN {Secretname(s) : s \in c.clientCertificate} ELSE {},
   health |-> IF Is(c.httpHealth) THEN c.httpHealth ELSE c.tcpHealth,
   healthPort |-> c.upstream.health, validation |-> c.validation]

EnvoyExtensionCluster(e) ==
  [name |-> e.name, eds |-> {e.upstream.name}, tls |-> e.protocol = "h2",
   clientCertificate |-> IF e.protocol = "h2" THEN {Secretname(s) : s \in e.clientCertificate}
                         ELSE {},
   health |-> {}, healthPort |-> "", validation |-> e.validation]

\* Its one endpoint is in the cluster itself, with the port in place of a health check's.
EnvoyDNSNameCluster(d) ==
  [name |-> DNSNameClusterName(d), eds |-> {}, tls |-> d.scheme = "https",
   clientCertificate |-> {}, health |-> {}, healthPort |-> d.port, validation |-> d.validation]

\* Of the clusters in S, which share a name, the one that is met first; order has those of
\* which there are several.
FirstMet(order, S) ==
  IF \A c, d \in S : c = d THEN The(S)
  ELSE order[CHOOSE i \in DOMAIN order :
               order[i] \in S /\ \A j \in DOMAIN order : order[j] \in S => i <= j]

DNSNames(dag) == {p.cluster : p \in GetDNSNameClusters(dag)}
Namesakes(cs, c) == {b \in cs : Clustername(b) = Clustername(c)}
DNSNamesakes(ds, d) == {b \in ds : DNSNameClusterName(b) = DNSNameClusterName(d)}

\* Of the clusters with one name the first that is met is kept.
ClustersOnChange(dag, order, dnsOrder) ==
  {EnvoyCluster(FirstMet(order, Namesakes(GetClusters(dag), c))) : c \in GetClusters(dag)}
    \cup {EnvoyExtensionCluster(e) : e \in dag.extensions}
    \cup {EnvoyDNSNameCluster(FirstMet(dnsOrder, DNSNamesakes(DNSNames(dag), d))) :
            d \in DNSNames(dag)}

SecretsOnChange(dag) == {Secretname(s) : s \in GetSecrets(dag)}

EndpointNames(dag) == {c.name : c \in GetServiceClusters(dag)}

-----------------------------------------------------------------------------
(* References. *)

Chains(lds) == UNION {l.chains : l \in lds}
FiltersOf(chain) == {chain.proxy.filters[i] : i \in DOMAIN chain.proxy.filters}

ListenerRouteRefs(lds) == UNION {c.proxy.routeConfig : c \in Chains(lds)}
ListenerSecretRefs(lds) == UNION {{t.secret : t \in c.tls} : c \in Chains(lds)}
ListenerClusterRefs(lds) ==
  UNION {{t[2] : t \in c.proxy.tcp} \cup c.proxy.tracing
           \cup UNION {f.clusters : f \in FiltersOf(c)} : c \in Chains(lds)}

RouteClusterRefs(rds) ==
  UNION {UNION {UNION {{w[2] : w \in r.clusters} \cup r.mirrors : r \in v.routes} :
                v \in rc.vhosts} : rc \in rds}

ClusterEndpointRefs(cds) == UNION {c.eds : c \in cds}
ClusterSecretRefs(cds) == UNION {c.clientCertificate : c \in cds}
=============================================================================
