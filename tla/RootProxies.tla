----------------------------- MODULE RootProxies -----------------------------
(***************************************************************************)
(* What a root HTTPProxy writes into the DAG (computeHTTPProxy and what it *)
(* calls in dag/httpproxy_processor.go): the secure virtual host with its  *)
(* certificates, authorization and JWT providers, the TCP proxy, and the   *)
(* routes with their clusters.  Delegation to other HTTPProxies is the     *)
(* subject of HTTPProxyProcessor and is left out here, and so are prefix   *)
(* rewrites: without them expandPrefixMatches returns the routes it gets.  *)
(*                                                                         *)
(* Whether a policy is valid is part of the data: the field problem of a   *)
(* route or service is the reason of the first policy that is not, and     *)
(* late that of a JWT or IP filter policy, which come after the services.  *)
(*                                                                         *)
(* The early returns of the code are kept: what was written before a check *)
(* failed stays in the DAG.                                                *)
(***************************************************************************)
EXTENDS ExtensionServices

Begin(dag) == [dag |-> dag, errors |-> {}, returned |-> FALSE]
Then(acc, Stage(_)) == IF acc.returned THEN acc ELSE Stage(acc)
Note(acc, reason) == [acc EXCEPT !.errors = @ \cup {reason}]
Fail(acc, reason) == [Note(acc, reason) EXCEPT !.returned = TRUE]
Require(acc, condition, reason) == IF condition THEN acc ELSE Fail(acc, reason)

\* Writing the secure virtual host of the https listener.
UpdateSecure(acc, host, Write(_)) ==
  LET l == The(GetSingleListener(acc.dag, "https"))
  IN [acc EXCEPT !.dag = WithListener(@, WithSecureVirtualHost(l,
                           Write(EnsureSecureVirtualHost(l, host))))]

-----------------------------------------------------------------------------
(* Authorization. *)

\* The extension cluster of an authorization server, nil when it is not in the DAG or the
\* response timeout does not parse.
computeVirtualHostAuthorization(dag, auth) ==
  {e \in GetExtensionCluster(dag, ExtensionClusterName(auth.extension)) : auth.timeoutParses}

\* The server of the virtual host when it names one and does not disable authorization,
\* otherwise the global one.
SecureAuthorizationServer(source, proxy) ==
  IF \E a \in proxy.auth : ~a.disabled /\ a.extension # "" THEN proxy.auth ELSE source.globalAuth

computeSecureVirtualHostAuthorization(source, proxy, acc) ==
  LET servers == SecureAuthorizationServer(source, proxy)
      found   == UNION {computeVirtualHostAuthorization(acc.dag, a) : a \in servers}
  IN IF ~Is(servers) THEN acc
     ELSE Then(Require(acc, Is(found), "AuthError"),
               LAMBDA a : UpdateSecure(a, proxy.host, LAMBDA v : [v EXCEPT !.authorization = found]))

\* The most specific policy decides: the route's, the virtual host's, the global one.
AuthDisabled(source, proxy, route) ==
  /\ Is(proxy.auth) \/ Is(source.globalAuth)
  /\ IF route.authPolicy # "unset" THEN route.authPolicy = "disabled"
     ELSE IF Is(proxy.auth) THEN The(proxy.auth).disabled
     ELSE The(source.globalAuth).disabled

-----------------------------------------------------------------------------
(* JWT providers. *)

DNSNameClusterOf(source, p) ==
  [scheme |-> p.scheme, address |-> p.address,
   port |-> IF p.port # "" THEN p.port ELSE IF p.scheme = "http" THEN "80" ELSE "443",
   family |-> IF p.family = "" THEN source.family ELSE p.family,
   validation |-> p.validation]

\* What is wrong with provider i, given those before it.
ProviderReason(source, ps, i) ==
  LET p == ps[i]
  IN CASE \E j \in 1..(i - 1) : ps[j].name = p.name -> "DuplicateProviderName"
       [] p.default /\ \E j \in 1..(i - 1) : ps[j].default -> "MultipleDefaultProvidersSpecified"
       [] p.scheme \notin {"http", "https"} -> "RemoteJWKSSchemeInvalid"
       [] Is(p.validation) /\ (p.scheme = "http"
            \/ \E v \in p.validation : v.ca \notin source.caSecrets) ->
            "RemoteJWKSUpstreamValidationInvalid"
       [] ~p.timeoutsParse -> "RemoteJWKSTimeoutInvalid"
       [] p.family \notin {"", "auto", "v4", "v6", "all"} -> "RemoteJWKSDNSLookupFamilyInvalid"
       [] OTHER -> ""

\* The providers before the first that is rejected are kept.
AddJWTProviders(source, proxy, acc) ==
  FoldLeft(LAMBDA a, i :
             Then(Require(a, ProviderReason(source, proxy.jwt, i) = "", "JWTVerificationError"),
                  LAMBDA b : UpdateSecure(b, proxy.host, LAMBDA v : [v EXCEPT !.jwtProviders =
                    @ \cup {[name |-> proxy.jwt[i].name,
                             cluster |-> DNSNameClusterOf(source, proxy.jwt[i])]}])),
           acc, [i \in DOMAIN proxy.jwt |-> i])

defaultJWTProvider(proxy) ==
  LET ds == {i \in DOMAIN proxy.jwt : proxy.jwt[i].default}
  IN IF ds = {} THEN "" ELSE proxy.jwt[CHOOSE i \in ds : TRUE].name

-----------------------------------------------------------------------------
(* Clusters and routes. *)

getProtocol(service, s) ==
  IF service.protocol = "" THEN {s.protocol}
  ELSE {service.protocol} \cap {"h2c", "h2", "tls"}

\* The policy of the service first, then the route's, then the external name.
determineSNI(route, service, s) ==
  CASE service.hostRewrite # "" -> <<service.hostRewrite>>
    [] route.hostRewrite # ""   -> <<route.hostRewrite>>
    [] s.external # ""          -> <<s.external>>
    [] OTHER                    -> <<>>

routeEnforceTLS(enforceTLS, permitInsecure) == enforceTLS /\ ~permitInsecure

routeActionCountValid(r) ==
  \/ r.services # <<>> /\ ~Is(r.redirect) /\ ~Is(r.direct)
  \/ r.services = <<>> /\ (Is(r.redirect) # Is(r.direct))

IsTLS(protocol) == protocol \subseteq {"tls", "h2"}

\* What is wrong with a service of a route or of a TCP proxy, "" when nothing is.
ClusterReason(source, r, service, s, protocol, clientCert) ==
  CASE service.problem = "ServicePortInvalid" -> service.problem
    [] ~Is(s) -> "ServiceUnresolvedReference"
    [] ~Is(protocol) -> "UnsupportedProtocol"
    [] IsTLS(protocol) /\ \E v \in service.validation : v.ca \notin source.caSecrets ->
         "TLSUpstreamValidation"
    [] service.problem # "" -> service.problem
    [] Is(source.clientCertificate) /\ ~Is(clientCert) -> "SecretNotValid"
    [] Is(service.slowStart) /\ r.lb \notin {<<>>, <<"RoundRobin">>, <<"WeightedLeastRequest">>} ->
         "SlowStartInvalid"
    [] OTHER -> ""

ClusterOf(r, service, s, protocol, clientCert) ==
  [Cluster(s) EXCEPT
     !.weight = service.weight, !.protocol = protocol, !.lb = r.lb,
     !.httpHealth = r.httpHealth, !.tcpHealth = r.tcpHealth,
     !.validation = IF IsTLS({protocol}) THEN service.validation ELSE {},
     !.sni = determineSNI(r, service, s), !.idle = r.idle,
     !.slowStart = service.slowStart, !.clientCertificate = clientCert]

\* The cluster for a service that was looked up; on an error cluster is nil, and
\* "ServiceUnresolvedReference" lets a route go on with its other services.
Resolve(source, r, service, s, protocol, clientCert) ==
  LET reason == ClusterReason(source, r, service, s, protocol, clientCert)
  IN [reason |-> reason,
      cluster |-> Select(reason = "", ClusterOf(r, service, The(s), The(protocol), clientCert))]

ServiceOf(source, r, service) ==
  EnsureService(source.services, service.name, service.port,
                IF Is(r.httpHealth \cup r.tcpHealth) /\ service.healthPort # ""
                THEN service.healthPort ELSE service.port, source.external)

ServiceCluster(source, r, service) ==
  LET s == ServiceOf(source, r, service)
  IN Resolve(source, r, service, s, getProtocol(service, The(s)),
             UNION {LookupTLSSecret(source, n) : n \in source.clientCertificate})

\* One service of a route: it is added, to the mirrors or to the clusters, or it is only
\* noted, or it ends the computation of the routes.
AddService(acc, service, built) ==
  IF acc.returned THEN acc
  ELSE IF built.reason = "ServiceUnresolvedReference" THEN Note(acc, built.reason)
  ELSE IF built.reason # "" THEN Fail(acc, built.reason)
  ELSE IF service.mirror /\ Is(acc.route.mirrors) THEN Fail(acc, "OnlyOneMirror")
  ELSE IF service.mirror THEN [acc EXCEPT !.route.mirrors = built.cluster]
  ELSE [acc EXCEPT !.route.clusters = Append(@, The(built.cluster))]

\* A route as it is before its services are added.
RouteOf(source, proxy, enforceTLS, spec) ==
  [Route([path |-> [type |-> "prefix", value |-> spec.prefix],
          headers |-> IF proxy.wildcard THEN {proxy.host} ELSE {}], <<>>) EXCEPT
     !.kind = "HTTPProxy",
     !.httpsUpgrade = routeEnforceTLS(enforceTLS, spec.permitInsecure),
     !.authDisabled = AuthDisabled(source, proxy, spec),
     !.redirect = spec.redirect, !.directResponse = spec.direct,
     !.jwt = CASE spec.jwt = "unset"    -> defaultJWTProvider(proxy)
               [] spec.jwt = "disabled" -> ""
               [] OTHER                 -> spec.jwt]

\* A route without a cluster, a redirect or a response of its own answers 503.
Answering(route, spec) ==
  IF route.clusters = <<>> /\ ~Is(spec.redirect) /\ ~Is(spec.direct)
  THEN [route EXCEPT !.directResponse = {503}] ELSE route

FinishRoute(acc, spec, with) ==
  IF acc.returned THEN acc
  ELSE IF ~routeActionCountValid(spec) THEN Fail(acc, "RouteActionCountNotValid")
  ELSE IF spec.problem # "" THEN Fail(acc, spec.problem)
  ELSE IF ~with.returned /\ spec.late # ""
       THEN Fail([acc EXCEPT !.errors = with.errors], spec.late)
  ELSE [errors |-> with.errors, returned |-> with.returned,
        routes |-> Append(acc.routes, Answering(with.route, spec))]

BuildRoute(source, proxy, enforceTLS, acc, spec) ==
  FinishRoute(acc, spec,
    FoldLeft(LAMBDA a, s : AddService(a, s, ServiceCluster(source, spec, s)),
             [errors |-> acc.errors, returned |-> FALSE,
              route |-> RouteOf(source, proxy, enforceTLS, spec)], spec.services))

\* The routes of the HTTPProxy, none at all when one of them is in error.
UnlessReturned(all) == [errors |-> all.errors, routes |-> IF all.returned THEN <<>> ELSE all.routes]

computeRoutes(source, proxy, enforceTLS) ==
  UnlessReturned(FoldLeft(LAMBDA a, r : BuildRoute(source, proxy, enforceTLS, a, r),
                          [errors |-> {}, returned |-> FALSE, routes |-> <<>>], proxy.routes))

addRoutes(vhost, routes) == FoldLeft(AddRoute, vhost, routes)

-----------------------------------------------------------------------------
(* TCP proxies. *)

\* All services or nothing: the first error ends the computation of the proxy.
WriteTCPProxy(proxy, built, acc) ==
  LET bad == {i \in DOMAIN built : built[i].reason # ""}
  IN IF built = <<>> THEN Fail(acc, "NothingDefined")
     ELSE IF bad # {} THEN Fail(acc, built[CHOOSE i \in bad : \A j \in bad : i <= j].reason)
     ELSE Then(Require(acc, Is(GetSingleListener(acc.dag, "https")), "ErrorIdentifyingListener"),
               LAMBDA a : UpdateSecure(a, proxy.host, LAMBDA v : [v EXCEPT !.tcpproxy =
                 {[i \in DOMAIN built |-> The(built[i].cluster)]}]))

processHTTPProxyTCPProxy(source, proxy, acc) ==
  LET tcp   == The(proxy.tcpproxy)
      spec  == [httpHealth |-> {}, tcpHealth |-> tcp.tcpHealth, hostRewrite |-> "", idle |-> {},
                lb |-> IF tcp.lb \in {<<"Cookie">>, <<"RequestHash">>} THEN <<>> ELSE tcp.lb]
      \* Header policies and slow start of the service are not looked at.
      Bare(t) == [t EXCEPT !.hostRewrite = "", !.slowStart = {}, !.problem = ""]
  IN WriteTCPProxy(proxy, [i \in DOMAIN tcp.services |->
                             ServiceCluster(source, spec, Bare(tcp.services[i]))], acc)

-----------------------------------------------------------------------------
(* The virtual host. *)

RootStage(source, proxy, acc) ==
  LET terminates == \E t \in proxy.tls : t.secret # ""
      checks == <<
        [ok |-> source.rootNamespaces = {} \/ proxy.namespace \in source.rootNamespaces,
         reason |-> "RootProxyNotAllowedInNamespace"],
        [ok |-> proxy.routes # <<>> \/ Is(proxy.tcpproxy), reason |-> "NothingDefined"],
        [ok |-> proxy.jwt = <<>> \/ terminates, reason |-> "JWTVerificationNotPermitted"],
        [ok |-> Is(proxy.tls) \/ \A a \in proxy.auth : a.extension = "",
         reason |-> "AuthNotPermitted"],
        [ok |-> proxy.ipFilter # "both", reason |-> "IncompatibleIPAddressFilters"]>>
  IN FoldLeft(LAMBDA a, c : Then(a, LAMBDA b : Require(b, c.ok, c.reason)), acc, checks)

\* The certificate: the virtual host is created, or the one that is there is written.
SecretStage(source, proxy, tls, acc) ==
  LET secret == LookupTLSSecret(source, tls.secret)
  IN IF ~Is(secret) THEN Fail(acc, "SecretNotValid")
     ELSE IF ~Is(GetSingleListener(acc.dag, "https")) THEN Fail(acc, "ErrorIdentifyingListener")
     ELSE IF tls.maxTLS < tls.minTLS THEN Fail(acc, "TLSConfigNotValid")
     ELSE UpdateSecure(acc, proxy.host, LAMBDA v :
            [v EXCEPT !.secret = secret, !.minTLS = tls.minTLS, !.maxTLS = tls.maxTLS])

FallbackStage(source, proxy, tls, acc) ==
  LET fallback == UNION {LookupTLSSecret(source, n) : n \in source.fallback}
  IN IF ~tls.fallback THEN acc
     ELSE IF Is(tls.validation) THEN Fail(acc, "TLSIncompatibleFeatures")
     ELSE IF Is(proxy.auth) THEN Fail(acc, "TLSIncompatibleFeatures")
     ELSE IF ~Is(source.fallback) THEN Fail(acc, "FallbackNotPresent")
     ELSE IF ~Is(fallback) THEN Fail(acc, "FallbackNotValid")
     ELSE UpdateSecure(acc, proxy.host, LAMBDA v : [v EXCEPT !.fallback = fallback])

\* A CA that is asked for must exist; without one the error is noted only, and the
\* validation goes into the DAG.
DownstreamValidationStage(source, proxy, tls, acc) ==
  LET dv == The(tls.validation)
      noted == IF dv.ca = "" /\ ~dv.skip THEN Note(acc, "ClientValidationInvalid") ELSE acc
  IN IF ~Is(tls.validation) THEN acc
     ELSE IF dv.ca # "" /\ dv.ca \notin source.caSecrets THEN Fail(acc, "ClientValidationInvalid")
     ELSE IF dv.crl # "" /\ dv.crl \notin source.crlSecrets THEN Fail(noted, "ClientValidationInvalid")
     ELSE UpdateSecure(noted, proxy.host, LAMBDA v : [v EXCEPT !.validation = tls.validation])

TLSStage(source, proxy, acc) ==
  LET tls == The(proxy.tls)
      noted == IF tls.passthrough /\ tls.fallback THEN Note(acc, "TLSIncompatibleFeatures") ELSE acc
  IN IF ~Is(proxy.tls) THEN acc
     ELSE IF (tls.secret = "") # tls.passthrough THEN Fail(noted, "TLSConfigNotValid")
     ELSE IF tls.passthrough
          THEN Require(noted, ~Is(tls.validation), "TLSIncompatibleFeatures")
     ELSE Then(Then(Then(Then(SecretStage(source, proxy, tls, noted),
                              LAMBDA a : FallbackStage(source, proxy, tls, a)),
                         LAMBDA b : DownstreamValidationStage(source, proxy, tls, b)),
                    LAMBDA c : computeSecureVirtualHostAuthorization(source, proxy, c)),
               LAMBDA d : AddJWTProviders(source, proxy, d))

TCPStage(source, proxy, acc) ==
  IF ~Is(proxy.tcpproxy) THEN acc
  ELSE Then(Require(acc, Is(proxy.tls), "TLSMustBeConfigured"),
            LAMBDA a : processHTTPProxyTCPProxy(source, proxy, a))

\* The policies of the virtual host, in the order in which an error returns.  The global
\* authorization is only noted: the routes are added all the same.
PoliciesStage(source, proxy, acc) ==
  LET Global(a) ==
        IF \A g \in source.globalAuth : \/ \E h \in proxy.auth : h.disabled
                                        \/ Is(computeVirtualHostAuthorization(a.dag, g))
        THEN a ELSE Note(a, "AuthError")
  IN Then(Then(Require(acc, proxy.corsParses, "CORSPolicyDidNotParse"),
               LAMBDA a : Require(a, proxy.rateLimitValid, "RateLimitPolicyNotValid")),
          LAMBDA b : Require(Global(b), proxy.ipFilter # "invalid", "IPFilterPolicyNotValid"))

AddPlain(proxy, routes, acc) ==
  LET http == The(GetSingleListener(acc.dag, "http"))
  IN [acc EXCEPT !.dag = WithListener(@, WithVirtualHost(http,
                           addRoutes(EnsureVirtualHost(http, proxy.host), routes)))]

\* The providers that the routes name are looked up once the routes are there.
AddSecure(proxy, routes, acc) ==
  LET host(d) == The(GetSecureVirtualHost(The(GetSingleListener(d, "https")), proxy.host))
      defined(v, r) == r.jwt = "" \/ \E p \in v.jwtProviders : p.name = r.jwt
      Check(a) == Require(a, \A i \in DOMAIN routes : defined(host(a.dag), routes[i]), "JWTProviderNotDefined")
  IN Then(Require(acc, Is(GetSingleListener(acc.dag, "https")), "ErrorIdentifyingListener"),
          LAMBDA a : Check(UpdateSecure(a, proxy.host, LAMBDA v : addRoutes(v, routes))))

\* The routes go to the plain virtual host always, to the secure one unless a TCP proxy
\* takes its connections.
WriteRoutes(source, proxy, routes, acc) ==
  LET plain == Then(PoliciesStage(source, proxy, acc), LAMBDA a : AddPlain(proxy, routes, a))
  IN IF ~Is(GetSingleListener(acc.dag, "http")) THEN Fail(acc, "ErrorIdentifyingListener")
     ELSE Then(plain, LAMBDA a : IF ~Is(proxy.tls) \/ Is(proxy.tcpproxy) THEN a
                                 ELSE AddSecure(proxy, routes, a))

RoutesStage(source, proxy, acc) ==
  LET Write(computed) == WriteRoutes(source, proxy, computed.routes,
                                     [acc EXCEPT !.errors = @ \cup computed.errors])
  IN Write(computeRoutes(source, proxy, Is(proxy.tls)))

computeHTTPProxy(source, dag, proxy) ==
  Then(Then(Then(RootStage(source, proxy, Begin(dag)),
                 LAMBDA a : TLSStage(source, proxy, a)),
            LAMBDA b : TCPStage(source, proxy, b)),
       LAMBDA c : RoutesStage(source, proxy, c))

\* Roots whose fqdn another root has too are not computed.
validHTTPProxies(proxies) ==
  {p \in proxies : \A q \in proxies : q.host = p.host => q = p}

\* The roots are met in the order of a map.
HTTPProxyProcessorRun_UntilError(source, dag, order) ==
  FoldLeft(LAMBDA d, p : IF d.errors # {} THEN d ELSE computeHTTPProxy(source, d.dag, p), Begin(dag),
           SelectSeq(order, LAMBDA p : p \in validHTTPProxies(source.proxies))).dag

HTTPProxyProcessorRun(source, dag, order) ==
  FoldLeft(LAMBDA d, p : computeHTTPProxy(source, d, p).dag, dag,
           SelectSeq(order, LAMBDA p : p \in validHTTPProxies(source.proxies)))
=============================================================================
