---------------------------- MODULE MCEnvoyConfig ----------------------------
(***************************************************************************)
(* Three Ingresses, five HTTPProxies and an ExtensionService that may come *)
(* and go, with a certificate that may be missing, under three             *)
(* configurations.                                                         *)
(***************************************************************************)
EXTENDS EnvoyConfig

Port(number, name, app) == [number |-> number, name |-> name, app |-> app, tcp |-> TRUE]
Protocols(tls) == [h2 |-> {"https"}, h2c |-> {}, tls |-> tls]

MCServices ==
  {[name |-> "web", ports |-> <<Port("80", "http", "")>>, upstream |-> Protocols({}), external |-> ""],
   [name |-> "api", ports |-> <<Port("443", "https", ""), Port("8443", "admin", "")>>,
    upstream |-> Protocols({"https"}), external |-> ""]}

cert == [name |-> "cert", cert |-> "cert"]
fallback == [name |-> "fallback", cert |-> "fallback"]
client == [name |-> "client", cert |-> "client"]
MCSecrets == {cert, fallback, client}
MCFixed == {fallback, client}

HostName(n) == [name |-> n, wildcard |-> FALSE]
Root(backend) ==
  <<[path |-> [text |-> "/", trimmed |-> "", regexLike |-> FALSE, parses |-> TRUE],
     type |-> "Prefix", backend |-> backend]>>
Backend(service, port) == [service |-> service, port |-> port, portName |-> ""]
Ingress(host, tls, min, max, backend) ==
  [tls |-> tls, minTLS |-> min, maxTLS |-> max, tlsRequired |-> FALSE, httpAllowed |-> TRUE,
   default |-> {}, rules |-> <<[host |-> HostName(host), paths |-> Root(backend)]>>]
Certs(host) == <<[secret |-> "cert", hosts |-> <<host>>]>>

MCIngresses ==
  {Ingress("a", Certs("a"), 2, 3, Backend("web", "80")),
   Ingress("a", <<>>, 2, 3, Backend("api", "443")),
   Ingress("b", Certs("b"), 3, 2, Backend("web", "80"))}

Service(name, port) ==
  [name |-> name, port |-> port, healthPort |-> "", weight |-> 0, mirror |-> FALSE,
   protocol |-> "", validation |-> {}, slowStart |-> {}, hostRewrite |-> "", problem |-> ""]
RouteTo(services) ==
  [prefix |-> "/", services |-> services, permitInsecure |-> FALSE, authPolicy |-> "unset",
   jwt |-> "unset", redirect |-> {}, direct |-> {}, lb |-> <<>>, httpHealth |-> {},
   tcpHealth |-> {}, hostRewrite |-> "", idle |-> {}, problem |-> "", late |-> ""]
Proxy(host, tls, routes) ==
  [namespace |-> "default", host |-> host, wildcard |-> FALSE, tls |-> tls, auth |-> {},
   jwt |-> <<>>, routes |-> routes, tcpproxy |-> {}, ipFilter |-> "none", corsParses |-> TRUE,
   rateLimitValid |-> TRUE]
Terminate(fb) ==
  {[secret |-> "cert", passthrough |-> FALSE, fallback |-> fb, minTLS |-> 2, maxTLS |-> 3,
    validation |-> {}]}
Validating ==
  {[t EXCEPT !.validation = {[ca |-> "none", crl |-> "", skip |-> FALSE]}] : t \in Terminate(FALSE)}
Provider(name, port) ==
  [name |-> name, default |-> FALSE, scheme |-> "https", address |-> "jwks", port |-> port,
   family |-> "", validation |-> {}, timeoutsParse |-> TRUE]

MCHTTPProxies ==
  {Proxy("a", Terminate(FALSE), <<RouteTo(<<Service("api", "443"), Service("web", "80")>>)>>),
   Proxy("c", Terminate(TRUE), <<[RouteTo(<<Service("web", "80")>>) EXCEPT !.lb = <<"Random">>]>>),
   [Proxy("d", Terminate(TRUE), <<>>) EXCEPT !.tcpproxy =
      {[services |-> <<Service("web", "80")>>, tcpHealth |-> {"tcp"}, lb |-> <<>>]}],
   [Proxy("e", Terminate(FALSE), <<RouteTo(<<Service("web", "80"), Service("none", "80")>>)>>) EXCEPT
      !.auth = {[extension |-> "authz", disabled |-> FALSE, timeoutParses |-> TRUE]},
      !.jwt = <<Provider("one", ""), Provider("two", "8443")>>],
   Proxy("c", Validating, <<RouteTo(<<Service("api", "443")>>)>>)}

MCExtensions ==
  {[name |-> "authz", protocol |-> "h2", validation |-> {}, lb |-> "",
    services |-> <<[name |-> "api", port |-> "8443", weight |-> 0]>>,
    timeoutParses |-> TRUE, idleTimeout |-> FALSE, circuitBreakers |-> {}]}

Config(clientCertificate, fb, auth) ==
  [clientCertificate |-> clientCertificate, fallback |-> fb, globalAuth |-> auth,
   external |-> FALSE, family |-> "auto", rootNamespaces |-> {}, minTLS |-> 2, maxTLS |-> 3]

MCConfigs ==
  {Config({}, {"fallback"}, {}), Config({"client"}, {"fallback"}, {}),
   Config({}, {}, {[extension |-> "authz", disabled |-> FALSE, timeoutParses |-> TRUE]})}

MCHostOrder == <<"a", "b", "c", "d", "e">>
=============================================================================
