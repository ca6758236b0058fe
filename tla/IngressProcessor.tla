-------------------------- MODULE IngressProcessor --------------------------
(***************************************************************************)
(* Translation of Ingresses into the DAG (dag/ingress_processor.go).       *)
(* The Ingresses are kept in a Go map: both passes over them meet them in  *)
(* an order of their own, here the parameters tlsOrder and ruleOrder.      *)
(*                                                                         *)
(* source.secrets holds the secrets that LookupTLSSecret returns without   *)
(* an error, source.services the Services.  A path is a record of its text *)
(* and of what the code asks about the text: the text without trailing     *)
(* slashes, whether it contains one of ^+*[]% and whether it parses as a   *)
(* regular expression.                                                     *)
(***************************************************************************)
EXTENDS DAG, SequencesExt

LookupTLSSecret(source, name) == {s \in source.secrets : s.name = name}

-----------------------------------------------------------------------------
(* First pass: the virtual hosts that terminate TLS. *)

TLSEntries(ing) ==
  FlattenSeq([i \in DOMAIN ing.tls |->
    [j \in DOMAIN ing.tls[i].hosts |->
       [ing |-> ing, secret |-> ing.tls[i].secret, host |-> ing.tls[i].hosts[j]]]])

\* One host of one TLS entry.  A missing listener and a TLS version range that is empty
\* return from the whole pass: the entries still to come are not looked at.
SecureHostStep(source, acc, e) ==
  LET listener == GetSingleListener(acc.dag, "https")
      secret   == LookupTLSSecret(source, e.secret)
      svhost   == [EnsureSecureVirtualHost(The(listener), e.host) EXCEPT
                     !.secret = secret, !.minTLS = e.ing.minTLS, !.maxTLS = e.ing.maxTLS]
  IN IF acc.returned \/ ~Is(secret) THEN acc
     ELSE IF ~Is(listener) \/ e.ing.maxTLS < e.ing.minTLS THEN [acc EXCEPT !.returned = TRUE]
     ELSE [acc EXCEPT !.dag = WithListener(@, WithSecureVirtualHost(The(listener), svhost))]

computeSecureVirtualhosts(source, dag, ings) ==
  FoldLeft(LAMBDA acc, e : SecureHostStep(source, acc, e), [dag |-> dag, returned |-> FALSE],
           FlattenSeq([i \in DOMAIN ings |-> TLSEntries(ings[i])])).dag

-----------------------------------------------------------------------------
(* Second pass: the routes. *)

PathMatch(path, type) ==
  CASE type = "Prefix" -> IF path.text = "/" THEN [type |-> "prefix", value |-> path.text]
                          ELSE [type |-> "segment", value |-> path.trimmed]
    [] type = "Exact"  -> [type |-> "exact", value |-> path.text]
    [] OTHER           -> [type |-> IF path.regexLike THEN "regex" ELSE "prefix",
                           value |-> path.text]

RegexRejected(path, type) ==
  type \notin {"Prefix", "Exact"} /\ path.regexLike /\ ~path.parses

\* The route to service s; on a wildcard host it also matches one DNS label by a header.
IngressRoute(ing, host, path, type, s, clientCert) ==
  [Route([path |-> PathMatch(path, type), headers |-> IF host.wildcard THEN {host.name} ELSE {}],
         <<[Cluster(s) EXCEPT !.clientCertificate = clientCert]>>) EXCEPT
     !.httpsUpgrade = ing.tlsRequired, !.kind = "Ingress"]

rootPath == [text |-> "/", trimmed |-> "", regexLike |-> FALSE, parses |-> TRUE]
defaultHost == [name |-> "", wildcard |-> FALSE]

\* The rules of an Ingress, its default backend first.
rulesFromSpec(ing) ==
  (IF Is(ing.default)
   THEN <<[host |-> defaultHost,
           paths |-> <<[path |-> rootPath, type |-> "ImplementationSpecific",
                        backend |-> The(ing.default)]>>]>>
   ELSE <<>>) \o ing.rules

\* The service of a backend; a port name is resolved to a number first.
BackendService(source, backend) ==
  IF backend.portName = ""
  THEN EnsureService(source.services, backend.service, backend.port, backend.port, source.external)
  ELSE UNION {EnsureService(source.services, backend.service, f.port.number, f.port.number,
                            source.external) :
              f \in LookupService(source.services, backend.service, backend.portName)}

AddPlainRoute(dag, host, route) ==
  LET http == The(GetSingleListener(dag, "http"))
  IN WithListener(dag, WithVirtualHost(http, AddRoute(EnsureVirtualHost(http, host), route)))

\* A secure virtual host that is there gets the route, too; the wildcard host is none.
AddSecureRoute(dag, host, route) ==
  LET https  == The(GetSingleListener(dag, "https"))
      svhost == GetSecureVirtualHost(https, host)
  IN IF Is(svhost) /\ host # "*"
     THEN WithListener(dag, WithSecureVirtualHost(https, AddRoute(The(svhost), route)))
     ELSE dag

\* The DAG is left as it is when there is no https listener.
AddToSecure(dag, host, route) ==
  IF ~Is(GetSingleListener(dag, "https")) THEN [dag |-> dag, returned |-> TRUE]
  ELSE [dag |-> AddSecureRoute(dag, host, route), returned |-> FALSE]

\* One path of a rule.  A service that cannot be resolved skips the path; a pattern that
\* does not parse and a missing listener return from the rule.
PathStep(source, ing, rule, clientCert, acc, p) ==
  LET service == BackendService(source, p.backend)
      host    == IF rule.host.name = "" THEN "*" ELSE rule.host.name
      route   == IngressRoute(ing, rule.host, p.path, p.type, The(service), clientCert)
      plain   == ing.tlsRequired \/ ing.httpAllowed
  IN IF acc.returned \/ ~Is(service) THEN acc
     ELSE IF RegexRejected(p.path, p.type) \/ (plain /\ ~Is(GetSingleListener(acc.dag, "http")))
          THEN [acc EXCEPT !.returned = TRUE]
     ELSE AddToSecure(IF plain THEN AddPlainRoute(acc.dag, host, route) ELSE acc.dag, host, route)

\* clientCertificate is the configured name, nil when there is none.
computeIngressRule(source, dag, ing, rule) ==
  LET clientCert == UNION {LookupTLSSecret(source, n) : n \in source.clientCertificate}
  IN IF Is(source.clientCertificate) /\ ~Is(clientCert) THEN dag
     ELSE FoldLeft(LAMBDA acc, p : PathStep(source, ing, rule, clientCert, acc, p),
                   [dag |-> dag, returned |-> FALSE], rule.paths).dag

computeIngresses(source, dag, ings) ==
  FoldLeft(LAMBDA d, e : computeIngressRule(source, d, e.ing, e.rule), dag,
           FlattenSeq([i \in DOMAIN ings |->
             [j \in DOMAIN rulesFromSpec(ings[i]) |->
                [ing |-> ings[i], rule |-> rulesFromSpec(ings[i])[j]]]]))

IngressProcessorRun(source, dag, tlsOrder, ruleOrder) ==
  computeIngresses(source, computeSecureVirtualhosts(source, dag, tlsOrder), ruleOrder)
=============================================================================
