------------------------- MODULE ExtensionServices -------------------------
(***************************************************************************)
(* Translation of ExtensionServices into extension clusters                *)
(* (dag/extension_processor.go).  The result has the clusters to add and   *)
(* the condition of each ExtensionService.                                 *)
(*                                                                         *)
(* source.caSecrets holds the names of the CA secrets that                 *)
(* LookupUpstreamValidation accepts.                                       *)
(***************************************************************************)
EXTENDS IngressProcessor

ExtensionClusterName(name) == <<"extension", name>>

Select(c, value) == IF c THEN {value} ELSE {}

\* The services a spec refers to: found, and not of type ExternalName.
Resolved(source, t) ==
  {f \in LookupService(source.services, t.name, t.port) : f.service.external = ""}

WeightedService(t, f) ==
  [name |-> t.name, port |-> f.port.number, portName |-> f.port.name, weight |-> t.weight]

\* The cluster, nil when the upstream validation cannot be resolved, and the errors
\* and warnings of the Valid condition.
buildExtensionService(source, ext) ==
  LET clientCert == UNION {LookupTLSSecret(source, n) : n \in source.clientCertificate}
      protocol   == IF ext.protocol = "" THEN "h2" ELSE ext.protocol
      validated  == \A v \in ext.validation : v.ca \in source.caSecrets
      unusable   == ext.lb \in {"Cookie", "RequestHash"}
      resolved   == SelectSeq(ext.services, LAMBDA t : Is(Resolved(source, t)))
      early      == Select(~ext.timeoutParses, "TimeoutPolicyNotValid")
                      \cup Select(Is(source.clientCertificate) /\ ~Is(clientCert), "SecretNotValid")
  IN [warnings |-> Select(unusable, "LoadBalancerPolicy") \cup Select(ext.idleTimeout, "Idle"),
      errors |->
        early \cup
          (IF ~validated THEN {"TLSUpstreamValidation"}
           ELSE Select(Is(ext.validation) /\ protocol # "h2", "InconsistentProtocol")
                  \cup Select(Len(resolved) < Len(ext.services), "ServiceError")),
      cluster |->
        Select(validated,
          [name |-> ExtensionClusterName(ext.name),
           upstream |-> [name |-> <<"extension", ext.name>>,
                         services |-> [i \in DOMAIN resolved |->
                           WeightedService(resolved[i], The(Resolved(source, resolved[i])))]],
           protocol |-> protocol, lb |-> IF unusable THEN "" ELSE ext.lb,
           validation |-> ext.validation, sni |-> {v.subject : v \in ext.validation},
           circuitBreakers |-> IF Is(ext.circuitBreakers) THEN ext.circuitBreakers
                               ELSE source.circuitBreakers,
           clientCertificate |-> clientCert])]

ExtensionServiceValid(source, ext) == buildExtensionService(source, ext).errors = {}

ExtensionServiceProcessorRun(source, dag) ==
  [dag EXCEPT !.extensions =
     UNION {buildExtensionService(source, e).cluster :
              e \in {x \in source.extensions : ExtensionServiceValid(source, x)}}]
=============================================================================
