-------------------------- MODULE GatewayListeners --------------------------
(***************************************************************************)
(* The listeners of a Gateway: which of them can be programmed, under      *)
(* which Envoy listener, and what their status says                        *)
(* (internal/gatewayapi/listeners.go and the listener half of              *)
(* internal/dag/gatewayapi_processor.go).                                  *)
(*                                                                         *)
(* A listener is a record with fields name, port, protocol, hostname,      *)
(* kinds, from, selector and tls.  A hostname is the sequence of its       *)
(* labels, a wildcard hostname starts with the label "*", and the empty    *)
(* sequence is "no hostname".  kinds is the set of the allowed route kinds *)
(* (empty: not given; "Other" stands for every unsupported kind or group). *)
(* selector is "nil", "empty", "bad" (does not parse) or "given".  tls is  *)
(* [mode, refs], with mode "none" when the listener has no TLS section; a  *)
(* section without a mode terminates TLS, and has mode "Terminate".        *)
(***************************************************************************)
EXTENDS GatewayInputs

GatewayNamespace == "gw"

RouteKinds == {"HTTPRoute", "TLSRoute", "GRPCRoute", "TCPRoute"}

NoHostname == <<>>
NoSecret == <<>>

\* One representative of the hostnames that are not DNS names.
BadHostname == <<"_">>

IsValidHostname(hostname) == hostname # BadHostname

toContainerPort(listenerPort) ==
    LET shifted == listenerPort + 8000
        wrapped == IF shifted > MaxPort THEN shifted - MaxPort ELSE shifted
    IN  IF wrapped <= 1023 THEN wrapped + 1023 ELSE wrapped

-----------------------------------------------------------------------------
(* ValidateListeners.  The loop compares a listener with every earlier one,
   the earlier ones that were found invalid included, and stops at the first
   conflict; what it records for listener i depends on the list alone. *)

compatibleTLSProtocols == {"HTTPS", "TLS", "projectcontour.io/https"}

SupportedProtocols == compatibleTLSProtocols \union {"HTTP", "TCP"}

ProtocolsConflict(protocol, other) ==
    \/ protocol = "HTTP" /\ other # "HTTP"
    \/ protocol \in compatibleTLSProtocols /\ other \notin compatibleTLSProtocols
    \/ protocol = "TCP" /\ other # "TCP"

Conflict(listener, other) ==
    IF listener.port # other.port
    THEN IF toContainerPort(listener.port) = toContainerPort(other.port)
         THEN "PortUnavailable" ELSE "none"
    ELSE IF ProtocolsConflict(listener.protocol, other.protocol) THEN "ProtocolConflict"
    ELSE IF listener.hostname = other.hostname THEN "HostnameConflict"
    ELSE "none"

HostnameIsBad(listener) == listener.hostname # NoHostname /\ ~IsValidHostname(listener.hostname)

IsValidListener(listeners, i) ==
    /\ ~HostnameIsBad(listeners[i])
    /\ listeners[i].protocol \in SupportedProtocols
    /\ \A j \in 1..(i - 1) : Conflict(listeners[i], listeners[j]) = "none"

\* The reason of the condition recorded for listener i, which is not valid: the first
\* conflict ends the loop.
InvalidReason(listeners, i) ==
    LET listener == listeners[i]
        first == CHOOSE j \in 1..(i - 1) :
                    /\ Conflict(listener, listeners[j]) # "none"
                    /\ \A k \in 1..(j - 1) : Conflict(listener, listeners[k]) = "none"
    IN  IF HostnameIsBad(listener) THEN "Invalid"
        ELSE IF listener.protocol \notin SupportedProtocols THEN "UnsupportedProtocol"
        ELSE Conflict(listener, listeners[first])

\* The type of that condition.
InvalidConditionType(reason) ==
    CASE reason = "Invalid" -> "Programmed"
      [] reason \in {"UnsupportedProtocol", "PortUnavailable"} -> "Accepted"
      [] OTHER -> "Conflicted"

\* The Envoy listener a valid Gateway listener belongs to: protocol class and port.
dagListenerName(listener) ==
    <<IF listener.protocol = "HTTP" THEN "http"
      ELSE IF listener.protocol = "TCP" THEN "tcp" ELSE "https",
      listener.port>>

\* The Envoy listeners the ListenerProcessor adds to the DAG, one for each name.
Ports(listeners) ==
    {[name |-> dagListenerName(listeners[i]),
      port |-> listeners[i].port,
      containerPort |-> toContainerPort(listeners[i].port)] :
        i \in {j \in 1..Len(listeners) : IsValidListener(listeners, j)}}

-----------------------------------------------------------------------------
(* computeListener, for listener i of the list, with the objects of the cache:
   grants (ReferenceGrants) and secrets (the valid TLS secrets). *)

KindSupported(protocol, kind) ==
    /\ kind \in RouteKinds
    /\ kind = "TLSRoute" => protocol = "TLS"
    /\ kind = "TCPRoute" => protocol \in {"TCP", "TLS"}

getListenerRouteKinds(listener) ==
    IF listener.kinds # {} THEN {k \in listener.kinds : KindSupported(listener.protocol, k)}
    ELSE CASE listener.protocol \in {"HTTP", "HTTPS"} -> {"HTTPRoute", "GRPCRoute"}
           [] listener.protocol = "TLS" -> {"TLSRoute", "TCPRoute"}
           [] listener.protocol = "TCP" -> {"TCPRoute"}
           [] OTHER -> {}

\* A ReferenceGrant is [namespace, from, to]; a name "" in "to" grants every name.
validCrossNamespaceRef(grants, kind, namespace, toKind, toNamespace, toName) ==
    \E grant \in grants :
        /\ grant.namespace = toNamespace
        /\ [kind |-> kind, namespace |-> namespace] \in grant.from
        /\ \E to \in grant.to : to.kind = toKind /\ to.name \in {"", toName}

\* The type of the condition a failing TLS section sets, "none" when it resolves.
\* A certificate reference is [secret, namespace, name]: secret says whether group
\* and kind name a core Secret; namespace "" is "not given".
resolveListenerSecret(refs, objects) ==
    IF Len(refs) # 1 THEN "Programmed"
    ELSE LET ref == refs[1]
             namespace == IF ref.namespace = "" THEN GatewayNamespace ELSE ref.namespace
         IN  IF /\ ref.secret
                /\ \/ namespace = GatewayNamespace
                   \/ validCrossNamespaceRef(objects.grants, "Gateway", GatewayNamespace,
                                             "Secret", namespace, ref.name)
                /\ <<namespace, ref.name>> \in objects.secrets
             THEN "none" ELSE "ResolvedRefs"

TLSProblem(listener, objects) ==
    CASE listener.protocol \notin {"HTTPS", "TLS"} -> "none"
      [] listener.tls.mode = "none" -> "Programmed"
      [] listener.tls.mode = "Terminate" -> resolveListenerSecret(listener.tls.refs, objects)
      [] listener.protocol = "TLS" /\ listener.tls.mode = "Passthrough" ->
            IF listener.tls.refs = <<>> THEN "none" ELSE "Programmed"
      [] OTHER -> "Programmed"

\* namespaceSelector is left nil: computeListener returns before it is set.
SelectorProblem(listener) == listener.from = "Selector" /\ listener.selector # "given"

Ready(listeners, i, objects) ==
    /\ ~SelectorProblem(listeners[i])
    /\ IsValidListener(listeners, i)
    /\ TLSProblem(listeners[i], objects) = "none"

tlsSecret(listeners, i, objects) ==
    LET tls == listeners[i].tls
    IN  IF /\ Ready(listeners, i, objects)
           /\ listeners[i].protocol \in {"HTTPS", "TLS"}
           /\ tls.mode = "Terminate"
        THEN <<IF tls.refs[1].namespace = "" THEN GatewayNamespace ELSE tls.refs[1].namespace,
               tls.refs[1].name>>
        ELSE NoSecret

\* The types of the conditions that report a problem with listener i.
ListenerProblems(listeners, i, objects) ==
    LET listener == listeners[i]
        valid == IsValidListener(listeners, i)
        problem == TLSProblem(listener, objects)
    IN  (IF valid THEN {} ELSE {InvalidConditionType(InvalidReason(listeners, i))}) \union
        (IF \E k \in listener.kinds : ~KindSupported(listener.protocol, k)
         THEN {"ResolvedRefs"} ELSE {}) \union
        (IF SelectorProblem(listener) THEN {"Programmed"}
         ELSE IF valid /\ problem # "none" THEN {problem} ELSE {})

\* The deferred defaults: a listener without a problem is Programmed; every other one is
\* not, and is Accepted or has its references resolved unless a condition says otherwise.
ListenerConditions(listeners, i, objects) ==
    LET problems == ListenerProblems(listeners, i, objects)
    IN  [Programmed |-> problems = {},
         Accepted |-> "Accepted" \notin problems,
         ResolvedRefs |-> "ResolvedRefs" \notin problems]
=============================================================================
