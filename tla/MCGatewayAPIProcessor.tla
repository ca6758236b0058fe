----------------------- MODULE MCGatewayAPIProcessor -----------------------
(***************************************************************************)
(* A small instance of GatewayAPIProcessor: Gateways with two listeners    *)
(* out of a pool that covers every protocol and every way a listener can   *)
(* be refused, and pairs of routes.                                        *)
(***************************************************************************)
EXTENDS GatewayAPIProcessor

NoTLS == [mode |-> "none", refs |-> <<>>]
Terminate(name) ==
    [mode |-> "Terminate", refs |-> <<[secret |-> TRUE, namespace |-> "", name |-> name]>>]
Passthrough == [mode |-> "Passthrough", refs |-> <<>>]

AFoo == <<"a", "foo">>
WildFoo == <<"*", "foo">>
WildAFoo == <<"*", "a", "foo">>
BAFoo == <<"b", "a", "foo">>

MkListener(port, protocol, hostname, tls) ==
    [name |-> "", port |-> port, protocol |-> protocol, hostname |-> hostname,
     kinds |-> {}, from |-> "All", selector |-> "nil", tls |-> tls]

HTTPListeners == {MkListener(80, "HTTP", h, NoTLS) : h \in {NoHostname, WildFoo, WildAFoo, AFoo}}

HTTPSListeners ==
    {MkListener(443, "HTTPS", WildFoo, Terminate("one")),
     MkListener(443, "HTTPS", NoHostname, Terminate("two")),
     MkListener(443, "TLS", WildFoo, Passthrough),
     MkListener(443, "TLS", AFoo, Terminate("one"))}

\* Listeners with something wrong, or nothing to do with the routes' hostnames.
OddListeners ==
    {MkListener(80, "HTTP", BadHostname, NoTLS),
     MkListener(80, "UDP", NoHostname, NoTLS),
     MkListener(80, "TCP", NoHostname, NoTLS),
     MkListener(57536, "HTTP", NoHostname, NoTLS),
     MkListener(58559, "HTTP", AFoo, NoTLS),
     MkListener(443, "HTTPS", AFoo, NoTLS),
     MkListener(443, "HTTPS", AFoo, Terminate("missing")),
     [MkListener(80, "HTTP", AFoo, NoTLS) EXCEPT !.kinds = {"HTTPRoute", "TLSRoute"}],
     [MkListener(80, "HTTP", AFoo, NoTLS) EXCEPT !.from = "Same"],
     [MkListener(80, "HTTP", AFoo, NoTLS) EXCEPT !.from = "Selector"],
     [MkListener(80, "HTTP", AFoo, NoTLS) EXCEPT !.from = "Selector", !.selector = "given"]}

Pair(a, b) == <<[a EXCEPT !.name = "l1"], [b EXCEPT !.name = "l2"]>>

Gateway(ls) == [configured |-> TRUE, specAddresses |-> {}, statusAddresses |-> {}, listeners |-> ls]

ValidPairs ==
    {Gateway(Pair(a, b)) : a \in HTTPListeners, b \in HTTPListeners} \union
    {Gateway(Pair(a, b)) : a \in HTTPSListeners, b \in HTTPSListeners}
OddPairs ==
    {Gateway(Pair(a, MkListener(80, "HTTP", NoHostname, NoTLS))) : a \in OddListeners} \union
    {Gateway(Pair(MkListener(80, "HTTP", WildFoo, NoTLS), a)) :
        a \in {l \in OddListeners : l.protocol \in {"HTTP", "TCP"} /\ l.port # 57536}} \union
    {Gateway(Pair(MkListener(57536, "HTTP", NoHostname, NoTLS),
                  MkListener(58559, "HTTP", NoHostname, NoTLS))),
     Gateway(Pair(MkListener(443, "HTTPS", WildFoo, Terminate("one")),
                  MkListener(443, "HTTPS", AFoo, Terminate("missing"))))}
UnreadyGateways ==
    {[Gateway(Pair(MkListener(80, "HTTP", AFoo, NoTLS), MkListener(80, "HTTP", WildFoo, NoTLS)))
        EXCEPT !.configured = c, !.specAddresses = {"ip"}] : c \in BOOLEAN}

MCGateways == ValidPairs \union OddPairs \union UnreadyGateways

Backend == [namespace |-> "", name |-> "svc", weight |-> 1, filters |-> {}]
Match(path, query) == [path |-> path, query |-> query, bad |-> "none"]
Rule(matches) == [matches |-> matches, redirect |-> FALSE, timeouts |-> TRUE, filters |-> {},
                  mirrors |-> {}, backends |-> {Backend}]
Whole == [gateway |-> TRUE, section |-> "", port |-> 0]

Route(kind, hostnames, rules) ==
    [kind |-> kind, created |-> 1, namespace |-> GatewayNamespace, parents |-> <<Whole>>,
     hostnames |-> hostnames, rules |-> rules]

P == Rule({Match("p", "none")})
Q == Rule({Match("q", "none")})

FirstRoutes ==
    {[Route("HTTPRoute", h, <<P>>) EXCEPT !.created = c] : h \in {{AFoo}, {WildFoo}}, c \in 1..2}
    \union
    {Route("HTTPRoute", {}, <<P>>), Route("HTTPRoute", {AFoo}, <<P, Q>>),
     [Route("HTTPRoute", {}, <<P>>) EXCEPT !.parents =
        <<[Whole EXCEPT !.section = "l1"], [Whole EXCEPT !.section = "l2"]>>],
     [Route("HTTPRoute", {AFoo}, <<P>>) EXCEPT !.parents =
        <<[Whole EXCEPT !.gateway = FALSE], [Whole EXCEPT !.section = "l2"]>>],
     [Route("HTTPRoute", {AFoo}, <<P>>) EXCEPT !.namespace = "apps"],
     Route("TLSRoute", {AFoo}, <<Rule({})>>),
     [Route("TCPRoute", {}, <<Rule({})>>) EXCEPT !.parents = <<[Whole EXCEPT !.port = 80]>>],
     Route("TCPRoute", {}, <<Rule({})>>)}

SecondRoutes ==
    {Route("HTTPRoute", h, <<P>>) : h \in {{AFoo}, {WildFoo}, {BadHostname, BAFoo}}}
    \union
    {Route("HTTPRoute", {BAFoo, AFoo}, <<Q, P>>),
     Route("HTTPRoute", {AFoo}, <<[Rule({Match("p", "x")}) EXCEPT !.redirect = TRUE, !.backends = {}],
                                  [P EXCEPT !.timeouts = FALSE], [Q EXCEPT !.backends = {}]>>),
     Route("HTTPRoute", {AFoo}, <<[P EXCEPT !.backends = {[Backend EXCEPT !.namespace = "other"]}],
                                  [Q EXCEPT !.backends = {[Backend EXCEPT !.name = "gone"]}]>>),
     Route("HTTPRoute", {AFoo}, <<[P EXCEPT !.filters = {"type"}, !.matches =
                                    {Match("p", "none"), [Match("q", "y") EXCEPT !.bad = "value"],
                                     [Match("r", "none") EXCEPT !.bad = "path"]}]>>),
     Route("GRPCRoute", {AFoo}, <<P, Rule({})>>),
     Route("GRPCRoute", {AFoo}, <<>>),
     Route("GRPCRoute", {AFoo},
           <<[Rule({[Match("m", "none") EXCEPT !.bad = "value"]}) EXCEPT
                !.backends = {[Backend EXCEPT !.filters = {"headers"}]}]>>),
     Route("TLSRoute", {WildFoo, AFoo}, <<Rule({})>>),
     Route("TCPRoute", {}, <<Rule({}), Rule({})>>),
     Route("TCPRoute", {}, <<Rule({})>>)}

MCRouteLists == {<<a, b>> : a \in FirstRoutes, b \in SecondRoutes}

MCObjectSets ==
    {[secrets |-> {<<GatewayNamespace, "one">>, <<GatewayNamespace, "two">>},
      services |-> {<<GatewayNamespace, "svc">>, <<"apps", "svc">>, <<"other", "svc">>},
      grants |-> {[namespace |-> "other",
                   from |-> {[kind |-> "HTTPRoute", namespace |-> GatewayNamespace]},
                   to |-> {[kind |-> "Service", name |-> ""]}]},
      namespaces |-> {GatewayNamespace, "apps"},
      selected |-> {"apps"}]}
=============================================================================
