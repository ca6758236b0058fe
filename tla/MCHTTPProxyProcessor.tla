------------------------ MODULE MCHTTPProxyProcessor ------------------------
(***************************************************************************)
(* Small instances of HTTPProxyProcessor.  Each set of worlds varies one   *)
(* thing: the graph of the includes, the routes along one chain, the       *)
(* virtual host of a root, its TCPProxy, and the fqdns of two roots.       *)
(***************************************************************************)
EXTENDS HTTPProxyProcessor

Path(word) == <<"/", word>>
Prefix(path) == [kind |-> "prefix", value |-> path]
Exact(path) == [kind |-> "exact", value |-> path]
Regex(path) == [kind |-> "regex", value |-> path]
Header(op, value) == [kind |-> "header", value |-> [name |-> "h", op |-> op, value |-> value]]
Query(op) == [kind |-> "query", value |-> [name |-> "q", op |-> op, value |-> "v"]]

Plain == [enabled |-> FALSE, passthrough |-> FALSE, secret |-> "none", fallback |-> FALSE, client |-> "none"]
Terminated == [Plain EXCEPT !.enabled = TRUE, !.secret = "valid"]
PassedThrough == [Plain EXCEPT !.enabled = TRUE, !.passthrough = TRUE]
NoTCPProxy == [defined |-> FALSE, services |-> {}, include |-> NoInclude]
TCPTo(services, include) == [defined |-> TRUE, services |-> services, include |-> include]

RouteOf(conds) ==
    [conds |-> conds, problem |-> "none", action |-> "services", services |-> {"svc"},
     permit |-> FALSE, replace |-> {}, jwt |-> "unset"]
IncludeOf(name, conds) == [name |-> name, conds |-> conds]

Child(includes, routes) ==
    [root |-> FALSE, fqdn |-> [name |-> "", upper |-> FALSE], problems |-> {}, tls |-> Plain,
     providers |-> {}, default |-> NoProvider, includes |-> includes, routes |-> routes, tcp |-> NoTCPProxy]
Root(host, includes, routes) ==
    [Child(includes, routes) EXCEPT !.root = TRUE, !.fqdn = [name |-> host, upper |-> FALSE]]

World(proxies) == [proxies |-> proxies, listeners |-> {"http", "https"}, services |-> {"svc"}]

A == <<Prefix(Path("a"))>>
B == <<Prefix(Path("b"))>>
Home == <<RouteOf(<<>>)>>

\* Every graph of includes over two roots and two other HTTPProxies, with at most two includes
\* at the first root.
Graphs ==
    {World([r1 |-> Root("x", first, Home), r2 |-> Root("y", second, Home),
            c1 |-> Child(third, Home), c2 |-> Child(fourth, routes)]) :
        first \in {<<IncludeOf(n, A), IncludeOf(m, conds)>> :
                    n \in {"c1", "c2", "r2"}, m \in {"c1", "c2", "gone"}, conds \in {A, B}},
        second \in {<<>>, <<IncludeOf("c1", B)>>, <<IncludeOf("c2", <<>>)>>},
        third \in {<<>>} \union {<<IncludeOf(n, B)>> : n \in {"c1", "c2", "r1", "gone"}},
        fourth \in {<<>>, <<IncludeOf("c1", A)>>},
        routes \in {Home, <<[RouteOf(<<>>) EXCEPT !.problem = "TimeoutPolicyNotValid"]>>}}

\* One root, one include: the conditions on both sides, and the other parts of a route.
IncludeConds ==
    {<<>>, A, <<Prefix(<<"/", "a", "/">>)>>, <<Prefix(<<"a">>)>>, <<Exact(Path("a"))>>,
     <<Header("exact", "1")>>, <<Header("present", ""), Prefix(Path("a"))>>,
     <<Header("exact", "1"), Header("notexact", "1")>>, <<Query("exact")>>, <<Query("none")>>,
     <<Prefix(Path("a")), Prefix(Path("b"))>>}
RouteConds ==
    {<<>>, B, <<Prefix(<<"/", "b", "/">>)>>, <<Exact(Path("b"))>>, <<Exact(Path("b")), Header("exact", "2")>>,
     <<Regex(Path("b"))>>, <<Regex(BadRegex)>>, <<Header("notpresent", "")>>, <<Header("regex", "bad")>>,
     <<Query("exact")>>, <<Query("several")>>}
RouteVariants(route) ==
    {route,
     [route EXCEPT !.services = {"svc", "missing"}],
     [route EXCEPT !.services = {"missing"}],
     [route EXCEPT !.services = {"missing"}, !.problem = "IPFilterPolicyNotValid"],
     [route EXCEPT !.action = "redirect", !.services = {}],
     [route EXCEPT !.replace = {[prefix |-> <<>>, replacement |-> Slash]}],
     [route EXCEPT !.replace = {[prefix |-> <<"/", "a", "/", "b">>, replacement |-> Path("z")],
                                [prefix |-> <<>>, replacement |-> <<"/", "y", "/">>]}]}
RouteChoices ==
    UNION {{<<route>>, <<RouteOf(<<Prefix(Path("b")), Header("exact", "3")>>), route>>} :
            route \in UNION {RouteVariants(RouteOf(conds)) : conds \in RouteConds}}
Conditions ==
    {World([r1 |-> Root("x", <<IncludeOf("c1", conds)>>, Home), c1 |-> Child(<<>>, routes)]) :
        conds \in IncludeConds, routes \in RouteChoices}

\* One root: the checks of its virtual host, one at a time, and pairs of TLS settings.
Reasons ==
    {"FQDNNotSpecified", "RootProxyNotAllowedInNamespace", "IncompatibleIPAddressFilters",
     "TLSVersionsNotValid", "FallbackAndAuthorization", "FallbackNotValid", "RevocationListNotValid",
     "AuthorizationNotValid", "JWTProviderNotValid", "CORSPolicyNotValid", "RateLimitPolicyNotValid",
     "GlobalAuthorizationNotValid", "IPFilterPolicyNotValid"}
TLSSettings ==
    [enabled : {TRUE}, passthrough : BOOLEAN, secret : {"none", "valid", "invalid"},
     fallback : BOOLEAN, client : {"none", "valid", "no CA", "invalid"}]
RootVariants ==
    {[Root("x", <<IncludeOf("c1", A)>>, Home) EXCEPT !.tls = tls] : tls \in TLSSettings} \union
    {[Root("x", <<IncludeOf("c1", A)>>, Home) EXCEPT !.tls = tls, !.problems = {reason}] :
        tls \in {Plain, Terminated}, reason \in Reasons} \union
    {[Root("x", <<IncludeOf("c1", A)>>, <<[RouteOf(<<>>) EXCEPT !.jwt = jwt, !.permit = permit]>>)
        EXCEPT !.tls = tls, !.providers = Range(providers),
               !.default = IF providers = <<>> THEN NoProvider ELSE Last(providers)] :
        tls \in {Plain, Terminated, PassedThrough}, jwt \in {"unset", "disabled", "p1"},
        permit \in BOOLEAN, providers \in {<<>>, <<"p1">>, <<"p2">>}} \union
    {[Root("x", <<>>, <<>>) EXCEPT !.problems = {"AuthNotPermitted"}], Root("x", <<>>, <<>>)}
VirtualHosts ==
    {[World([r1 |-> root, c1 |-> Child(<<>>, Home)]) EXCEPT !.listeners = listeners] :
        root \in RootVariants, listeners \in SUBSET {"http", "https"}}

\* A root with a TCPProxy, and a chain of its includes.
TCPProxies ==
    {NoTCPProxy, TCPTo({}, NoInclude), TCPTo({"svc"}, NoInclude), TCPTo({"missing"}, NoInclude),
     TCPTo({"svc"}, "c1"), TCPTo({}, "c1"), TCPTo({}, "c2"), TCPTo({}, "r1"), TCPTo({}, "gone")}
TCPWorlds ==
    {[World([r1 |-> [Root("x", <<IncludeOf("c2", A)>>, Home) EXCEPT !.tls = tls, !.tcp = first],
             c1 |-> [Child(<<>>, <<>>) EXCEPT !.tcp = second],
             c2 |-> [Child(<<>>, Home) EXCEPT !.tcp = third]]) EXCEPT !.listeners = listeners] :
        tls \in {Plain, Terminated, PassedThrough}, first \in TCPProxies, second \in TCPProxies,
        third \in {NoTCPProxy, TCPTo({"svc"}, NoInclude), TCPTo({}, "c1")},
        listeners \in {{"http"}, {"http", "https"}}}

\* Three roots with one or two fqdns.
Hosts == {[name |-> name, upper |-> upper] : name \in {"x", "y"}, upper \in BOOLEAN}
HostWorlds ==
    {World([r1 |-> [Root("x", <<IncludeOf("c1", A)>>, Home) EXCEPT !.fqdn = h1],
            r2 |-> [Root("x", <<IncludeOf("c1", B)>>, Home) EXCEPT !.fqdn = h2, !.tls = Terminated],
            r3 |-> [Root("x", <<>>, Home) EXCEPT !.fqdn = h3],
            c1 |-> Child(<<>>, Home)]) : h1 \in Hosts, h2 \in Hosts, h3 \in Hosts}

MCWorlds == Graphs \union Conditions \union VirtualHosts \union TCPWorlds \union HostWorlds
=============================================================================
