------------------------- MODULE HTTPProxyProcessor -------------------------
(***************************************************************************)
(* One run of the HTTPProxyProcessor (internal/dag/httpproxy_processor.go) *)
(* over the HTTPProxies of the cache: the roots with an fqdn of their own  *)
(* are computed one by one, in the order of a Go map; each walk follows    *)
(* the includes depth first, and all walks share the orphans, the statuses *)
(* and the virtual hosts.                                                  *)
(*                                                                         *)
(* A world is [proxies, listeners, services]: the HTTPProxies by name (a   *)
(* name stands for a namespace and a name), the protocols the DAG has      *)
(* exactly one listener for, and the services that resolve.  An HTTPProxy  *)
(* is a record                                                             *)
(*   root      whether it has a virtual host                               *)
(*   fqdn      [name, upper], upper for an fqdn that is not in lower case  *)
(*   problems  the checks of the virtual host that fail, by their reason   *)
(*   tls       [enabled, passthrough, secret, fallback, client]            *)
(*   providers the names of the JWT providers, default the default one     *)
(*   includes  a sequence of [name, conds]                                 *)
(*   routes    a sequence of [conds, problem, action, services, permit,    *)
(*             replace, jwt]                                               *)
(*   tcp       [defined, services, include]                                *)
(* The checks of single fields (timeouts, header policies, CORS, rate      *)
(* limits, authorization, JWT providers...) are abstracted to their        *)
(* outcome: the reason they report, at the point where they report it.     *)
(***************************************************************************)
EXTENDS MatchConditions

CONSTANT Worlds     \* what a run may find in the cache

NoInclude == "none"

\* The names are those of objects, and no check of a route reports that its HTTPProxy is orphaned.
ASSUME WorldsAssumption ==
    \A w \in Worlds :
        /\ NoInclude \notin DOMAIN w.proxies
        /\ \A n \in DOMAIN w.proxies :
            LET proxy == w.proxies[n]
            IN  /\ proxy.root \in BOOLEAN
                /\ Len(proxy.includes) \in Nat
                /\ DOMAIN proxy.includes = 1..Len(proxy.includes)
                /\ \A i \in DOMAIN proxy.routes : proxy.routes[i].problem # "Orphaned"
                /\ proxy.fqdn = [name |-> proxy.fqdn.name, upper |-> proxy.fqdn.upper]

VARIABLES
    world,      \* the objects of the cache, fixed during a run
    pc,         \* "start", "pick", "tcp", "routes" or "done"
    pending,    \* the HTTPProxies validHTTPProxies returned, not computed yet
    orphaned,   \* p.orphaned
    status,     \* the errors of the ProxyUpdate of each HTTPProxy in the status cache
    stack,      \* the calls in progress, the root's first
    insecure,   \* the routes of the virtual hosts of the http listener, by match
    secure      \* the virtual hosts of the https listener

vars == <<world, pc, pending, orphaned, status, stack, insecure, secure>>

Proxies == world.proxies
Names == DOMAIN Proxies
Roots == {n \in Names : Proxies[n].root}
Host(n) == Proxies[n].fqdn

\* An HTTPProxy without an update and one with an update that reports no error are not told
\* apart: a commit treats them alike.
Valid == {}

NoRoutes == [match \in {} |-> {}]
EmptyHost == [secret |-> FALSE, tcp |-> {}, routes |-> NoRoutes]

Init ==
    /\ world \in Worlds
    /\ pc = "start"
    /\ pending = {}
    /\ orphaned = {}
    /\ status = [n \in Names |-> Valid]
    /\ stack = <<>>
    /\ insecure = [h \in {Host(n) : n \in Roots} |-> NoRoutes]
    /\ secure = [h \in {Host(n) : n \in Roots} |-> EmptyHost]

-----------------------------------------------------------------------------
(* The status cache: the function ProxyAccessor returns to commit an update. *)

\* An update without errors never replaces one with errors; any other update replaces what
\* was there.
Commit(before, errors) == IF before # Valid /\ errors = Valid THEN before ELSE errors

-----------------------------------------------------------------------------
(* validHTTPProxies *)

ToLower(fqdn) == [fqdn EXCEPT !.upper = FALSE]

\* A broken form: fqdns are compared as they are written.
SameHost_CaseSensitive(n, m) == Host(n) = Host(m)

SameHost(n, m) == ToLower(Host(n)) = ToLower(Host(m))

Duplicates == {n \in Roots : \E m \in Roots : m # n /\ SameHost(n, m)}

ValidHTTPProxies ==
    /\ pc = "start"
    /\ pc' = "pick"
    /\ pending' = Names \ Duplicates
    /\ status' = [n \in Names |-> IF n \in Duplicates THEN {"DuplicateVhost"} ELSE status[n]]
    /\ UNCHANGED <<world, orphaned, stack, insecure, secure>>

-----------------------------------------------------------------------------
(* computeHTTPProxy up to the first walk.  The checks are listed in the order
   of the code, each with the reason it reports; the first that fails ends the
   computation, unless it is only noted. *)

Check(fails, reason) == [fails |-> fails, reason |-> reason, stops |-> TRUE]
NoteOnly(fails, reason) == [fails |-> fails, reason |-> reason, stops |-> FALSE]

\* A check of policies whose outcome the world gives.
Policy(proxy, reason) == Check(reason \in proxy.problems, reason)

Stops(checks) == \E i \in DOMAIN checks : checks[i].fails /\ checks[i].stops

\* What is reported up to the check that ends the computation.
Report(checks) ==
    {checks[i].reason : i \in {k \in DOMAIN checks :
        checks[k].fails /\ \A j \in 1..(k - 1) : ~(checks[j].fails /\ checks[j].stops)}}

RootChecks(proxy) ==
    <<Policy(proxy, "FQDNNotSpecified"),
      Policy(proxy, "RootProxyNotAllowedInNamespace"),
      Check(proxy.routes = <<>> /\ proxy.includes = <<>> /\ ~proxy.tcp.defined, "NothingDefined"),
      Check(proxy.providers # {} /\ (~proxy.tls.enabled \/ proxy.tls.secret = "none"),
            "JWTVerificationNotPermitted"),
      Policy(proxy, "AuthNotPermitted"),
      Policy(proxy, "IncompatibleIPAddressFilters")>>

TLSChecks(proxy) ==
    LET tls == proxy.tls
    IN  IF ~tls.enabled THEN <<>>
        ELSE <<NoteOnly(tls.passthrough /\ tls.fallback, "TLSIncompatibleFeatures"),
               Check(tls.secret # "none" /\ tls.passthrough, "TLSConfigNotValid"),
               Check(tls.secret = "none" /\ ~tls.passthrough, "TLSConfigNotValid"),
               Check(tls.passthrough /\ tls.client # "none", "TLSIncompatibleFeatures"),
               Check(tls.secret = "invalid", "SecretNotValid"),
               Check(~tls.passthrough /\ "https" \notin world.listeners, "ErrorIdentifyingListener"),
               Policy(proxy, "TLSVersionsNotValid")>>

\* The checks that follow once the secure virtual host was added and given its Secret.
SecureChecks(proxy) ==
    LET tls == proxy.tls
    IN  IF ~tls.enabled \/ tls.passthrough THEN <<>>
        ELSE <<Check(tls.fallback /\ tls.client # "none", "TLSIncompatibleFeatures"),
               Policy(proxy, "FallbackAndAuthorization"),
               Policy(proxy, "FallbackNotValid"),
               Check(tls.client = "invalid", "ClientValidationInvalid"),
               NoteOnly(tls.client = "no CA", "ClientValidationInvalid"),
               Policy(proxy, "RevocationListNotValid"),
               Policy(proxy, "AuthorizationNotValid"),
               Policy(proxy, "JWTProviderNotValid")>>

TLSEnabled(proxy) == proxy.tls.enabled

AllChecks(proxy) ==
    RootChecks(proxy) \o TLSChecks(proxy) \o SecureChecks(proxy) \o
    <<Check(proxy.tcp.defined /\ ~TLSEnabled(proxy), "TLSMustBeConfigured")>>

GetsSecret(proxy) ==
    /\ TLSEnabled(proxy) /\ ~proxy.tls.passthrough
    /\ ~Stops(RootChecks(proxy) \o TLSChecks(proxy))

Frame(n, conds, errors) == [proxy |-> n, conds |-> conds, next |-> 1, routes |-> <<>>, errors |-> errors]

ComputeChild(n) ==
    /\ pc = "pick"
    /\ n \in pending \ Roots
    /\ pending' = pending \ {n}
    /\ orphaned' = orphaned \union {n}
    /\ status' = [status EXCEPT ![n] = Commit(@, Valid)]
    /\ UNCHANGED <<world, pc, stack, insecure, secure>>

\* The roots come after every other HTTPProxy.
ComputeRoot(n) ==
    LET proxy == Proxies[n]
    IN  /\ pc = "pick"
        /\ pending \subseteq Roots
        /\ n \in pending
        /\ pending' = pending \ {n}
        /\ secure' = IF GetsSecret(proxy) THEN [secure EXCEPT ![Host(n)].secret = TRUE] ELSE secure
        /\ \/ /\ Stops(AllChecks(proxy))
              /\ status' = [status EXCEPT ![n] = Commit(@, Report(AllChecks(proxy)))]
              /\ UNCHANGED <<pc, stack>>
           \/ /\ ~Stops(AllChecks(proxy))
              /\ pc' = IF proxy.tcp.defined THEN "tcp" ELSE "routes"
              /\ stack' = <<Frame(n, <<>>, Report(AllChecks(proxy)))>>
              /\ UNCHANGED status
        /\ UNCHANGED <<world, orphaned, insecure>>

-----------------------------------------------------------------------------
(* processHTTPProxyTCPProxy: a chain of calls, each of which ends the chain or
   follows the one include of its TCPProxy. *)

Top == Last(stack)
Visited == {stack[i].proxy : i \in DOMAIN stack}
RootProxy == Proxies[stack[1].proxy]

\* Why the chain ends at the proxy, "none" when it ends well; "follow" when it goes on.
TCPOutcome(n) ==
    LET tcp == Proxies[n].tcp
    IN  IF ~tcp.defined THEN "none"
        ELSE IF tcp.services # {}
             THEN IF tcp.include # NoInclude THEN "NoServicesAndInclude"
                  ELSE IF ~(tcp.services \subseteq world.services) THEN "ServiceUnresolvedReference"
                  ELSE IF "https" \notin world.listeners THEN "ErrorIdentifyingListener"
                  ELSE "none"
             ELSE IF tcp.include = NoInclude THEN "NothingDefined"
                  ELSE IF tcp.include \notin Names THEN "IncludeNotFound"
                  ELSE IF Proxies[tcp.include].root THEN "RootIncludesRoot"
                  ELSE IF tcp.include \in Visited THEN "IncludeCreatesCycle"
                  ELSE "follow"

\* A broken form: the target stays an orphan.
Adopted_Never(n) == {}

\* The target of an include stops being an orphan before the check for a cycle.
Adopted(n) ==
    IF TCPOutcome(n) \in {"follow", "IncludeCreatesCycle"} THEN {Proxies[n].tcp.include} ELSE {}

FollowTCPInclude ==
    /\ pc = "tcp"
    /\ TCPOutcome(Top.proxy) = "follow"
    /\ orphaned' = orphaned \ Adopted(Top.proxy)
    /\ stack' = Append(stack, Frame(Proxies[Top.proxy].tcp.include, <<>>, Valid))
    /\ UNCHANGED <<world, pc, pending, status, insecure, secure>>

\* The commits of the chain are deferred: they happen when the chain ends, for the root when
\* its computation ends.
EndTCPProxy ==
    LET outcome == TCPOutcome(Top.proxy)
        errors == IF outcome = "none" THEN Top.errors ELSE Top.errors \union {outcome}
        root == stack[1].proxy
        ErrorsOf(n) == IF n = Top.proxy THEN errors ELSE (IF n = root THEN stack[1].errors ELSE Valid)
    IN  /\ pc = "tcp"
        /\ outcome # "follow"
        /\ orphaned' = orphaned \ Adopted(Top.proxy)
        /\ status' = [n \in Names |->
                        IF n \in Visited /\ (n # root \/ outcome # "none")
                        THEN Commit(status[n], ErrorsOf(n)) ELSE status[n]]
        /\ \/ /\ outcome = "none"
              /\ secure' = IF ~Proxies[Top.proxy].tcp.defined THEN secure
                           ELSE [secure EXCEPT ![Host(root)].tcp = Proxies[Top.proxy].tcp.services]
              /\ pc' = "routes"
              /\ stack' = <<stack[1]>>
           \/ /\ outcome # "none"
              /\ pc' = "pick"
              /\ stack' = <<>>
              /\ UNCHANGED secure
        /\ UNCHANGED <<world, pending, insecure>>

-----------------------------------------------------------------------------
(* computeRoutes: one frame of the stack for each call.  A call looks at its
   includes in order, each of which may be a call of its own; then at its own
   routes, and returns. *)

ConditionsReason(conds) ==
    CASE ~includeMatchConditionsValid(conds) \/ ~pathMatchConditionsValid(conds) ->
            "PathMatchConditionsNotValid"
      [] OTHER -> IF ~headerMatchConditionsValid(conds) THEN "HeaderMatchConditionsNotValid"
                  ELSE IF ~queryParameterMatchConditionsValid(conds)
                  THEN "QueryParameterMatchConditionsNotValid" ELSE "none"

\* Why the call for proxy n does not follow its include i, or "none".
IncludeReason(n, i) ==
    LET includes == Proxies[n].includes
        target == includes[i].name
    IN  IF ConditionsReason(includes[i].conds) # "none" THEN ConditionsReason(includes[i].conds)
        ELSE IF \E j \in 1..(i - 1) :
                    /\ ConditionsReason(includes[j].conds) = "none"
                    /\ includeMatchConditionsIdentical(includes[i].conds, includes[j].conds)
        THEN "DuplicateMatchConditions"
        ELSE IF target \notin Names THEN "IncludeNotFound"
        ELSE IF Proxies[target].root THEN "RootIncludesRoot"
        ELSE "none"

NoProvider == ""

\* The conditions are those of the include alone, not those of the chain above it.
addStatusBadGatewayRoute(routes, conds, n) ==
    IF conds = <<>> THEN routes
    ELSE Append(routes, [match |-> mergePathMatchConditions(conds),
                         headers |-> mergeHeaderMatchConditions(conds),
                         query |-> mergeQueryParamMatchConditions(conds),
                         rewrite |-> NoRewrite, owner |-> n, upgrade |-> FALSE,
                         action |-> "502", services |-> {}, jwt |-> NoProvider])

HasInclude == pc = "routes" /\ Top.next <= Len(Proxies[Top.proxy].includes)
Include == Proxies[Top.proxy].includes[Top.next]

CreatesCycle == Include.name \in Visited

SkipInclude ==
    LET reason == IncludeReason(Top.proxy, Top.next)
    IN  /\ HasInclude
        /\ reason # "none"
        /\ stack' = [stack EXCEPT ![Len(stack)].next = @ + 1,
                                  ![Len(stack)].errors = @ \union {reason},
                                  ![Len(stack)].routes =
                                      IF reason \in {"IncludeNotFound", "RootIncludesRoot"}
                                      THEN addStatusBadGatewayRoute(@, Include.conds, Top.proxy)
                                      ELSE @]
        /\ UNCHANGED <<world, pc, pending, orphaned, status, insecure, secure>>

\* The call for the included HTTPProxy returns at once, and the error is one of that HTTPProxy.
RefuseCycle ==
    /\ HasInclude
    /\ IncludeReason(Top.proxy, Top.next) = "none"
    /\ CreatesCycle
    /\ stack' = [stack EXCEPT ![Len(stack)].next = @ + 1]
    /\ status' = [status EXCEPT ![Include.name] = Commit(@, {"IncludeCreatesCycle"})]
    /\ orphaned' = orphaned \ {Include.name}
    /\ UNCHANGED <<world, pc, pending, insecure, secure>>

FollowInclude ==
    /\ HasInclude
    /\ IncludeReason(Top.proxy, Top.next) = "none"
    /\ ~CreatesCycle
    /\ stack' = Append([stack EXCEPT ![Len(stack)].next = @ + 1],
                       Frame(Include.name, Top.conds \o Include.conds, Valid))
    /\ UNCHANGED <<world, pc, pending, orphaned, status, insecure, secure>>

\* The problems of a route that are found before its rewrites are looked at, and those that
\* are found once all of its services were.
PolicyProblems ==
    {"RequestHeadersPolicyInvalid", "ResponseHeaderPolicyInvalid", "CookieRewritePoliciesInvalid",
     "TimeoutPolicyNotValid", "RateLimitPolicyNotValid", "RequestRedirectPolicy"}
LateProblems == {"InvalidJWTVerificationPolicy", "IPFilterPolicyNotValid"}

\* The reason a route of a call ends the call, or "none".
RouteReason(route, conds) ==
    LET all == conds \o route.conds
    IN  IF route.problem = "RouteActionCountNotValid" THEN route.problem
        ELSE IF ~pathMatchConditionsValid(route.conds) THEN "PathMatchConditionsNotValid"
        ELSE IF ~headerMatchConditionsValid(all) THEN "HeaderMatchConditionsNotValid"
        ELSE IF ~queryParameterMatchConditionsValid(all) THEN "QueryParameterMatchConditionsNotValid"
        ELSE IF route.problem \in PolicyProblems THEN route.problem
        ELSE IF route.replace # {} /\ mergePathMatchConditions(all).kind # "prefix" THEN "MustHavePrefix"
        ELSE route.problem

\* The replacement for the merged prefix, otherwise the one without a prefix.
PrefixRewrite(route, match) ==
    LET exact == {r \in route.replace : r.prefix # <<>> /\ r.prefix = match.path}
        default == {r \in route.replace : r.prefix = <<>>}
    IN  IF exact # {} THEN (CHOOSE r \in exact : TRUE).replacement
        ELSE IF default # {} THEN (CHOOSE r \in default : TRUE).replacement
        ELSE NoRewrite

\* The route of the DAG.  Services that do not resolve are left out; a route that is left
\* with none answers 503.
DagRoute(n, route, conds, root) ==
    LET all == conds \o route.conds
        clusters == route.services \intersect world.services
    IN  [match |-> mergePathMatchConditions(all),
         headers |-> mergeHeaderMatchConditions(all),
         query |-> mergeQueryParamMatchConditions(all),
         rewrite |-> PrefixRewrite(route, mergePathMatchConditions(all)),
         owner |-> n,
         upgrade |-> TLSEnabled(root) /\ ~route.permit,
         action |-> IF route.action = "services" /\ clusters = {} THEN "503" ELSE route.action,
         services |-> clusters,
         jwt |-> CASE route.jwt = "unset" -> root.default
                   [] route.jwt = "disabled" -> NoProvider
                   [] OTHER -> route.jwt]

\* A broken form: the error of a route ends the call and is not recorded.
Result_Silent(frame, root) ==
    LET routes == Proxies[frame.proxy].routes
    IN  [errors |-> frame.errors,
         routes |-> IF \E i \in DOMAIN routes : RouteReason(routes[i], frame.conds) # "none" THEN <<>>
                    ELSE [i \in DOMAIN routes |-> DagRoute(frame.proxy, routes[i], frame.conds, root)]]

\* What the call returns: no route at all, not even the included ones, after the first route
\* with a problem.  A service that does not resolve is only noted; a route with a problem of
\* its services has it at the first of them.
ResultOf(frame, root, routes, reason) ==
    LET bad == {i \in DOMAIN routes : reason[i] # "none"}
        first == {i \in bad : \A j \in bad : i <= j}
        seen == {i \in DOMAIN routes : /\ \A j \in bad : i <= j
                                       /\ i \in bad => reason[i] \in LateProblems}
        unresolved == \E i \in seen : ~(routes[i].services \subseteq world.services)
    IN  [errors |-> frame.errors \union
                    (IF unresolved THEN {"ServiceUnresolvedReference"} ELSE {}) \union
                    {reason[i] : i \in first},
         routes |-> IF bad # {} THEN <<>>
                    ELSE expandPrefixMatches(frame.routes \o
                            [i \in DOMAIN routes |->
                                DagRoute(frame.proxy, routes[i], frame.conds, root)])]

Result(frame, root) ==
    LET routes == Proxies[frame.proxy].routes
    IN  ResultOf(frame, root, routes,
                 [i \in DOMAIN routes |-> RouteReason(routes[i], frame.conds)])

ReturnRoutes ==
    LET result == Result(Top, RootProxy)
        caller == Len(stack) - 1
    IN  /\ pc = "routes"
        /\ Len(stack) > 1
        /\ ~HasInclude
        /\ status' = [status EXCEPT ![Top.proxy] = Commit(@, result.errors)]
        /\ orphaned' = orphaned \ {Top.proxy}
        /\ stack' = [SubSeq(stack, 1, caller) EXCEPT ![caller].routes = @ \o result.routes]
        /\ UNCHANGED <<world, pc, pending, insecure, secure>>

-----------------------------------------------------------------------------
(* The rest of computeHTTPProxy, with the routes of the root. *)

HostChecks(proxy) ==
    <<Check("http" \notin world.listeners, "ErrorIdentifyingListener"),
      Policy(proxy, "CORSPolicyNotValid"),
      Policy(proxy, "RateLimitPolicyNotValid"),
      NoteOnly("GlobalAuthorizationNotValid" \in proxy.problems, "GlobalAuthorizationNotValid"),
      Policy(proxy, "IPFilterPolicyNotValid")>>

MatchOf(route) == <<route.match, route.headers, route.query>>

\* AddRoute for each route in turn: of two routes with one match the later one stays.
addRoutes(host, routes) ==
    LET matches == {MatchOf(routes[i]) : i \in DOMAIN routes}
        LastWith(match) == CHOOSE i \in DOMAIN routes :
                                /\ MatchOf(routes[i]) = match
                                /\ \A j \in (i + 1)..Len(routes) : MatchOf(routes[j]) # match
    IN  [match \in DOMAIN host \union matches |->
            IF match \in matches THEN routes[LastWith(match)] ELSE host[match]]

\* The routes are in the secure virtual host before their JWT providers are looked up.
AddRoutes ==
    LET root == stack[1].proxy
        proxy == Proxies[root]
        result == Result(stack[1], proxy)
        stopped == Stops(HostChecks(proxy))
        tls == ~stopped /\ TLSEnabled(proxy) /\ ~proxy.tcp.defined
        late == IF ~tls THEN {}
                ELSE IF "https" \notin world.listeners THEN {"ErrorIdentifyingListener"}
                ELSE IF \E i \in DOMAIN result.routes :
                            result.routes[i].jwt \notin proxy.providers \union {NoProvider}
                THEN {"JWTProviderNotDefined"} ELSE {}
    IN  /\ pc = "routes"
        /\ Len(stack) = 1
        /\ ~HasInclude
        /\ insecure' = IF stopped THEN insecure
                       ELSE [insecure EXCEPT ![Host(root)] = addRoutes(@, result.routes)]
        /\ secure' = IF tls /\ "https" \in world.listeners
                     THEN [secure EXCEPT ![Host(root)].routes = addRoutes(@, result.routes)]
                     ELSE secure
        /\ status' = [status EXCEPT ![root] =
                        Commit(@, result.errors \union Report(HostChecks(proxy)) \union late)]
        /\ pc' = "pick"
        /\ stack' = <<>>
        /\ UNCHANGED <<world, pending, orphaned>>

\* The end of Run.
ReportOrphans ==
    /\ pc = "pick"
    /\ pending = {}
    /\ status' = [n \in Names |-> IF n \in orphaned THEN Commit(status[n], {"Orphaned"}) ELSE status[n]]
    /\ pc' = "done"
    /\ UNCHANGED <<world, pending, orphaned, stack, insecure, secure>>

Next ==
    \/ ValidHTTPProxies
    \/ \E n \in pending : ComputeChild(n) \/ ComputeRoot(n)
    \/ FollowTCPInclude
    \/ EndTCPProxy
    \/ SkipInclude
    \/ RefuseCycle
    \/ FollowInclude
    \/ ReturnRoutes
    \/ AddRoutes
    \/ ReportOrphans

Spec == Init /\ [][Next]_vars

-----------------------------------------------------------------------------
(* Properties. *)

\* Type invariant: only HTTPProxies of the cache are walked, the first of a walk is a root and
\* no other is, and a call has seen at most all of its includes.
TypeOK ==
    /\ pc \in {"start", "pick", "tcp", "routes", "done"}
    /\ pending \subseteq Names
    /\ orphaned \subseteq Names \ Roots
    /\ DOMAIN status = Names
    /\ stack = <<>> <=> pc \in {"start", "pick", "done"}
    /\ \A i \in DOMAIN stack :
        /\ stack[i].proxy \in IF i = 1 THEN Roots ELSE Names \ Roots
        /\ stack[i].next \in 1..(Len(Proxies[stack[i].proxy].includes) + 1)

\* Whatever includes whatever, no walk has two calls for one HTTPProxy in progress, and so never
\* more calls than there are HTTPProxies: the recursion of computeRoutes and of
\* processHTTPProxyTCPProxy ends on cycles, too (httpproxy_processor.go:660 and :1314).
DelegationBounded == \A i, j \in DOMAIN stack : stack[i].proxy = stack[j].proxy => i = j

\* Within one run an HTTPProxy that was reported invalid is never reported valid again,
\* however many walks come to it later (the commit of ProxyAccessor, status/cache.go:205).
InvalidStays == [][\A n \in Names : status[n] # Valid => status'[n] # Valid]_vars

\* Roots that share an fqdn, in whatever case, are not served at all, neither on the http nor
\* on the https listener (validHTTPProxies).
DuplicatesNotServed ==
    \A r, s \in Roots :
        r # s /\ Host(r).name = Host(s).name =>
            insecure[Host(r)] = NoRoutes /\ secure[Host(r)] = EmptyHost

\* The chains of includes from a root that computeRoutes follows, as sequences of [proxy, conds]
\* with the conditions gathered on the way; no HTTPProxy twice in a chain.
Chains(root) ==
    LET Followed(n) == {i \in DOMAIN Proxies[n].includes : IncludeReason(n, i) = "none"}
        On(chain) == {chain[i].proxy : i \in DOMAIN chain}
        Longer(chain) ==
            LET includes == Proxies[Last(chain).proxy].includes
            IN  {Append(chain, [proxy |-> includes[i].name, conds |-> Last(chain).conds \o includes[i].conds]) :
                    i \in {k \in Followed(Last(chain).proxy) : includes[k].name \notin On(chain)}}
        upTo[k \in Nat] == IF k = 0 THEN {<<[proxy |-> root, conds |-> <<>>]>>}
                           ELSE upTo[k - 1] \union UNION {Longer(chain) : chain \in upTo[k - 1]}
    IN  upTo[Cardinality(Names)]

\* The HTTPProxies a chain of TCPProxy includes leads to, from the root on.
TCPChain(root) ==
    LET upTo[k \in Nat] ==
            IF k = 0 THEN <<root>>
            ELSE LET tcp == Proxies[Last(upTo[k - 1])].tcp
                 IN  IF /\ tcp.defined /\ tcp.services = {}
                        /\ tcp.include \in Names \ (Roots \union Range(upTo[k - 1]))
                     THEN Append(upTo[k - 1], tcp.include) ELSE upTo[k - 1]
    IN  upTo[Cardinality(Names)]

\* The HTTPProxies each one leads to: through its includes, and through its TCPProxy.
Includes ==
    [n \in Names |->
        {Proxies[n].includes[i].name : i \in {k \in DOMAIN Proxies[n].includes : IncludeReason(n, k) = "none"}}]
TCPIncludes ==
    [n \in Names |->
        LET tcp == Proxies[n].tcp
        IN  {m \in Names \ Roots : tcp.defined /\ tcp.services = {} /\ tcp.include = m}]

\* Where one gets from a root: to what is in every set that has the root and, with an HTTPProxy,
\* all it leads to.
Closed(S, leads) == \A n \in S : leads[n] \subseteq S
Reached(root, leads) == {n \in Names : \A S \in SUBSET Names : root \in S /\ Closed(S, leads) => n \in S}

\* A chain of TCPProxies ends well in one that has services, or in an HTTPProxy without one.
TCPEndsWell(n) ==
    LET tcp == Proxies[n].tcp
    IN  \/ ~tcp.defined
        \/ /\ tcp.include = NoInclude
           /\ tcp.services # {} /\ tcp.services \subseteq world.services
           /\ "https" \in world.listeners
TCPWorks(root) == \E n \in Reached(root, TCPIncludes) : TCPEndsWell(n)

Computed(root) == root \notin Duplicates /\ ~Stops(AllChecks(Proxies[root]))

\* The walks of a root come to an HTTPProxy.
ReachedFrom(root, n) ==
    \/ n \in Reached(root, TCPIncludes)
    \/ TCPWorks(root) /\ n \in Reached(root, Includes)

\* At the end of a run exactly those HTTPProxies without a virtual host are reported Orphaned
\* that no root reached: not through includes, of a root whose walk took place, and not through
\* TCPProxy includes (the deletes at httpproxy_processor.go:740 and :1307).
OrphansExact ==
    pc = "done" =>
        \A n \in Names :
            "Orphaned" \in status[n] <=>
                n \notin Roots /\ \A r \in Roots : Computed(r) => ~ReachedFrom(r, n)

\* Paths are compared word by word; slashes at the end and in a row do not matter.
Words(path) == SelectSeq(path, LAMBDA token : token # "/")
PathOf(conds) ==
    LET paths == SelectSeq(conds, LAMBDA c : c.kind \in PathKinds)
    IN  Words(Concat([i \in DOMAIN paths |-> paths[i].value]))

Matches(route, conds) ==
    /\ Words(route.match.path) = PathOf(conds)
    /\ route.headers = Values(conds, "header")
    /\ route.query = Values(conds, "query")

\* A route is served only under the conditions of a chain of includes that leads from the root
\* of the virtual host to the HTTPProxy the route belongs to, all of them added to the
\* conditions of the route, and only if no HTTPProxy of the chain has a route with an error
\* (computeRoutes).
RoutesConfined ==
    pc = "done" =>
        \A r \in Roots : \A m \in DOMAIN insecure[Host(r)] :
            LET served == insecure[Host(r)][m]
            IN  served.action # "502" =>
                    \E chain \in Chains(r) :
                        /\ Last(chain).proxy = served.owner
                        /\ \A i \in DOMAIN chain :
                            \A k \in DOMAIN Proxies[chain[i].proxy].routes :
                                RouteReason(Proxies[chain[i].proxy].routes[k], chain[i].conds) = "none"
                        /\ \E k \in DOMAIN Proxies[served.owner].routes :
                            Matches(served, Last(chain).conds \o Proxies[served.owner].routes[k].conds)

\* If a root and every HTTPProxy it delegates to are reported valid, all their routes are
\* served: on the http listener, and for a root that terminates TLS also on the https listener,
\* with its certificate, where a TCPProxy takes their place if there is one.  Two cases are left
\* out, in which nothing is served on the https listener and no error is reported: TLS
\* passthrough without a TCPProxy, and a TCPProxy include of an HTTPProxy without a TCPProxy.
ValidMeansServed ==
    pc = "done" =>
        \A r \in Roots :
            /\ \A chain \in Chains(r) : \A i \in DOMAIN chain : status[chain[i].proxy] = Valid
            /\ \A i \in DOMAIN TCPChain(r) : status[TCPChain(r)[i]] = Valid
            =>
            /\ \A chain \in Chains(r) : \A k \in DOMAIN Proxies[Last(chain).proxy].routes :
                LET conds == Last(chain).conds \o Proxies[Last(chain).proxy].routes[k].conds
                    In(routes) == \E m \in DOMAIN routes : Matches(routes[m], conds)
                IN  /\ In(insecure[Host(r)])
                    /\ /\ TLSEnabled(Proxies[r]) /\ ~Proxies[r].tls.passthrough
                       /\ ~Proxies[r].tcp.defined
                       => In(secure[Host(r)].routes) /\ secure[Host(r)].secret
            /\ secure[Host(r)].tcp = Proxies[Last(TCPChain(r))].tcp.services
=============================================================================
