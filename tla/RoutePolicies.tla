---------------------------- MODULE RoutePolicies ----------------------------
(***************************************************************************)
(* The policies of a route: from the fields of an HTTPProxy to the DAG     *)
(* (dag/policy.go, dag/httpproxy_processor.go) and on to Envoy             *)
(* (envoy/v3/route.go).  An edit of the HTTPProxy changes one policy, and  *)
(* all of them are translated again.                                       *)
(*                                                                         *)
(* A pointer that may be nil is a set of at most one element.  The text of *)
(* a header value is a sequence of "%", "x" for any other text, "V" for    *)
(* the name of a variable of Envoy, "R" for REQ(name) and "D" for the name *)
(* of a dynamic header, whose value is "d".  A duration is "", "infinity", *)
(* "zero", "bad" when it does not parse, or anything else.                 *)
(***************************************************************************)
EXTENDS Integers, Sequences, SequencesExt, FiniteSets, TLC

CONSTANTS PolicyValues, \* for each policy the values that it may be given
          Unset,       \* for each policy the value that leaves it out
          MaxSet,      \* bound on the policies that are set at one time
          WordSize,    \* the number of values of an unsigned integer of the code
          Defaults     \* the header policy of the configuration file, [set, remove]

VARIABLES spec,        \* the policies in the HTTPProxy
          out          \* what they become
policyVars == <<spec, out>>

Is(pointer) == pointer # {}
The(pointer) == CHOOSE x \in pointer : TRUE

-----------------------------------------------------------------------------
(* Timeouts and retries. *)

\* Parse: a setting is to use the default, to disable the timeout, or a duration.
ParseTimeout(t) ==
  CASE t \in {"", "zero"} -> "default"
    [] t = "infinity"     -> "disabled"
    [] t = "bad"          -> "error"
    [] OTHER              -> t

\* Timeout: Envoy is not told of a default, and takes 0 for no timeout.
EnvoyTimeout(setting) ==
  CASE setting = "default"  -> {}
    [] setting = "disabled" -> {"zero"}
    [] OTHER                -> {setting}

timeoutPolicy(tp) ==
  LET parsed == {ParseTimeout(t) : t \in {tp.response, tp.idle, tp.idleConnection}}
  IN [error |-> "error" \in parsed,
      response |-> ParseTimeout(tp.response), idle |-> ParseTimeout(tp.idle),
      idleConnection |-> ParseTimeout(tp.idleConnection)]

\* -1 stands for none, 0 for Envoy's default of one.
NumRetries(n) == CASE n = -1 -> 0 [] n \in {0, 1} -> 1 [] OTHER -> n

\* A time that is not a duration is not an error: Envoy's default is used.
retryPolicy(rps) ==
  {[on |-> IF rp.on = {} THEN {"5xx"} ELSE rp.on, num |-> NumRetries(rp.num),
    perTry |-> IF rp.perTry \in {"", "zero", "bad", "infinity"} THEN "default" ELSE rp.perTry] :
     rp \in rps}

\* No number is passed when it is zero.
EnvoyRetryPolicy(rps) ==
  {[on |-> rp.on, num |-> IF rp.num > 0 THEN {rp.num} ELSE {}, perTry |-> EnvoyTimeout(rp.perTry)] :
     rp \in {x \in rps : x.on # {}}}

-----------------------------------------------------------------------------
(* Header values. *)

\* Replaces the occurrences of old from the left, as strings.ReplaceAll.
ReplaceEvery(s, old, new) ==
  LET Step(acc, i) ==
        IF acc.skip > 0 THEN [acc EXCEPT !.skip = @ - 1]
        ELSE IF SubSeq(s, i, i + Len(old) - 1) = old
             THEN [text |-> acc.text \o new, skip |-> Len(old) - 1]
        ELSE [acc EXCEPT !.text = Append(@, s[i])]
      At(i) == i + Len(old) - 1 <= Len(s)
      Guarded(acc, i) == IF At(i) \/ acc.skip > 0 THEN Step(acc, i)
                         ELSE [acc EXCEPT !.text = Append(@, s[i])]
  IN FoldLeft(Guarded, [text |-> <<>>, skip |-> 0], [i \in DOMAIN s |-> i]).text

Escaped(v) == <<"%", "%", v, "%", "%">>

escapeHeaderValue_NotDoubled(value, dynamic) ==
  IF dynamic THEN ReplaceEvery(value, <<"%", "D", "%">>, <<"d">>) ELSE value

\* Percent signs are doubled, except around what Envoy or Contour is to replace.
escapeHeaderValue(value, dynamic) ==
  LET doubled == ReplaceEvery(value, <<"%">>, <<"%", "%">>)
      known   == IF dynamic THEN ReplaceEvery(doubled, Escaped("D"), <<"d">>) ELSE doubled
  IN ReplaceEvery(ReplaceEvery(known, Escaped("V"), <<"%", "V", "%">>),
                  Escaped("R"), <<"%", "R", "%">>)

\* How Envoy reads a value: "%%" is a percent sign and "%name%" a variable, and any other
\* percent sign is an error.  The result is the text that was written for it.
EnvoyReads(s) ==
  LET Next1(i) == IF i < Len(s) THEN s[i + 1] ELSE "end"
      Step(acc, i) ==
        CASE acc.skip > 0 -> [acc EXCEPT !.skip = @ - 1]
          [] acc.skip = 0 /\ s[i] = "d" -> [acc EXCEPT !.text = @ \o <<"%", "D", "%">>]
          [] acc.skip = 0 /\ s[i] = "%" /\ Next1(i) = "%" ->
               [acc EXCEPT !.text = Append(@, "%"), !.skip = 1]
          [] acc.skip = 0 /\ s[i] = "%" /\ Next1(i) \in {"V", "R"} /\ Next1(i + 1) = "%" ->
               [acc EXCEPT !.text = @ \o <<"%", s[i + 1], "%">>, !.skip = 2]
          [] acc.skip = 0 /\ s[i] = "%" /\ ~(Next1(i) = "%")
               /\ ~(Next1(i) \in {"V", "R"} /\ Next1(i + 1) = "%") -> [acc EXCEPT !.bad = TRUE]
          [] OTHER -> [acc EXCEPT !.text = Append(@, s[i])]
  IN FoldLeft(Step, [text |-> <<>>, skip |-> 0, bad |-> FALSE], [i \in DOMAIN s |-> i])

-----------------------------------------------------------------------------
(* Header policies. *)

CanonicalHeaderKey(n) == CASE n = "x-a" -> "X-A" [] n = "host" -> "Host" [] OTHER -> n
IsHTTPHeaderName(n) == n # "not a name"

\* The name between %REQ( and )%, if the value has one.
extractHostRewriteHeaderValue(v) == \E i \in 1..(Len(v) - 2) : SubSeq(v, i, i + 2) = <<"%", "R", "%">>

NoHeaders == [error |-> FALSE, set |-> {}, host |-> {}, hostHeader |-> FALSE, remove |-> {}]

\* One entry to set.  Host is a rewrite and is not recorded in the map of names.
SetHeader(allowHostRewrite, dynamic, acc, entry) ==
  LET key == CanonicalHeaderKey(entry.name)
  IN IF acc.error \/ (\E h \in acc.set : h.name = key) \/ ~IsHTTPHeaderName(key)
          \/ (key = "Host" /\ ~allowHostRewrite)
     THEN [acc EXCEPT !.error = TRUE]
     ELSE IF key # "Host"
     THEN [acc EXCEPT !.set = @ \cup {[name |-> key, value |-> escapeHeaderValue(entry.value, dynamic)]}]
     ELSE IF extractHostRewriteHeaderValue(entry.value) THEN [acc EXCEPT !.hostHeader = TRUE]
     ELSE [acc EXCEPT !.host = {entry.value}]

RemoveHeader(acc, name) ==
  LET key == CanonicalHeaderKey(name)
  IN IF acc.error \/ key \in acc.remove \/ ~IsHTTPHeaderName(key) THEN [acc EXCEPT !.error = TRUE]
     ELSE [acc EXCEPT !.remove = @ \cup {key}]

headersPolicyRoute(policy, allowHostRewrite, dynamic) ==
  FoldLeft(RemoveHeader,
           FoldLeft(LAMBDA acc, e : SetHeader(allowHostRewrite, dynamic, acc, e), NoHeaders, policy.set),
           policy.remove)

\* The headers of the configuration are added unless the service sets them itself.
headersPolicyService(defaults, policy, allowHostRewrite, dynamic) ==
  LET user == headersPolicyRoute(policy, allowHostRewrite, dynamic)
      hosts == {d \in defaults.set : CanonicalHeaderKey(d.name) = "Host"}
      others == {d \in defaults.set \ hosts :
                   \A h \in user.set : h.name # CanonicalHeaderKey(d.name)}
      hostRejected == /\ hosts # {}
                      /\ \/ ~allowHostRewrite
                         \/ /\ user.host = {}
                            /\ \E d \in hosts : extractHostRewriteHeaderValue(d.value)
  IN [error |-> \/ user.error \/ hostRejected
                \/ \E d \in defaults.set : ~IsHTTPHeaderName(CanonicalHeaderKey(d.name))
                \/ \E n \in defaults.remove : ~IsHTTPHeaderName(CanonicalHeaderKey(n)),
      set |-> user.set \cup {[name |-> CanonicalHeaderKey(d.name),
                              value |-> escapeHeaderValue(d.value, dynamic)] : d \in others},
      host |-> IF user.host = {} THEN {d.value : d \in hosts} ELSE user.host,
      hostHeader |-> user.hostHeader,
      remove |-> user.remove \cup {CanonicalHeaderKey(n) : n \in defaults.remove}]

-----------------------------------------------------------------------------
(* Filters, rate limits, load balancing, cookies, CORS and redirects. *)

toIPFilterRules_LastError(allow, deny) ==
  LET policies == IF allow # <<>> THEN allow ELSE deny
      both == allow # <<>> /\ deny # <<>>
      err == both \/ (policies # <<>> /\ ~policies[Len(policies)].parses)
  IN [error |-> err, abandoned |-> err, allow |-> allow # <<>> /\ ~err,
      rules |-> IF err THEN <<>> ELSE SelectSeq(policies, LAMBDA p : p.parses)]

\* A CIDR that does not parse is an error of the HTTPProxy.  err is that of the last CIDR:
\* only when it is one does the caller give up the route.
toIPFilterRules(allow, deny) ==
  LET policies == IF allow # <<>> THEN allow ELSE deny
      both == allow # <<>> /\ deny # <<>>
      err == both \/ (policies # <<>> /\ ~policies[Len(policies)].parses)
  IN [error |-> both \/ \E i \in DOMAIN policies : ~policies[i].parses,
      abandoned |-> err,
      allow |-> allow # <<>> /\ ~err,
      rules |-> IF err THEN <<>> ELSE SelectSeq(policies, LAMBDA p : p.parses)]

\* The bucket holds a period's requests and a burst.
localRateLimitPolicy(ins) ==
  LET Error(in) == \/ in.requests <= 0
                   \/ in.unit \notin {"second", "minute", "hour"}
                   \/ \E i \in DOMAIN in.headers :
                        \/ ~IsHTTPHeaderName(CanonicalHeaderKey(in.headers[i].name))
                        \/ \E j \in 1..(i - 1) : CanonicalHeaderKey(in.headers[i].name)
                                                   = CanonicalHeaderKey(in.headers[j].name)
  IN [error |-> \E in \in ins : Error(in),
      policy |-> {[max |-> (in.requests + in.burst) % WordSize, fill |-> in.requests, unit |-> in.unit,
                   headers |-> {[name |-> CanonicalHeaderKey(in.headers[i].name),
                                 value |-> escapeHeaderValue(in.headers[i].value, FALSE)] :
                                  i \in DOMAIN in.headers}] : in \in {x \in ins : ~Error(x)}}]

\* Each entry of a descriptor, the set of its fields that are given, must have one.
globalRateLimitPolicy(ins) ==
  LET enabled == {in \in ins : ~in.disabled}
      Bad(d) == \E i \in DOMAIN d : Cardinality(d[i]) # 1
      error == \E in \in enabled : \E i \in DOMAIN in.descriptors : Bad(in.descriptors[i])
  IN [error |-> error, policy |-> IF error THEN {} ELSE {in.descriptors : in \in enabled}]

rateLimitPolicy(local, global) ==
  LET none == local = {} /\ \A in \in global : in.descriptors = <<>>
      l == localRateLimitPolicy(local)
      g == globalRateLimitPolicy(global)
  IN IF none THEN [error |-> FALSE, local |-> {}, global |-> {}]
     ELSE IF l.error \/ g.error THEN [error |-> TRUE, local |-> {}, global |-> {}]
     ELSE [error |-> FALSE, local |-> l.policy, global |-> g.policy]

\* A host without a global limit of its own has the one of the rate limit service.
computeVirtualHostRateLimitPolicy(local, global, defaults) ==
  LET own == rateLimitPolicy(local, global)
      optedOut == \E in \in global : in.disabled
      default == globalRateLimitPolicy(defaults)
  IN IF own.error \/ own.global # {} \/ optedOut THEN own
     ELSE IF default.error THEN [error |-> TRUE, local |-> {}, global |-> {}]
     ELSE [own EXCEPT !.global = default.policy]

\* A route that disables the global limit ignores the one of its host.
rateLimitPerRoute(global) == \E in \in global : in.disabled

Strategies == {"WeightedLeastRequest", "Random", "Cookie", "RequestHash"}
loadBalancerPolicy(strategy) == IF strategy \in Strategies THEN strategy ELSE ""

\* The attribute that a policy hashes when it has exactly one, and it is a valid one.
HashKey(hp) == IF hp.sourceIP THEN <<"ip", "">>
               ELSE IF hp.header # {} THEN <<"header", CanonicalHeaderKey(The(hp.header))>>
               ELSE <<"query", The(hp.query)>>
OneAttribute(hp) == Cardinality(hp.header) + Cardinality(hp.query) + (IF hp.sourceIP THEN 1 ELSE 0) = 1
ValidHash(hp) == /\ OneAttribute(hp)
                 /\ HashKey(hp)[1] = "header" => IsHTTPHeaderName(HashKey(hp)[2])
                 /\ HashKey(hp)[1] = "query" => HashKey(hp)[2] # ""

loadBalancerRequestHashPolicies(strategy, policies) ==
  LET Add(acc, hp) == IF ~ValidHash(hp) \/ (\E i \in DOMAIN acc.keys : acc.keys[i] = HashKey(hp))
                      THEN [acc EXCEPT !.warning = TRUE]
                      ELSE [acc EXCEPT !.keys = Append(@, HashKey(hp))]
      hash == FoldLeft(Add, [warning |-> FALSE, keys |-> <<>>], policies)
  IN CASE loadBalancerPolicy(strategy) = "Cookie" ->
            [warning |-> FALSE, keys |-> << <<"cookie", "X-Contour-Session-Affinity">> >>, strategy |-> "Cookie"]
       [] loadBalancerPolicy(strategy) = "RequestHash" ->
            IF hash.keys # <<>> THEN [warning |-> hash.warning, keys |-> hash.keys, strategy |-> strategy]
            ELSE [warning |-> TRUE, keys |-> <<>>, strategy |-> "RoundRobin"]
       [] OTHER -> [warning |-> FALSE, keys |-> <<>>, strategy |-> loadBalancerPolicy(strategy)]

Attributes == {"path", "domain", "secure", "sameSite"}

\* A rule names a cookie and gives a new value, "" for none, to some of its attributes.
cookieRewritePolicies(policies) ==
  LET error == \E i \in DOMAIN policies :
                 \/ \E j \in 1..(i - 1) : policies[i].name = policies[j].name
                 \/ \A a \in Attributes : policies[i].set[a] = {}
  IN [error |-> error, rules |-> IF error THEN <<>> ELSE policies]

\* The rules of the service add to those of the route, and win over them.
cookieRewriteConfig(routePolicies, clusterPolicies) ==
  LET all == routePolicies \o clusterPolicies
      Named(name) == SelectSeq(all, LAMBDA p : p.name = name)
      Merge(acc, p) == [a \in Attributes |-> IF p.set[a] # {} THEN p.set[a] ELSE acc[a]]
  IN {[name |-> n, set |-> FoldLeft(Merge, [a \in Attributes |-> {}], Named(n))] :
        n \in {all[i].name : i \in DOMAIN all}}

ParseMaxAge(t) == CASE t = "" -> "default" [] t = "zero" -> "disabled"
                    [] t \in {"bad", "infinity"} -> "error" [] OTHER -> t

\* An origin is "*", a "url", a "regex" or "neither"; only the first two are matched exactly.
toCORSPolicy(policies) ==
  LET Error(p) == \/ p.origins = <<>> \/ p.methods = 0
                  \/ \E i \in DOMAIN p.origins : p.origins[i] = "neither"
                  \/ ParseMaxAge(p.maxAge) \in {"error", "negative"}
  IN [error |-> \E p \in policies : Error(p),
      policy |-> {[origins |-> [i \in DOMAIN p.origins |->
                                  IF p.origins[i] = "regex" THEN "regex" ELSE "exact"],
                   maxAge |-> EnvoyTimeout(ParseMaxAge(p.maxAge))] : p \in {q \in policies : ~Error(q)}}]

\* A redirect may replace the path or a prefix of it, and not both.
redirectRoutePolicy(redirects) == [error |-> \E r \in redirects : r.path # {} /\ r.prefix # {},
                                   redirect |-> redirects]

-----------------------------------------------------------------------------
(* The route. *)

\* routeRoute: the action of a route that forwards.
routeRoute(r) ==
  [host |-> IF r.headers.host # {} THEN "literal" ELSE IF r.headers.hostHeader THEN "header" ELSE "none",
   timeout |-> EnvoyTimeout(r.timeouts.response), idle |-> EnvoyTimeout(r.timeouts.idle),
   retry |-> EnvoyRetryPolicy(r.retry), hash |-> r.lb.keys]

NoRouteAction == [host |-> "none", timeout |-> {}, idle |-> {}, retry |-> {}, hash |-> <<>>]

\* buildRoute: a redirect has no policy, and a route that forwards has them all.
buildRoute(r) ==
  LET forwards == ~Is(r.redirect)
      OnRoute(S) == IF forwards THEN S ELSE {}
      policies == [action |-> IF forwards THEN "route" ELSE "redirect",
                   headers |-> OnRoute(r.headers.set), remove |-> OnRoute(r.headers.remove),
                   service |-> OnRoute(r.service.set),
                   local |-> OnRoute(r.rateLimit.local), global |-> OnRoute(r.rateLimit.global),
                   ignoreHost |-> forwards /\ r.ignoreHost,
                   cookies |-> OnRoute(cookieRewriteConfig(r.routeCookies.rules, r.clusterCookies.rules)),
                   ip |-> IF forwards THEN [allow |-> r.ip.allow, rules |-> r.ip.rules]
                          ELSE [allow |-> FALSE, rules |-> <<>>]]
  IN policies @@ (IF forwards THEN routeRoute(r) ELSE NoRouteAction)

\* The policies of a route and of its host, once each of them was looked at.  Any error gives up
\* the route, except a CIDR that does not parse followed by one that does.
Conclude(r, host) ==
  LET fatal == \/ r.headers.error \/ r.service.error \/ r.timeouts.error \/ r.rateLimit.error
               \/ r.routeCookies.error \/ r.clusterCookies.error \/ r.ip.abandoned
               \/ r.redirectError \/ host.cors.error \/ host.rateLimit.error
  IN [error |-> fatal \/ r.ip.error, warning |-> r.lb.warning, strategy |-> r.lb.strategy,
      route |-> IF fatal THEN {} ELSE {buildRoute(r)},
      host |-> IF fatal THEN {} ELSE {[cors |-> host.cors.policy, global |-> host.rateLimit.global,
                                       local |-> host.rateLimit.local]}]

\* The part of computeHTTPProxy and computeRoutes that translates policies.
Translate(s) ==
  Conclude([headers |-> headersPolicyRoute(s.headers, TRUE, TRUE),
            service |-> headersPolicyService(Defaults, s.service, TRUE, TRUE),
            timeouts |-> timeoutPolicy(s.timeouts),
            retry |-> retryPolicy(s.retry),
            lb |-> loadBalancerRequestHashPolicies(s.lb.strategy, s.lb.policies),
            rateLimit |-> rateLimitPolicy(s.local, s.global),
            ignoreHost |-> rateLimitPerRoute(s.global),
            routeCookies |-> cookieRewritePolicies(s.routeCookies),
            clusterCookies |-> cookieRewritePolicies(s.clusterCookies),
            ip |-> toIPFilterRules(s.allow, s.deny),
            redirect |-> redirectRoutePolicy(s.redirect).redirect,
            redirectError |-> redirectRoutePolicy(s.redirect).error],
           [cors |-> toCORSPolicy(s.cors),
            rateLimit |-> computeVirtualHostRateLimitPolicy(s.local, s.global, s.defaultLimit)])

Policies == DOMAIN Unset

Init == spec = Unset /\ out = Translate(Unset)

\* The HTTPProxy is edited, and processed again from the beginning.  A policy is given a value
\* or taken out; two edits change it.
Edit(p, v) ==
  /\ v # spec[p]
  /\ Unset[p] \in {v, spec[p]}
  /\ spec' = [spec EXCEPT ![p] = v]
  /\ Cardinality({q \in Policies : spec'[q] # Unset[q]}) <= MaxSet
  /\ out' = Translate(spec')

Next == \E p \in Policies : \E v \in PolicyValues[p] : Edit(p, v)
Spec == Init /\ [][Next]_policyVars

-----------------------------------------------------------------------------
(* Properties. *)

ToSetOf(s) == {s[i] : i \in DOMAIN s}

\* The values that the user or the configuration file wrote for a header of the service.
Written(entries, key) == {e.value : e \in {x \in entries : CanonicalHeaderKey(x.name) = key}}

\* escapeHeaderValue: Envoy can read every header value that Contour publishes, and what it
\* reads is what was written: the variables are the variables, and every other percent sign
\* is itself.  A value that the service sets wins over that of the configuration.
HeaderValuesRender ==
  \A r \in out.route :
    /\ \A h \in r.headers :
         ~EnvoyReads(h.value).bad /\ EnvoyReads(h.value).text \in Written(ToSetOf(spec.headers.set), h.name)
    /\ \A h \in r.service :
         LET own == Written(ToSetOf(spec.service.set), h.name)
         IN /\ ~EnvoyReads(h.value).bad
            /\ EnvoyReads(h.value).text \in IF own # {} THEN own ELSE Written(Defaults.set, h.name)

\* The names set by a list of entries, apart from Host.
HeaderNames(entries) == {CanonicalHeaderKey(e.name) : e \in entries} \ {"Host"}

\* computeRoutes, policy.go, buildRoute: when neither an error nor a warning is reported on the
\* HTTPProxy, a route that forwards requests has everything that was asked for: each address
\* range, each hash policy, each header to set or remove, each attribute of a cookie (the
\* service's when the route's differs), each descriptor, and a bucket that can hold the
\* requests of a period unless their number and the burst overflow; and a strategy that
\* hashes has something to hash.  A host that opts out of global rate limits has none, and one
\* without a global policy has the default one.
PoliciesKept ==
  /\ \A h \in out.host : IF spec.global = {} THEN h.global = {in.descriptors : in \in spec.defaultLimit}
                        ELSE (\E in \in spec.global : in.disabled) => h.global = {}
  /\ \A r \in out.route : ~out.error /\ ~out.warning /\ r.action = "route" =>
      /\ ToSetOf(r.ip.rules) = ToSetOf(spec.allow) \cup ToSetOf(spec.deny)
      /\ r.ip.rules # <<>> => r.ip.allow = (spec.allow # <<>>)
      /\ {h.name : h \in r.headers} = HeaderNames(ToSetOf(spec.headers.set))
      /\ {h.name : h \in r.service} = HeaderNames(ToSetOf(spec.service.set) \cup Defaults.set)
      /\ r.remove = {CanonicalHeaderKey(n) : n \in ToSetOf(spec.headers.remove)}
      /\ (\E e \in ToSetOf(spec.headers.set) : CanonicalHeaderKey(e.name) = "Host") <=> r.host # "none"
      /\ spec.lb.strategy = "RequestHash" => Len(r.hash) = Len(spec.lb.policies)
      /\ out.strategy \in {"Cookie", "RequestHash"} <=> r.hash # <<>>
      /\ \A p \in ToSetOf(spec.routeCookies) \cup ToSetOf(spec.clusterCookies), a \in Attributes :
           p.set[a] # {} =>
             \E c \in r.cookies : /\ c.name = p.name
                                  /\ \/ c.set[a] = p.set[a]
                                     \/ \E q \in ToSetOf(spec.clusterCookies) :
                                          q.name = p.name /\ c.set[a] = q.set[a] /\ q.set[a] # {}
      /\ \A in \in spec.global : ~in.disabled /\ in.descriptors # <<>> => r.global = {in.descriptors}
      /\ \A in \in spec.local : \E l \in r.local :
           l.max >= in.requests \/ in.requests + in.burst >= WordSize
=============================================================================
