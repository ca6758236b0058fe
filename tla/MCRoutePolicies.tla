--------------------------- MODULE MCRoutePolicies ---------------------------
(* Two policies of a route at a time, with the values where they interact. *)
EXTENDS RoutePolicies

H(name, value) == [name |-> name, value |-> value]
Var(v) == <<"%", v, "%">>
Texts == {<<"x">>, <<"%">>, Var("V"), Var("R"), Var("D"), <<"%", "V", "%", "R", "%">>,
          <<"%", "%", "D", "%">>, <<"%", "R", "%", "%", "V">>, <<"%", "D", "%", "V", "%">>,
          <<"%", "%", "V", "%", "%">>, <<"x", "%", "R", "%", "D", "%">>}
HeaderSets == { <<H(n, t)>> : n \in {"x-a", "host"}, t \in Texts }
                \cup { <<H("x-a", <<"x">>), H("X-A", <<"%">>)>>, <<H("not a name", <<"x">>)>>,
                       <<H("X-B", Var("V")), H("x-a", Var("D"))>>, <<H("host", <<"x">>), H("Host", Var("R"))>> }
Headers == [set : HeaderSets, remove : {<<>>}]
             \cup [set : {<<>>, <<H("x-a", <<"x">>)>>}, remove : { <<>>, <<"x-a">>, <<"x-a", "X-A">> }]
Durations == {"", "zero", "infinity", "bad", "5s"}
Timeouts == [response : Durations, idle : {"", "bad"}, idleConnection : {"", "infinity"}]
Ranges == { <<>>, <<[id |-> 1, parses |-> TRUE]>>, <<[id |-> 2, parses |-> FALSE]>>,
            <<[id |-> 2, parses |-> FALSE], [id |-> 1, parses |-> TRUE]>>,
            <<[id |-> 1, parses |-> TRUE], [id |-> 2, parses |-> FALSE]>> }
NoCookie == [a \in Attributes |-> {}]
Cookie(n, a, v) == [name |-> n, set |-> [NoCookie EXCEPT ![a] = {v}]]
Cookies == { <<>>, <<Cookie("c", "path", "/")>>, <<Cookie("c", "path", "/x")>>, <<Cookie("c", "secure", "no")>>,
             <<Cookie("c", "path", "/"), Cookie("b", "domain", "d")>>, <<[name |-> "c", set |-> NoCookie]>>,
             <<Cookie("c", "path", "/"), Cookie("c", "secure", "yes")>> }
Hash(ip, h, q) == [sourceIP |-> ip, header |-> h, query |-> q]
Hashes == {Hash(TRUE, {}, {}), Hash(FALSE, {"x-a"}, {}), Hash(FALSE, {"X-A"}, {}), Hash(FALSE, {"not a name"}, {}),
           Hash(FALSE, {}, {"q"}), Hash(FALSE, {}, {""}), Hash(TRUE, {"x-a"}, {}), Hash(FALSE, {}, {})}
LoadBalancers == [strategy : {"", "Cookie", "Random", "unknown"}, policies : {<<>>}]
                   \cup [strategy : {"RequestHash"},
                         policies : {<<>>} \cup { <<h>> : h \in Hashes }
                                      \cup ({h \in Hashes : ValidHash(h)} \X {Hash(TRUE, {}, {}), Hash(FALSE, {"X-A"}, {})})]
Descriptors == { <<>>, << <<{"key"}>> >>, << <<{"key"}, {"address"}>>, <<{"header"}>> >>, << <<{"key", "header"}>> >>, << <<{}>> >> }
Globals == {{}} \cup {{g} : g \in [disabled : BOOLEAN, descriptors : Descriptors]}
Local(r, b, u, h) == {[requests |-> r, burst |-> b, unit |-> u, headers |-> h]}
Locals == {{}, Local(3, 1, "second", <<>>), Local(3, 6, "hour", <<>>), Local(0, 1, "second", <<>>), Local(1, 0, "day", <<>>),
           Local(2, 0, "minute", <<H("x-a", Var("V")), H("X-A", <<"x">>)>>), Local(2, 0, "minute", <<H("x-a", Var("V"))>>)}
Retries == {{}} \cup {{rp} : rp \in [num : {-1, 0, 3}, on : {{}, {"reset"}}, perTry : {"infinity", "5s"}]}
Cors == {{}} \cup {{c} : c \in [origins : { <<>>, <<"*">>, <<"url", "regex">>, <<"regex", "neither">> },
                                methods : {0, 1}, maxAge : {"", "zero", "negative", "5s"}]}
Redirects == {{}} \cup {{r} : r \in [path : {{}, {"/p"}}, prefix : {{}, {"/q"}}]}

MCPolicyValues ==
  [headers |-> Headers, service |-> [set : {<<>>} \cup { <<H("x-a", t)>> : t \in Texts } \cup { <<H("host", Var("V"))>> }, remove : {<<>>}], timeouts |-> Timeouts,
   retry |-> Retries, lb |-> LoadBalancers, local |-> Locals, global |-> Globals,
   defaultLimit |-> {{}} \cup {{g} : g \in [disabled : {FALSE}, descriptors : { << <<{"address"}>> >>, << <<{}>> >> }]},
   routeCookies |-> Cookies, clusterCookies |-> Cookies, allow |-> Ranges, deny |-> Ranges,
   redirect |-> Redirects, cors |-> Cors]
MCUnset ==
  [headers |-> [set |-> <<>>, remove |-> <<>>], service |-> [set |-> <<>>, remove |-> <<>>],
   timeouts |-> [response |-> "", idle |-> "", idleConnection |-> ""], retry |-> {},
   lb |-> [strategy |-> "", policies |-> <<>>], local |-> {}, global |-> {}, defaultLimit |-> {},
   routeCookies |-> <<>>, clusterCookies |-> <<>>, allow |-> <<>>, deny |-> <<>>, redirect |-> {}, cors |-> {}]
MCDefaults == [set |-> {H("x-a", Var("D")), H("X-D", <<"%">>)}, remove |-> {"x-r"}]
=============================================================================
