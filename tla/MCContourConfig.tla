--------------------------- MODULE MCContourConfig ---------------------------
(* Entries for ContourConfig: for every key, a value that changes something  *)
(* and, where the code rejects or rewrites values, one it does so with.      *)
EXTENDS ContourConfig

Gives(src, key, values) == {[src |-> src, key |-> key, value |-> v] : v \in values}

MCEntries ==
    UNION {Gives("flag", "accessLogFormat", {"json", "bad"}),
           Gives("flag", "envoyService", {"a/flag"}),
           Gives("flag", "httpPort", {"81", "0"}),
           Gives("flag", "healthPort", {"82"}),
           Gives("flag", "metricsPort", {"82"}),
           Gives("flag", "statsPort", {"82"}),
           Gives("flag", "caFile", {"flag", Zero}),
           Gives("env", "caFile", {"env"}),
           Gives("flag", "rootNamespaces", {"n1", "n1, n2"}),
           Gives("flag", "watchNamespaces", {"n1", "n1, n2"}),
           Gives("file", "accessLogFormat", {"json", "envoy"}),
           Gives("file", "envoyService", {"a/file"}),
           Gives("file", "accessLogLevel", {"error", "bad"}),
           Gives("file", "httpVersions", {"HTTP/2", "bad"}),
           Gives("file", "dnsFamily", {"v4"}),
           Gives("file", "xdsServerType", {"contour"}),
           Gives("file", "serverHeader", {"pass_through", "bad"}),
           Gives("file", "idleTimeout", {"infinity", Zero, "bad"}),
           Gives("file", "connectTimeout", {"60s", "infinity"}),
           Gives("file", "tlsMin", {"1.3"}),
           Gives("file", "tlsMax", {"1.2"}),
           Gives("file", "ciphers", {"cipher2", "bad"}),
           Gives("file", "adminPort", {"9002", "0"}),
           Gives("file", "metricsPort", {"83", "0"}),
           Gives("file", "metricsTLS", {"pair", "cert"}),
           Gives("file", "envoyMetricsTLS", {"pair"}),
           Gives("file", "fallback", {"n2/cert", "/cert"}),
           Gives("file", "client", {"n1/cert"}),
           Gives("file", "tracing", {"named", "unnamed", "badSampling"}),
           Gives("file", "rateLimit", {"named", "unnamed"}),
           Gives("file", "headers", {"bad"}),
           Gives("file", "bufferLimit", {"1", "0"}),
           Gives("crd", "rootNamespaces", {"n1"}),
           Gives("crd", "client", {"n2/cert"}),
           Gives("crd", "httpVersions", {"HTTP/2"}),
           Gives("crd", "adminPort", {"0"}),
           Gives("crd", "healthPort", {"82"}),
           Gives("crd", "tracing", {"twice"}),
           Gives("crd", "gateway", {"named", "incomplete"})}
=============================================================================
