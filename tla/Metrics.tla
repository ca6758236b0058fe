------------------------------ MODULE Metrics ------------------------------
(***************************************************************************)
(* The HTTPProxy gauges: after each rebuild of the leader the observer     *)
(* counts the proxy updates of the DAG (internal/contour/metrics.go) and   *)
(* moves the Prometheus gauges to the new counts, with the help of the     *)
(* counts it published last (SetHTTPProxyMetric in                         *)
(* internal/metrics/metrics.go).                                           *)
(*                                                                         *)
(* A proxy update is a record [name, ns, vhost, valid, orphaned]; vhost is *)
(* "" for a proxy that is not a root.  The maps of a RouteMetric are       *)
(* functions from Metas to counts, a gauge is a function from the label    *)
(* values it has a series for to their values.                             *)
(***************************************************************************)
EXTENDS Naturals, FiniteSets

CONSTANT ProxyUpdates      \* the updates a rebuild may leave in the status cache

VARIABLES elected,         \* httpProxyMetricsEnabled is closed
          updates,         \* the proxy updates of the last rebuild
          published,       \* the last rebuild reached the gauges
          gauge,           \* the five gauges
          proxyMetricCache \* the counts published last

metricsVars == <<elected, updates, published, gauge, proxyMetricCache>>

Gauges == {"Total", "Valid", "Invalid", "Orphaned", "Root"}

Meta(vhost, ns) == [VHost |-> vhost, Namespace |-> ns]

-----------------------------------------------------------------------------
\* The map of a RouteMetric that counts some updates by virtual host and namespace, or by namespace.
ByHost(us) ==
  [m \in {Meta(u.vhost, u.ns) : u \in us} |-> Cardinality({u \in us : Meta(u.vhost, u.ns) = m})]
ByNamespace(us) ==
  [m \in {Meta("", u.ns) : u \in us} |-> Cardinality({u \in us : Meta("", u.ns) = m})]

\* calcMetrics: orphans and totals are counted by namespace, the others by virtual host as well.
calcMetrics(us) ==
  [Total    |-> ByNamespace(us),
   Valid    |-> ByHost({u \in us : u.valid}),
   Invalid  |-> ByHost({u \in us : ~u.valid /\ ~u.orphaned}),
   Orphaned |-> ByNamespace({u \in us : ~u.valid /\ u.orphaned})]

calculateRouteMetric(us) ==
  LET counts == calcMetrics(us)
  IN [g \in Gauges |-> IF g = "Root" THEN ByHost({u \in us : u.vhost # ""}) ELSE counts[g]]

\* The label values of a series: the total, orphaned and root gauges have no label for the host.
Labels(g, meta) ==
  IF g \in {"Valid", "Invalid"} THEN <<meta.Namespace, meta.VHost>> ELSE <<meta.Namespace>>

SetGauge_KeepsSeries(g, counts, cached, old) ==
  LET set == {Labels(g, m) : m \in DOMAIN counts}
      values(l) == IF l \in set THEN {counts[m] : m \in {x \in DOMAIN counts : Labels(g, x) = l}}
                   ELSE {old[l]}
      series == DOMAIN old \cup set
  IN {f \in [series -> UNION {values(l) : l \in series}] : \A l \in series : f[l] \in values(l)}

\* SetHTTPProxyMetric for one gauge: the new counts are set in the order of a map, then the
\* series of the Metas that were published last and are not counted any more are deleted.
SetGauge(g, counts, cached, old) ==
  LET set == {Labels(g, m) : m \in DOMAIN counts}
      deleted == {Labels(g, m) : m \in DOMAIN cached \ DOMAIN counts}
      values(l) == IF l \in set THEN {counts[m] : m \in {x \in DOMAIN counts : Labels(g, x) = l}}
                   ELSE {old[l]}
      series == (DOMAIN old \cup set) \ deleted
  IN {f \in [series -> UNION {values(l) : l \in series}] : \A l \in series : f[l] \in values(l)}

SetHTTPProxyMetric(metrics) ==
  LET set(g) == SetGauge(g, metrics[g], proxyMetricCache[g], gauge[g])
  IN /\ \E t \in set("Total"), v \in set("Valid"), i \in set("Invalid"), o \in set("Orphaned"), r \in set("Root") :
          gauge' = [Total |-> t, Valid |-> v, Invalid |-> i, Orphaned |-> o, Root |-> r]
     /\ proxyMetricCache' = metrics

-----------------------------------------------------------------------------
MetricsInit ==
  /\ elected = FALSE
  /\ updates = {}
  /\ published = FALSE
  /\ gauge = [g \in Gauges |-> << >>]
  /\ proxyMetricCache = [g \in Gauges |-> << >>]

OnElectedLeader ==
  /\ ~elected
  /\ elected' = TRUE
  /\ UNCHANGED <<updates, published, gauge, proxyMetricCache>>

\* RebuildMetricsObserver.OnChange, after the observers it wraps.
OnChange(us) ==
  /\ updates' = us
  /\ published' = elected
  /\ IF elected THEN SetHTTPProxyMetric(calculateRouteMetric(us)) ELSE UNCHANGED <<gauge, proxyMetricCache>>
  /\ UNCHANGED elected

\* The status cache has one update for a proxy.
OneEach(us) == \A u, v \in us : u.name = v.name /\ u.ns = v.ns => u = v

MetricsNext ==
  \/ OnElectedLeader
  \/ \E us \in {s \in SUBSET ProxyUpdates : OneEach(s)} : OnChange(us)

MetricsSpec == MetricsInit /\ [][MetricsNext]_metricsVars

-----------------------------------------------------------------------------
Shown(g, labels) == IF labels \in DOMAIN gauge[g] THEN gauge[g][labels] ELSE 0
Namespaces == {u.ns : u \in ProxyUpdates}
Hosts == {u.vhost : u \in ProxyUpdates}
In(ns) == {u \in updates : u.ns = ns}
Serving(ns, vhost) == {u \in In(ns) : u.vhost = vhost}

\* After each rebuild of the leader the total, orphaned, valid and invalid gauges
\* (SetHTTPProxyMetric) show the proxies of that rebuild, and no series outlives the last proxy
\* it counted, whatever was published before.  (The root gauge is not exact: roots are counted by
\* host and namespace and published under the namespace alone.)
GaugesExact ==
  published =>
    \A ns \in Namespaces :
      /\ Shown("Total", <<ns>>) = Cardinality(In(ns))
      /\ Shown("Orphaned", <<ns>>) = Cardinality({u \in In(ns) : ~u.valid /\ u.orphaned})
      /\ \A vhost \in Hosts :
           /\ Shown("Valid", <<ns, vhost>>) = Cardinality({u \in Serving(ns, vhost) : u.valid})
           /\ Shown("Invalid", <<ns, vhost>>) =
                Cardinality({u \in Serving(ns, vhost) : ~u.valid /\ ~u.orphaned})
============================================================================
