----------------------------- MODULE EnvoyConfig -----------------------------
(***************************************************************************)
(* From Kubernetes objects to xDS resources.  An event changes the objects *)
(* of the cache or repeats one it has; the builder then runs the           *)
(* processors over all objects, and the resource caches are told of the    *)
(* new DAG one after the other, in the order of cmd/contour/serve.go.  All *)
(* of it is done by one goroutine, and the streams read a snapshot that is *)
(* taken at the end: it is one step here.  When events are batched, and    *)
(* what the streams do in between, is modelled in EventHandler and         *)
(* XdsStream.                                                              *)
(*                                                                         *)
(* Go maps are iterated in any order: the Ingresses in both passes over    *)
(* them, the root HTTPProxies, and the clusters of the DAG when one of     *)
(* those with the same name is kept.                                       *)
(***************************************************************************)
EXTENDS RootProxies, FiniteSets

X == INSTANCE XdsResources

CONSTANTS
  Ingresses, HTTPProxies, Extensions,  \* the objects that may exist
  Secrets, Services, CASecrets,
  Fixed,       \* those of Secrets that are never deleted
  Configs,     \* the configurations Contour may be started with
  HostOrder,   \* the host names in their order
  MaxObjects   \* bound on the Ingresses, HTTPProxies and ExtensionServices at one time

VARIABLES
  config,    \* the configuration, read once at the start
  source,    \* the KubernetesCache
  dag,       \* the DAG that is published
  lds, sds, rds, cds, eds,   \* the contents of the caches
  before     \* what was published before, when the objects are the same; otherwise {}

published == <<lds, sds, rds, cds, eds>>
vars == <<config, source, dag, lds, sds, rds, cds, eds, before>>

\* The objects together with the configuration of the processors.
Source(cfg, objects) ==
  [ingresses |-> objects.ingresses, proxies |-> objects.proxies,
   extensions |-> objects.extensions, secrets |-> objects.secrets,
   services |-> Services, caSecrets |-> CASecrets, crlSecrets |-> {},
   clientCertificate |-> cfg.clientCertificate, fallback |-> cfg.fallback,
   globalAuth |-> cfg.globalAuth, external |-> cfg.external, family |-> cfg.family,
   rootNamespaces |-> cfg.rootNamespaces, circuitBreakers |-> {}]

\* The configuration of the listeners names the extension service of global authorization.
ListenerConfig(cfg) ==
  [minTLS |-> cfg.minTLS, maxTLS |-> cfg.maxTLS, tracing |-> {}, rateLimit |-> {},
   authorization |-> {ExtensionClusterName(a.extension) : a \in cfg.globalAuth}]

-----------------------------------------------------------------------------

\* The processors in the order in which serve.go lists them.
BuildDAG(cfg, objects, tlsOrder, ruleOrder, rootOrder) ==
  LET s == Source(cfg, objects)
      d == IngressProcessorRun(s, ListenerProcessorRun(FALSE, {}), tlsOrder, ruleOrder)
  IN Prune(HTTPProxyProcessorRun(s, ExtensionServiceProcessorRun(s, d), rootOrder))

\* Clusters that have the same name and are not the same, of one kind.
Sharing(cs, Name(_)) == {c \in cs : \E b \in cs : b # c /\ Name(b) = Name(c)}

UpdateClusters(d) ==
  \E order \in SetToSeqs(Sharing(GetClusters(d), X!Clustername)) :
  \E dnsOrder \in SetToSeqs(Sharing(X!DNSNames(d), X!DNSNameClusterName)) :
    cds' = X!ClustersOnChange(d, order, dnsOrder)

\* rebuildDAG: the builder, then the observers.
Rebuild(objects) ==
  /\ dag' \in {BuildDAG(config, objects, tlsOrder, ruleOrder, rootOrder) :
                  tlsOrder, ruleOrder \in SetToSeqs(objects.ingresses),
                  rootOrder \in SetToSeqs(objects.proxies)}
  /\ lds' = X!ListenersOnChange(ListenerConfig(config), dag', HostOrder)
  /\ sds' = X!SecretsOnChange(dag')
  /\ rds' = X!RoutesOnChange(dag')
  /\ UpdateClusters(dag')
  /\ eds' = X!EndpointNames(dag')

-----------------------------------------------------------------------------

\* The DAG and the resources of a cluster without objects.
Init ==
  /\ config \in Configs
  /\ source = [ingresses |-> {}, proxies |-> {}, extensions |-> {}, secrets |-> Fixed]
  /\ dag = BuildDAG(config, source, <<>>, <<>>, <<>>)
  /\ lds = X!ListenersOnChange(ListenerConfig(config), dag, HostOrder)
  /\ sds = {} /\ rds = X!RoutesOnChange(dag) /\ cds = {} /\ eds = {}
  /\ before = {}

Toggle(set, x) == IF x \in set THEN set \ {x} ELSE set \cup {x}

Objects(o) == Cardinality(o.ingresses) + Cardinality(o.proxies) + Cardinality(o.extensions)

\* An object appears or goes.
Change ==
  /\ \/ \E i \in Ingresses : source' = [source EXCEPT !.ingresses = Toggle(@, i)]
     \/ \E p \in HTTPProxies : source' = [source EXCEPT !.proxies = Toggle(@, p)]
     \/ \E e \in Extensions : source' = [source EXCEPT !.extensions = Toggle(@, e)]
     \/ \E s \in Secrets \ Fixed : source' = [source EXCEPT !.secrets = Toggle(@, s)]
  /\ Objects(source') <= MaxObjects
  /\ before' = {}
  /\ Rebuild(source')
  /\ UNCHANGED config

\* An event that changes no object the processors read, such as a new Gateway class.
Repeat ==
  /\ before' = {published}
  /\ Rebuild(source)
  /\ UNCHANGED <<config, source>>

Next == Change \/ Repeat

Spec == Init /\ [][Next]_vars

-----------------------------------------------------------------------------
(* Properties. *)

Names(rs) == {r.name : r \in rs}

\* The certificates that only extension clusters present to their upstreams.
ExtensionCertificates(d) ==
  UNION {{X!Secretname(s) : s \in e.clientCertificate} : e \in d.extensions}

\* The fallback chain's routes, when the hosts that ask for the chain proxy TCP only.
UnroutedFallback(d) ==
  {X!fallbackCertRouteConfigName(l) :
     l \in {k \in d.listeners : X!FallbackHosts(k) # {} /\ X!Routed(k) \cap X!FallbackHosts(k) = {}}}

\* No dangling references.  Once all caches have been told of a DAG, whatever a published
\* listener, route or cluster names is published too: route configurations, clusters,
\* certificates and endpoints; and Build leaves no listener without what the listener cache
\* dereferences.  The five caches compute this independently of each other,
\* and Envoy keeps what refers to something missing from being used.  What the
\* configuration file names is not checked against the DAG, and the two cases above are
\* not covered by the code.
NoDanglingReferences ==
    /\ ~X!OnChangePanics(dag)
    /\ X!ListenerRouteRefs(lds) \subseteq Names(rds) \cup UnroutedFallback(dag)
    /\ X!ListenerSecretRefs(lds) \subseteq sds
    /\ X!ListenerClusterRefs(lds) \subseteq Names(cds) \cup ListenerConfig(config).authorization
    /\ X!RouteClusterRefs(rds) \subseteq Names(cds)
    /\ X!ClusterEndpointRefs(cds) \subseteq eds
    /\ X!ClusterSecretRefs(cds) \subseteq sds \cup ExtensionCertificates(dag)

\* dag.go says of ExtensionCluster.ClientCertificate that it identifies the secret with the
\* certificate that is used to connect to the extension service; so the secret is published.
ClientCertificatesPublished == X!ClusterSecretRefs(cds) \subseteq sds

\* Clusters that differ only in what their name leaves out: health checks over TCP and the
\* port of health checks, the certificate to present, the port of a DNS name.
Named(c) == [service |-> <<c.upstream.name, c.upstream.port>>, lb |-> c.lb, health |-> c.httpHealth,
             validation |-> c.validation, protocol |-> c.protocol, sni |-> c.sni,
             idle |-> c.idle, slowStart |-> c.slowStart]
NamedDNS(c) == <<c.scheme, c.address>>
Contested(d) == Sharing(GetClusters(d), Named) \cup Sharing(X!DNSNames(d), NamedDNS)

\* Ingresses that share a path of a host, or a host with different TLS settings, and
\* Ingresses that end the TLS pass: what they yield depends on the order of a map.
Hosts(ing) == {ing.rules[i].host.name : i \in DOMAIN ing.rules}
Disputed(objects) ==
  \/ \E i, j \in objects.ingresses : i # j /\ Hosts(i) \cap Hosts(j) # {}
  \/ \E i \in objects.ingresses : i.maxTLS < i.minTLS

\* A rebuild of the same objects publishes the same resources, although the Ingresses and
\* the clusters are met in a new order each time.  Otherwise every event would make
\* Envoy drain listeners and reconnect.
QuietRebuild ==
  Is(before) /\ ~Disputed(source) /\ Contested(dag) = {} => before = {published}

\* An HTTPProxy that is rejected changes nothing for the hosts of the others: the filter
\* chain and the routes of a host are those it would have if only the objects that name
\* the host, and the ExtensionServices, existed.
ForHost(objects, host) ==
  [objects EXCEPT !.ingresses = {i \in @ : host \in Hosts(i)},
                  !.proxies = {p \in @ : p.host = host}]

RoutesOf(rs, host) ==
  UNION {{<<rc.name, v>> : v \in {w \in rc.vhosts : w.name = host}} : rc \in rs}

HostsIndependent ==
  ~Disputed(source) =>
    \A host \in {p.host : p \in source.proxies} :
      LET objects == ForHost(source, host)
          ings    == SetToSeq(objects.ingresses)
          alone   == BuildDAG(config, objects, ings, ings, SetToSeq(objects.proxies))
          chains  == X!Chains(X!ListenersOnChange(ListenerConfig(config), alone, HostOrder))
      IN /\ RoutesOf(rds, host) = RoutesOf(X!RoutesOnChange(alone), host)
         /\ {c \in X!Chains(lds) : c.match = host} = {c \in chains : c.match = host}
=============================================================================
