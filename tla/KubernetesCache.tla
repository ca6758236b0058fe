--------------------------- MODULE KubernetesCache ---------------------------
(***************************************************************************)
(* KubernetesCache (internal/dag/cache.go): the objects a DAG is built     *)
(* from, and which changes to them ask for a rebuild.                      *)
(*                                                                         *)
(* Insert and Remove report whether the change matters to the DAG.  For    *)
(* services, secrets and config maps they search the cached objects for a  *)
(* reference; the processors that build the DAG look up more than that     *)
(* search covers.  The module has both sides, the search (the operators    *)
(* named ...TriggersRebuild) and the look-ups (Reads), so that they can be *)
(* compared over all histories.                                            *)
(*                                                                         *)
(* An object is a record of what the two sides distinguish: whether its    *)
(* ingress class matches, whether it holds a CA certificate, whether it    *)
(* is a root HTTPProxy, whether a route names our Gateway as parent, the   *)
(* references by field, and a version for the rest of its content.         *)
(***************************************************************************)
EXTENDS Integers

CONSTANTS
  Objects,      \* the objects of the cluster
  KindOf,       \* the kind of each
  Contents,     \* what each may contain, by object
  Configured,   \* ConfiguredSecretRefs
  Absent        \* an object that does not exist, or is not cached

Fields == {"backend", "mirror", "extension", "tls", "crl", "ca", "configmap"}

ObjectContent == [matches : BOOLEAN, ca : BOOLEAN, root : BOOLEAN, ours : BOOLEAN,
                  refs : SUBSET (Fields \X Objects), version : Nat]

\* Which kinds have a field, and the kind its references are to.
FieldsOf ==
  [Ingress |-> {"backend", "tls"}, HTTPProxy |-> {"backend", "tls", "crl", "ca"},
   ExtensionService |-> {"extension", "ca"}, Gateway |-> {"tls"},
   Route |-> {"backend", "mirror"}, BackendTLSPolicy |-> {"configmap", "ca"}]

TargetOf ==
  [backend |-> "Service", mirror |-> "Service", extension |-> "Service",
   tls |-> "Secret", crl |-> "Secret", ca |-> "Secret", configmap |-> "ConfigMap"]

ASSUME CacheAssumption ==
  /\ \A o \in Objects : Contents[o] \subseteq ObjectContent
  /\ \A o \in Objects : \A content \in Contents[o] : \A ref \in content.refs :
       /\ KindOf[o] \in DOMAIN FieldsOf /\ ref[1] \in FieldsOf[KindOf[o]]
       /\ KindOf[ref[2]] = TargetOf[ref[1]]
  /\ Absent \notin ObjectContent
  /\ Configured \subseteq {o \in Objects : KindOf[o] = "Secret"}

VARIABLES
  cluster,   \* by object: what the informers have reported, or Absent
  cache,     \* by object: what the cache holds, or Absent
  built,     \* the cache as it was when the last DAG was built
  pending    \* a change since asked for a rebuild

objectVars == <<cluster, cache, built, pending>>

Cached(c, kind) == {o \in Objects : KindOf[o] = kind /\ c[o] # Absent}

Refers(c, o, field, t) == <<field, t>> \in c[o].refs

-----------------------------------------------------------------------------
(* The search.  Routes are HTTPRoute, TLSRoute, GRPCRoute and TCPRoute.    *)

serviceTriggersRebuild_NoRoutes(c, t) ==
  \E o \in Cached(c, "Ingress") \cup Cached(c, "HTTPProxy") : Refers(c, o, "backend", t)

serviceTriggersRebuild(c, t) ==
  \E o \in Cached(c, "Ingress") \cup Cached(c, "HTTPProxy") \cup Cached(c, "Route") :
    Refers(c, o, "backend", t)

\* Any change to a CA secret; the certificates of virtual hosts and listeners,
\* revocation lists, and what the configuration file names.
secretTriggersRebuild(c, t, secret) ==
  \/ secret.ca
  \/ \E o \in Cached(c, "Ingress") : Refers(c, o, "tls", t)
  \/ \E o \in Cached(c, "HTTPProxy") :
       c[o].root /\ (Refers(c, o, "tls", t) \/ Refers(c, o, "crl", t))
  \/ t \in Configured
  \/ \E o \in Cached(c, "Gateway") : Refers(c, o, "tls", t)

configMapTriggersRebuild(c, t) ==
  \E o \in Cached(c, "BackendTLSPolicy") : Refers(c, o, "configmap", t)

routeTriggersRebuild(c, route) == Cached(c, "Gateway") # {} /\ route.ours

-----------------------------------------------------------------------------
(* Insert and Remove: the cache afterwards, and their result.              *)

\* Only our ingress class, and only config maps with a CA certificate.
Accepted(o, content) ==
  /\ KindOf[o] \in {"Ingress", "HTTPProxy"} => content.matches
  /\ KindOf[o] = "ConfigMap" => content.ca

Inserted(c, o, content) == IF Accepted(o, content) THEN [c EXCEPT ![o] = content] ELSE c

Insert(c, o, content) ==
  CASE KindOf[o] = "Secret"    -> secretTriggersRebuild(c, o, content)
    [] KindOf[o] = "ConfigMap" -> content.ca /\ configMapTriggersRebuild(c, o)
    [] KindOf[o] = "Service"   -> serviceTriggersRebuild(c, o)
    [] KindOf[o] = "Route"     -> routeTriggersRebuild(c, content)
    [] OTHER                   -> Accepted(o, content)

Removed(c, o) == [c EXCEPT ![o] = Absent]

Remove(c, o, content) ==
  CASE KindOf[o] = "Secret"    -> secretTriggersRebuild(c, o, content)
    [] KindOf[o] = "ConfigMap" -> configMapTriggersRebuild(c, o)
    [] KindOf[o] = "Service"   -> serviceTriggersRebuild(c, o)
    [] KindOf[o] = "Route"     -> routeTriggersRebuild(c, content)
    [] OTHER                   -> c[o] # Absent

-----------------------------------------------------------------------------
(* EventHandler.onUpdate, for each kind of event; then a rebuild.          *)

CacheInit ==
  /\ cluster = [o \in Objects |-> Absent]
  /\ cache = [o \in Objects |-> Absent]
  /\ built = [o \in Objects |-> Absent]
  /\ pending = FALSE

opAdd(o, new) ==
  /\ cluster[o] = Absent
  /\ cluster' = [cluster EXCEPT ![o] = new]
  /\ cache' = Inserted(cache, o, new)
  /\ pending' = (pending \/ Insert(cache', o, new))
  /\ UNCHANGED built

updateCache(o, new) == Inserted(Removed(cache, o), o, new)

\* remove || insert, both already evaluated.
updateMatters(o, old, new) ==
  \/ Remove(cache, o, old)
  \/ Insert(updateCache(o, new), o, new)

\* An update removes the old object, then inserts the new one.
opUpdate(o, new) ==
  /\ cluster[o] \notin {Absent, new}
  /\ cluster' = [cluster EXCEPT ![o] = new]
  /\ cache' = updateCache(o, new)
  /\ pending' = (pending \/ updateMatters(o, cluster[o], new))
  /\ UNCHANGED built

opDelete(o) ==
  /\ cluster[o] # Absent
  /\ cluster' = [cluster EXCEPT ![o] = Absent]
  /\ cache' = Removed(cache, o)
  /\ pending' = (pending \/ Remove(cache, o, cluster[o]))
  /\ UNCHANGED built

Build ==
  /\ pending
  /\ built' = cache
  /\ pending' = FALSE
  /\ UNCHANGED <<cluster, cache>>

CacheNext ==
  \/ \E o \in Objects : \E new \in Contents[o] : opAdd(o, new) \/ opUpdate(o, new)
  \/ \E o \in Objects : opDelete(o)
  \/ Build

CacheSpec == CacheInit /\ [][CacheNext]_objectVars

-----------------------------------------------------------------------------
(* The look-ups of the processors.                                         *)

\* Routes and policies are read only for a cached Gateway, and routes only
\* when it is one of their parents.
Processed(c, o) ==
  /\ c[o] # Absent
  /\ KindOf[o] \in {"Route", "BackendTLSPolicy"} => Cached(c, "Gateway") # {}
  /\ KindOf[o] = "Route" => c[o].ours

\* Virtual host TLS is read from root HTTPProxies only.
Reads(c, o, field, t) ==
  /\ Processed(c, o)
  /\ Refers(c, o, field, t)
  /\ KindOf[o] = "HTTPProxy" /\ field \in {"tls", "crl", "ca"} => c[o].root

\* A secret without a CA certificate is no better than none for a CA look-up.
Resolve(c, field, t) ==
  IF field = "ca" /\ c[t] # Absent /\ ~c[t].ca THEN Absent ELSE c[t]

\* What o contributes itself, and what its field names.
Itself(c, o) == IF Processed(c, o) THEN c[o] ELSE Absent

LookUp(c, o, field, t) == IF Reads(c, o, field, t) THEN Resolve(c, field, t) ELSE Absent

\* The objects the DAG is made of, as opposed to those it looks up.
Referring == {o \in Objects : KindOf[o] \notin {"Service", "Secret", "ConfigMap"}}

CurrentFor(fields) ==
  /\ \A o \in Referring : Itself(built, o) = Itself(cache, o)
  /\ \A o \in Referring, t \in Objects : \A field \in fields :
       LookUp(built, o, field, t) = LookUp(cache, o, field, t)
  /\ \A t \in Configured : built[t] = cache[t]

-----------------------------------------------------------------------------
\* The cache holds what the informers reported and the insertion accepts:
\* our ingress class, and of the config maps only those with a CA.
TypeOK ==
  /\ cluster \in [Objects -> ObjectContent \cup {Absent}]
  /\ cache \in [Objects -> ObjectContent \cup {Absent}]
  /\ built \in [Objects -> ObjectContent \cup {Absent}]
  /\ pending \in BOOLEAN
  /\ \A o \in Objects :
       /\ cluster[o] \in Contents[o] \cup {Absent}
       /\ cache[o] = IF cluster[o] # Absent /\ Accepted(o, cluster[o])
                     THEN cluster[o] ELSE Absent
       /\ KindOf[o] = "ConfigMap" /\ cache[o] # Absent => cache[o].ca

\* onUpdate returning false means the last DAG is what a build would produce
\* now, as far as backends of Ingresses, HTTPProxies and routes, certificates,
\* revocation lists, CAs and policies go: no look-up of the processors gives a
\* different result than it did then.
DagCurrent == ~pending => CurrentFor(Fields \ {"mirror", "extension"})
=============================================================================
