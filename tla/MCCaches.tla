------------------------------ MODULE MCCaches ------------------------------
(***************************************************************************)
(* What follows the informers of Contour, one scenario at a time; the      *)
(* components a scenario is not about stay in their initial states.        *)
(*   services, certificates, extensions, configuration: KubernetesCache    *)
(*     with services and the objects that route to them, with              *)
(*     certificates, with an ExtensionService, and with a secret that the  *)
(*     configuration file names;                                           *)
(*   class: GatewayClassCache;                                             *)
(*   slices: EndpointSliceTranslator with two slices, of two services.     *)
(***************************************************************************)
EXTENDS KubernetesCache, GatewayClassCache, EndpointSliceTranslator, TLC

CONSTANTS
  svc, sec, conf, cm, ing, prx, ext, gw, rt, pol,
  Scenarios,
  s1, s2, svc1, svc2

VARIABLE scenario

mcVars == <<scenario, objectVars, classVars, vars>>

MCServiceOf == s1 :> svc1 @@ s2 :> svc2

\* A cluster is added, removed, moved to another service, backed by two
\* services, or invalid (no service at all).
MCDags ==
  { "c1" :> {svc1},
    "c1" :> {svc2} @@ "c2" :> {svc2},
    "c1" :> {svc1, svc2} @@ "c2" :> {} }

Plain == [matches |-> TRUE, ca |-> FALSE, root |-> FALSE, ours |-> FALSE,
          refs |-> {}, version |-> 1]

MCKindOf ==
  [o \in Objects |->
     CASE o = svc         -> "Service"    [] o \in {sec, conf} -> "Secret"
       [] o = cm          -> "ConfigMap"  [] o = ing -> "Ingress"
       [] o = prx         -> "HTTPProxy"  [] o = ext -> "ExtensionService"
       [] o = gw          -> "Gateway"    [] o = rt  -> "Route"
       [] o = pol         -> "BackendTLSPolicy"]

\* Objects about services: matching class or not, with and without the reference,
\* attached to the Gateway or not.
ServiceContents(o) ==
  CASE o = svc -> {Plain, [Plain EXCEPT !.version = 2]}
    [] o = ing -> {[Plain EXCEPT !.refs = {<<"backend", svc>>}, !.matches = m] : m \in BOOLEAN}
    [] o = prx -> {[Plain EXCEPT !.refs = r] : r \in {{}, {<<"backend", svc>>}}}
    [] o = gw  -> {Plain}
    [] o = rt  -> {[Plain EXCEPT !.refs = {<<f, svc>>}, !.ours = b] :
                     f \in {"backend", "mirror"}, b \in BOOLEAN}
    [] OTHER   -> {}

\* Services that are looked up without being backends.
ExtensionContents(o) ==
  CASE o \in {svc, prx} -> ServiceContents(o)
    [] o = ext          -> {[Plain EXCEPT !.refs = {<<"extension", svc>>}]}
    [] OTHER            -> {}

\* Objects about certificates: a secret with and without CA, root and non-root
\* proxies naming it as certificate, revocation list or CA, a Gateway, and a
\* policy naming a config map.
CertificateContents(o) ==
  CASE o = sec -> {[Plain EXCEPT !.ca = b, !.version = v] : b \in BOOLEAN, v \in {1, 2}}
    [] o = cm  -> {[Plain EXCEPT !.ca = b] : b \in BOOLEAN}
    [] o = prx -> {[Plain EXCEPT !.root = b, !.refs = {<<f, sec>>}] :
                     b \in BOOLEAN, f \in {"tls", "crl", "ca"}}
    [] o = gw  -> {[Plain EXCEPT !.refs = {<<"tls", sec>>}]}
    [] o = pol -> {[Plain EXCEPT !.refs = {<<"configmap", cm>>}]}
    [] OTHER   -> {}

ConfigurationContents(o) ==
  CASE o = conf -> {[Plain EXCEPT !.version = v] : v \in {1, 2}}
    [] o = prx  -> {Plain}
    [] OTHER    -> {}

ScenarioContents(s, o) ==
  CASE s = "services"      -> ServiceContents(o)
    [] s = "extensions"    -> ExtensionContents(o)
    [] s = "certificates"  -> CertificateContents(o)
    [] s = "configuration" -> ConfigurationContents(o)
    [] OTHER               -> {}

MCContents == [o \in Objects |-> UNION {ScenarioContents(s, o) : s \in Scenarios}]

MCInit == scenario \in Scenarios /\ CacheInit /\ ClassInit /\ Init

ObjectNext ==
  \/ \E o \in Objects : \E new \in ScenarioContents(scenario, o) : opAdd(o, new) \/ opUpdate(o, new)
  \/ \E o \in Objects : opDelete(o)
  \/ Build

MCNext ==
  /\ UNCHANGED scenario
  /\ \/ scenario \notin {"class", "slices"} /\ ObjectNext /\ UNCHANGED <<classVars, vars>>
     \/ scenario = "class" /\ ClassNext /\ UNCHANGED <<objectVars, vars>>
     \/ scenario = "slices" /\ Next /\ UNCHANGED <<objectVars, classVars>>

MCSpec == MCInit /\ [][MCNext]_mcVars

\* Two classes take the same parts; the other components know nothing of them.
ClassSymmetry == Permutations(Classes)
=============================================================================
