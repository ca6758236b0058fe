---------------------------- MODULE MCOperations ----------------------------
(***************************************************************************)
(* The parts of Contour around the rebuilds, one scenario at a time; the   *)
(* components that a scenario is not about stay in an initial state.       *)
(*   conditions: StatusConditions, one kind of object at a time, and two   *)
(*     kinds of routes of one name;                                        *)
(*   metrics: the gauges of HTTPProxies;                                   *)
(*   drain: ShutdownManager with two listeners that count and one that     *)
(*     does not;                                                           *)
(*   certificates: two runs of certgen and the two pods;                   *)
(*   configuration: what Contour is started with (see MCContourConfig).    *)
(***************************************************************************)
EXTENDS Certificates, ShutdownManager, Metrics, StatusConditions, MCContourConfig

CONSTANT Scenarios

VARIABLE scenario

mcVars == <<scenario, statusVars, metricsVars, drainVars, certVars, configVars>>

\* Routes and policies refer to our Gateway and to one of another controller.
Ref(kind, ns, name) == [kind |-> kind, ns |-> ns, name |-> name]
Obj(kind, name, refs) == [kind |-> kind, ns |-> "app", name |-> name, refs |-> refs]
Ours == Ref("Gateway", "gw", "contour")
Qualified == {Ours, Ref("", "app", "contour")}
MCGateway == [ns |-> "gw", name |-> "contour"]
MCMixes ==
  {{Obj("HTTPProxy", "p", {})}, {Obj("ExtensionService", "e", {})}, {Obj("Gateway", "contour", {})},
   {Obj("BackendTLSPolicy", "b", Qualified)}, {Obj("TLSRoute", "s", Qualified)}, {Obj("TCPRoute", "t", Qualified)},
   {Obj("HTTPRoute", "r", {Ours}), Obj("GRPCRoute", "r", {Ours})}}

\* Two roots and a child of one namespace, and a proxy of another; a root is valid or not, a
\* child is valid or an orphan.
MCProxyUpdates ==
  {[name |-> n, ns |-> "n1", vhost |-> h, valid |-> v, orphaned |-> FALSE] :
     n \in {"a"}, h \in {"x", "y"}, v \in BOOLEAN} \cup
  {[name |-> "b", ns |-> "n1", vhost |-> "y", valid |-> v, orphaned |-> FALSE] : v \in BOOLEAN} \cup
  {[name |-> "c", ns |-> "n1", vhost |-> "", valid |-> v, orphaned |-> ~v] : v \in BOOLEAN} \cup
  {[name |-> "a", ns |-> "n2", vhost |-> "x", valid |-> TRUE, orphaned |-> FALSE]}

\* Secrets in the compact format and PEM files, kept or overwritten.
MCOptions == {[output |-> o, overwrite |-> b] : o \in {"compact", "pem"}, b \in BOOLEAN}

-----------------------------------------------------------------------------
SomeMix == CHOOSE m \in Mixes : TRUE

\* Only the component of the scenario starts from all of its inputs.
MCInit ==
  /\ scenario \in Scenarios
  /\ MetricsInit
  /\ Init
  /\ ConfigInit
  /\ IF scenario = "conditions" THEN TRUE ELSE objs = SomeMix
  /\ StatusInit
  /\ IF scenario = "drain" THEN TRUE ELSE connections = [l \in Listeners |-> 0]
  /\ DrainInit

MCNext ==
  /\ UNCHANGED scenario
  /\ \/ /\ scenario = "conditions" /\ StatusNext
        /\ UNCHANGED <<metricsVars, drainVars, certVars, configVars>>
     \/ /\ scenario = "metrics" /\ MetricsNext
        /\ UNCHANGED <<statusVars, drainVars, certVars, configVars>>
     \/ /\ scenario = "drain" /\ DrainNext
        /\ UNCHANGED <<statusVars, metricsVars, certVars, configVars>>
     \/ /\ scenario = "certificates" /\ Next
        /\ UNCHANGED <<statusVars, metricsVars, drainVars, configVars>>
     \/ /\ scenario = "configuration" /\ ConfigNext
        /\ UNCHANGED <<statusVars, metricsVars, drainVars, certVars>>

\* The fairness of each component, in the scenario that is about it.
InDrain == scenario = "drain"
InCertificates == scenario = "certificates"

FairDrain ==
  /\ \A l \in Listeners \ Uncounted : WF_drainVars(InDrain /\ Close(l))
  /\ WF_drainVars(InDrain /\ RunPreStopShutdown) /\ WF_drainVars(InDrain /\ RunPreStopEnvoy)
  /\ WF_drainVars(InDrain /\ StopEnvoy) /\ WF_drainVars(InDrain /\ shutdownEnvoyOk)
  /\ SF_drainVars(InDrain /\ getOpenConnectionsOk /\ shutdown' = "done")
  /\ WF_drainVars(InDrain /\ shutdownReadyHandler)

FairCertificates ==
  /\ \A pod \in {"contour", "envoy"} : WF_certVars(InCertificates /\ Project(pod))
  /\ WF_certVars(InCertificates /\ ReloadPair) /\ WF_certVars(InCertificates /\ ReloadCA)
  /\ WF_certVars(InCertificates /\ loadConfig) /\ WF_certVars(InCertificates /\ Handshake)
  /\ WF_certVars(InCertificates /\ \E dir \in BOOLEAN : Bootstrap(dir))

MCSpec == MCInit /\ [][MCNext]_mcVars /\ FairDrain /\ FairCertificates

-----------------------------------------------------------------------------
\* See ShutdownManager: Envoy is stopped in the end without help of the grace period.
EnvoyStopsInDrain == scenario = "drain" => EnvoyStops
=============================================================================
