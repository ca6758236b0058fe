-------------------------------- MODULE MCDag --------------------------------
(***************************************************************************)
(* What a rebuild computes, one scenario at a time; the components that a  *)
(* scenario is not about stay in an initial state.                         *)
(*   gateway: a run of GatewayAPIProcessor (see MCGatewayAPIProcessor);    *)
(*   proxies: a run of HTTPProxyProcessor (see MCHTTPProxyProcessor);      *)
(*   envoy: EnvoyConfig, from Ingresses, HTTPProxies and ExtensionServices *)
(*     to the resources (see MCEnvoyConfig);                               *)
(*   table: the sorted routes of a virtual host (RouteTable);              *)
(*   policies: the policies of a route (see MCRoutePolicies).              *)
(***************************************************************************)
EXTENDS MCHTTPProxyProcessor, MCGatewayAPIProcessor

CONSTANTS
  Scenarios,
  Ingresses, HTTPProxies, Extensions, Secrets, Services, CASecrets, Fixed, Configs, HostOrder, MaxObjects,
  Routes, MaxRoutes, Strings, Paths,
  PolicyValues, Unset, Defaults, MaxSet, WordSize

VARIABLES
  scenario,
  config, source, built, lds, sds, rds, cds, eds, before,
  hostRoutes, table,
  spec, out

envoyVars == <<config, source, built, lds, sds, rds, cds, eds, before>>
tableVars == <<hostRoutes, table>>
policyVars == <<spec, out>>
mcVars == <<scenario, gatewayVars, vars, envoyVars, tableVars, policyVars>>

Envoy == INSTANCE MCEnvoyConfig WITH dag <- built
Table == INSTANCE RouteTable WITH routes <- hostRoutes
RoutePolicy == INSTANCE MCRoutePolicies

\* The inputs of the scenarios depend on none of the constants they are the values of.
EnvoyInput == INSTANCE MCEnvoyConfig WITH
  dag <- built, Ingresses <- {}, HTTPProxies <- {}, Extensions <- {}, Secrets <- {}, Services <- {},
  Fixed <- {}, Configs <- {}, HostOrder <- <<>>
TableInput == INSTANCE RouteTable WITH routes <- hostRoutes, Routes <- {}
PolicyInput == INSTANCE MCRoutePolicies WITH PolicyValues <- {}, Unset <- {}, Defaults <- {}

MCIngresses == EnvoyInput!MCIngresses
MCHTTPProxies == EnvoyInput!MCHTTPProxies
MCExtensions == EnvoyInput!MCExtensions
MCSecrets == EnvoyInput!MCSecrets
MCServices == EnvoyInput!MCServices
MCFixed == EnvoyInput!MCFixed
MCConfigs == EnvoyInput!MCConfigs
MCHostOrder == EnvoyInput!MCHostOrder
MCPolicyValues == PolicyInput!MCPolicyValues
MCUnset == PolicyInput!MCUnset
MCDefaults == PolicyInput!MCDefaults

-----------------------------------------------------------------------------
(* Routes (RM) that overlap in path (PM), headers (HM) or query parameters   *)
(* (QM).  A string is a sequence of characters: 0 is a slash, 3 the upper    *)
(* case of 1.                                                                *)

PM(kind, value, segment) == [kind |-> kind, value |-> value, segment |-> segment]
HM(name, type, value, invert) == [name |-> name, type |-> type, value |-> value, invert |-> invert,
                                 missingAsEmpty |-> FALSE, ignoreCase |-> FALSE]
QM(type, value, ic) == [name |-> <<3>>, type |-> type, value |-> value, ignoreCase |-> ic]
RM(path, headers, query) == [path |-> path, headers |-> headers, query |-> query, priority |-> 0]
RootP == PM("prefix", <<0>>, FALSE)
MCPaths == {<<0>>, <<0, 1>>, <<0, 1, 0>>, <<0, 1, 0, 2>>, <<0, 1, 2>>}
MCStrings == UNION {[1..n -> 1..3] : n \in 0..2}
MCRoutes ==
  {RM(RootP, <<>>, <<>>),
   RM(PM("prefix", <<0, 1>>, FALSE), <<>>, <<>>), RM(PM("prefix", <<0, 1>>, TRUE), <<>>, <<>>),
   RM(PM("prefix", <<0, 1, 0>>, FALSE), <<>>, <<>>), RM(PM("exact", <<0, 1>>, FALSE), <<>>, <<>>),
   RM(PM("exact", <<0, 1, 2>>, FALSE), <<>>, <<>>),
   RM(RootP, <<HM(TableInput!method, "exact", <<1>>, FALSE)>>, <<>>),
   RM(RootP, <<HM(TableInput!method, "exact", <<2>>, FALSE)>>, <<>>),
   RM(RootP, <<HM(<<1>>, "present", <<>>, FALSE)>>, <<>>),
   RM(RootP, <<HM(<<1>>, "present", <<>>, TRUE)>>, <<>>),
   RM(RootP, <<HM(<<1>>, "exact", <<1>>, FALSE)>>, <<>>),
   RM(RootP, <<HM(<<1>>, "exact", <<1>>, TRUE)>>, <<>>),
   RM(RootP, <<[HM(<<1>>, "exact", <<2>>, TRUE) EXCEPT !.missingAsEmpty = TRUE]>>, <<>>),
   RM(RootP, <<[HM(<<1>>, "exact", <<1>>, FALSE) EXCEPT !.ignoreCase = TRUE]>>, <<>>),
   [RM(RootP, <<HM(<<1>>, "exact", <<2>>, FALSE)>>, <<>>) EXCEPT !.priority = 1],
   RM(PM("prefix", <<0, 1, 0>>, TRUE), <<>>, <<>>),
   RM(RootP, <<HM(<<1>>, "contains", <<1>>, FALSE)>>, <<>>),
   RM(RootP, <<HM(<<1>>, "contains", <<1, 2>>, FALSE)>>, <<>>),
   RM(RootP, <<HM(<<2>>, "exact", <<2>>, FALSE), HM(<<1>>, "exact", <<1>>, FALSE)>>, <<>>),
   RM(RootP, <<HM(<<1>>, "exact", <<2>>, FALSE), HM(<<2>>, "exact", <<1>>, FALSE)>>, <<>>),
   RM(RootP, <<HM(<<1>>, "contains", <<1>>, FALSE)>>, <<QM("present", <<>>, FALSE)>>),
   RM(RootP, <<>>, <<QM("present", <<>>, FALSE)>>), RM(RootP, <<>>, <<QM("exact", <<1>>, FALSE)>>),
   RM(RootP, <<>>, <<QM("exact", <<1>>, TRUE)>>),
   RM(RootP, <<>>, <<QM("prefix", <<1>>, FALSE)>>), RM(RootP, <<>>, <<QM("suffix", <<1>>, FALSE)>>),
   RM(RootP, <<>>, <<QM("contains", <<1>>, FALSE)>>)}

-----------------------------------------------------------------------------
AnyOf(S) == CHOOSE x \in S : TRUE
SomeGateway == AnyOf(Gateways)
SomeRoutes == AnyOf(RouteLists)
SomeWorld == AnyOf(Worlds)
SomeConfig == AnyOf(Configs)

\* Only the component of the scenario starts from all of its inputs.
MCInit ==
  /\ scenario \in Scenarios
  /\ Table!Init
  /\ RoutePolicy!Init
  /\ IF scenario = "envoy" THEN TRUE ELSE config = SomeConfig
  /\ Envoy!Init
  /\ IF scenario = "proxies" THEN TRUE ELSE world = SomeWorld
  /\ Init
  /\ IF scenario = "gateway" THEN TRUE ELSE gateway = SomeGateway /\ routes = SomeRoutes
  /\ GatewayInit

MCNext ==
  /\ UNCHANGED scenario
  /\ \/ /\ scenario = "gateway" /\ GatewayNext
        /\ UNCHANGED <<vars, envoyVars, tableVars, policyVars>>
     \/ /\ scenario = "proxies" /\ Next
        /\ UNCHANGED <<gatewayVars, envoyVars, tableVars, policyVars>>
     \/ /\ scenario = "envoy" /\ Envoy!Next
        /\ UNCHANGED <<gatewayVars, vars, tableVars, policyVars>>
     \/ /\ scenario = "table" /\ Table!Next
        /\ UNCHANGED <<gatewayVars, vars, envoyVars, policyVars>>
     \/ /\ scenario = "policies" /\ RoutePolicy!Next
        /\ UNCHANGED <<gatewayVars, vars, envoyVars, tableVars>>

MCSpec == MCInit /\ [][MCNext]_mcVars

-----------------------------------------------------------------------------
\* See EnvoyConfig: whatever a published listener, route or cluster names is published too.
NoDanglingReferences == scenario = "envoy" => Envoy!NoDanglingReferences

\* See EnvoyConfig: a rebuild of the same objects publishes the same resources.
QuietRebuild == scenario = "envoy" => Envoy!QuietRebuild

\* See EnvoyConfig: what a host gets does not depend on the objects of other hosts.
HostsIndependent == scenario = "envoy" => Envoy!HostsIndependent

\* See RouteTable: no route stands behind one that takes all of its requests.
MostSpecificFirst == scenario = "table" => Table!MostSpecificFirst

\* See RouteTable: a rebuild does not reorder the routes that a host keeps.
StableTable == [][scenario = "table" => Table!KeepsOrder]_mcVars

\* See RoutePolicies: Envoy renders the value of a header that was asked for.
HeaderValuesRender == scenario = "policies" => RoutePolicy!HeaderValuesRender

\* See RoutePolicies: a policy is refused or reaches Envoy, whatever the others are.
PoliciesKept == scenario = "policies" => RoutePolicy!PoliciesKept
=============================================================================
