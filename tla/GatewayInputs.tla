---------------------------- MODULE GatewayInputs ----------------------------
(* The Gateways the processor may find in the cache and what the API server  *)
(* lets through of them; the fields are described in GatewayListeners.       *)
EXTENDS Integers, Sequences

CONSTANT Gateways

MaxPort == 65535
PortNumbers == 1..MaxPort

\* A hostname is never "*" alone: the pattern of the CRD asks for a name after the wildcard.
Listener == [name : STRING, port : PortNumbers, protocol : STRING, hostname : Seq(STRING) \ {<<"*">>},
             kinds : SUBSET STRING, from : STRING, selector : STRING,
             tls : [mode : STRING,
                    refs : Seq([secret : BOOLEAN, namespace : STRING, name : STRING])]]

ASSUME GatewaysAssumption == \A g \in Gateways : g.listeners \in Seq(Listener)
=============================================================================
