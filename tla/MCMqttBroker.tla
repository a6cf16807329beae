--------------------------- MODULE MCMqttBroker ---------------------------
(* Instances of MqttBroker for TLC. *)
EXTENDS MqttBroker

\* A broker that gets the status topic, and one that gets raw packets only and
\* wants credentials signed by the node over a transport that may not be set up.
Plain == [highLevel |-> TRUE, deviceAuth |-> FALSE, tls |-> FALSE]
RawTls == [highLevel |-> FALSE, deviceAuth |-> TRUE, tls |-> TRUE]
PlainOnly == {Plain}
TwoConfigs == {Plain, RawTls}
=============================================================================
