---------------------------- MODULE MCMqttServer ----------------------------
\* An instance of MqttServer for TLC: two of three topics have one code.
EXTENDS MqttServer, TLC

CONSTANTS t1, t2, t3

MCHash == t1 :> 1 @@ t2 :> 2 @@ t3 :> 2
=============================================================================
