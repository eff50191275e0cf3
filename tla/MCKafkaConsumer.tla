--------------------------- MODULE MCKafkaConsumer ---------------------------
(***************************************************************************)
(* A topic read by a service and by the audit sink.                        *)
(***************************************************************************)
EXTENDS KafkaConsumerProps, TLC

CONSTANTS topic, service, audit, ev1, ev2, ev3

MCTopicOf == [g \in Groups |-> topic]
=============================================================================
