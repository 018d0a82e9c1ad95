--------------------------- MODULE MCKafkaConsumer ---------------------------
(* Small instances of KafkaConsumer for TLC.                               *)
EXTENDS KafkaConsumer, TLC

CONSTANTS m1, m2, p1, p2

NoPoison   == {}
OnePoison  == {<<p1, 0>>}
LatePoison == {<<p1, 1>>}
=============================================================================
