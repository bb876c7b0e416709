---------------------------- MODULE MCElasticAio ----------------------------
(* Instances of ElasticAio for TLC: two outputs, distinct bytes. *)
EXTENDS ElasticAio

MCInput == <<1, 2, 3>>
MCByte == {1, 2, 3}
Independent == [o \in 1..N |-> {}]
=============================================================================
