---------------------------- MODULE MCElasticPoll ----------------------------
(* Instances of ElasticPoll for TLC: two outputs, distinct bytes. *)
EXTENDS ElasticPoll

MCInput == <<1, 2, 3>>
MCByte == {1, 2, 3}
Independent == [o \in 1..N |-> {}]
=============================================================================
