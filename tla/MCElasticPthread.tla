-------------------------- MODULE MCElasticPthread --------------------------
(* Instances of ElasticPthread for TLC: two outputs, distinct bytes. *)
EXTENDS ElasticPthread

MCInput == <<1, 2, 3>>
(* One byte more than a pipe of capacity 1 holds. *)
MCShortInput == <<1, 2>>
MCByte == {1, 2, 3}

(* The consumer of output 2 starts once output 1 has ended, ... *)
InOrder == [o \in 1..N |-> 1..(o - 1)]
(* ... or the consumer of output 1 starts once output 2 has ended. *)
InReverse == [o \in 1..N |-> (o + 1)..N]
=============================================================================
