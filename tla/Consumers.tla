------------------------------ MODULE Consumers ------------------------------
(***************************************************************************)
(* The programs at the other end of the outputs of an `elastic` command.   *)
(* Every output is a pipe of bounded capacity.  After says whose           *)
(* end-of-file a consumer awaits before it starts to read (a program that  *)
(* reads one of its input files to the end before it opens the next one);  *)
(* Quitters may hang up at any time.                                       *)
(***************************************************************************)
EXTENDS Naturals, Sequences

CONSTANTS
  N,          (* the number of outputs, numbered from 1               *)
  PipeCap,    (* the bytes a pipe holds                               *)
  After,      (* After[o]: outputs whose end consumer o awaits first  *)
  Quitters    (* consumers that may hang up                           *)

Outs == 1..N

ASSUME ConsumersAssumption ==
  /\ N \in Nat \ {0}
  /\ PipeCap \in Nat \ {0}
  /\ After \in [Outs -> SUBSET Outs]
  /\ Quitters \subseteq Outs

VARIABLES
  sent,    (* per output: every byte written to it so far *)
  open,    (* per output: its write end is open           *)
  nread,   (* bytes its consumer has read                 *)
  gone     (* its consumer has hung up                    *)

(* The bytes the pipe of output o can still take. *)
Room(o) == nread[o] + PipeCap - Len(sent[o])

(* The consumer of output o sees end-of-file. *)
AtEnd(o) == ~open[o] /\ nread[o] = Len(sent[o])

ConsumerReads(o) ==
  /\ ~gone[o]
  /\ \A p \in After[o] : AtEnd(p)
  /\ nread[o] < Len(sent[o])
  /\ nread' = [nread EXCEPT ![o] = @ + 1]
  /\ UNCHANGED gone

ConsumerHangsUp(o) ==
  /\ o \in Quitters /\ ~gone[o]
  /\ gone' = [gone EXCEPT ![o] = TRUE]
  /\ UNCHANGED nread

(* Nobody waits for anything any more. *)
AllServed == \A o \in Outs : gone[o] \/ AtEnd(o)
=============================================================================
