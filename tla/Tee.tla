-------------------------------- MODULE Tee --------------------------------
(***************************************************************************)
(* What every variant of the `elastic` builtin promises: the bytes taken   *)
(* from the input reach every output in order, none is lost, repeated or   *)
(* invented, and an output is closed only when it carries everything that  *)
(* was taken or when its consumer has hung up.  How much is buffered, and  *)
(* when the outputs are written, is left open.                             *)
(***************************************************************************)
EXTENDS Sequences, Naturals

CONSTANTS
  Byte,     (* the values a byte can have   *)
  Outs      (* the outputs being written to *)

VARIABLES
  taken,    (* every byte read from the input so far                       *)
  ended,    (* no further byte will be taken                               *)
  sent,     (* per output: every byte written to it so far                 *)
  open,     (* per output: its descriptor has not been closed              *)
  gone      (* per output: its consumer hung up, so writes fail            *)

teeVars == <<taken, ended, sent, open, gone>>

Prefixes(s) == {SubSeq(s, 1, n) : n \in 0..Len(s)}

TeeInit ==
  /\ taken = <<>>
  /\ ended = FALSE
  /\ sent = [o \in Outs |-> <<>>]
  /\ open = [o \in Outs |-> TRUE]
  /\ gone = [o \in Outs |-> FALSE]

(* Some more input is taken; there may be no more after it. *)
TeeTake ==
  /\ ~ended
  /\ taken' \in Seq(Byte)
  /\ taken \in Prefixes(taken')
  /\ ended' \in BOOLEAN
  /\ UNCHANGED <<sent, open, gone>>

(* The input has ended. *)
TeeEnd ==
  /\ ended' = TRUE
  /\ UNCHANGED <<taken, sent, open, gone>>

(* Some output catches up with what was taken. *)
TeeDeliver(o) ==
  /\ open[o]
  /\ \E s \in Prefixes(taken) :
        /\ sent[o] \in Prefixes(s)
        /\ sent' = [sent EXCEPT ![o] = s]
  /\ UNCHANGED <<taken, ended, open, gone>>

(* Outputs are closed: each carries all that was taken, or nobody reads it. *)
TeeClose ==
  /\ \E S \in SUBSET {o \in Outs : gone[o] \/ (ended /\ sent[o] = taken)} :
        open' = [o \in Outs |-> open[o] /\ o \notin S]
  /\ UNCHANGED <<taken, ended, sent, gone>>

(* A consumer hangs up. *)
TeeHangup(o) ==
  /\ gone' = [gone EXCEPT ![o] = TRUE]
  /\ UNCHANGED <<taken, ended, sent, open>>

TeeNext ==
  \/ TeeTake \/ TeeEnd \/ TeeClose
  \/ \E o \in Outs : TeeDeliver(o) \/ TeeHangup(o)

TeeSpec == TeeInit /\ [][TeeNext]_teeVars
=============================================================================
