----------------------------- MODULE ElasticPoll -----------------------------
(***************************************************************************)
(* `elastic_poll` (src/src/elastic_poll.c): one thread copies its input to *)
(* every output, choosing what to do next with poll().                     *)
(*                                                                         *)
(* The input is a pipe.  Its writer supplies the bytes of Input and hangs  *)
(* up; poll() then reports POLLHUP, together with POLLIN while bytes are   *)
(* left.  setfd_nonblock() passes O_NONBLOCK to F_SETFD, which knows only  *)
(* FD_CLOEXEC, so the descriptors stay blocking: a write() of more than    *)
(* the pipe has room for returns when everything is written or when the    *)
(* consumer hangs up.  A failure of poll() itself is left out.             *)
(***************************************************************************)
EXTENDS Consumers

CONSTANTS
  Byte,       (* the values of a byte                                 *)
  Input,      (* the bytes the input's writer supplies                *)
  BufSize     (* BUFSIZ, the most bytes one read() returns            *)

ASSUME PollAssumption == Input \in Seq(Byte) /\ BufSize \in Nat \ {0}

Ios == 0..N   (* ios: the input is 0, the outputs follow *)

VARIABLES
  pc,         (* where the loop of main_elastic_poll() is              *)
  i,          (* the index in handle_read_write()                      *)
  revents,    (* what poll() reported, per descriptor                  *)
  buf,        (* per output: bytes to be written                       *)
  done,       (* io->done, per descriptor                              *)
  wrote,      (* the write() under way has written something           *)
  nin,        (* bytes read                                            *)
  supplied,   (* bytes the input's writer has put into the pipe        *)
  hup         (* the input's writer has hung up                        *)

pollVars == <<pc, i, revents, buf, done, wrote, nin>>
sourceVars == <<supplied, hup>>
consumerVars == <<nread, gone>>
vars == <<pollVars, sourceVars, consumerVars, sent, open>>

Init ==
  /\ pc = "prepare" /\ i = 0
  /\ revents = [f \in Ios |-> {}]
  /\ buf = [o \in Outs |-> <<>>]
  /\ done = [f \in Ios |-> FALSE]
  /\ wrote = FALSE /\ nin = 0 /\ supplied = 0 /\ hup = FALSE
  /\ sent = [o \in Outs |-> <<>>]
  /\ open = [o \in Outs |-> TRUE]
  /\ nread = [o \in Outs |-> 0]
  /\ gone = [o \in Outs |-> FALSE]

-----------------------------------------------------------------------------
(* close_IOState() of the descriptors in S: done is set and each is closed. *)
CloseIos(S) ==
  /\ done' = [f \in Ios |-> done[f] \/ f \in S]
  /\ open' = [o \in Outs |-> open[o] /\ o \notin S]

(* Mutant of Finished: outputs are closed with the input, written or not. *)
FinishedTooEarly == IF done[0] THEN Outs ELSE {}

(* Mutant of Finished: an output is closed only by an error. *)
FinishedNever == {}

(* Outputs with nothing to write are closed when no more is being read. *)
Finished == IF done[0] THEN {o \in Outs : buf[o] = <<>>} ELSE {}

(* prepare_for_poll(): close what is finished; stop when every output is. *)
PrepareForPoll ==
  /\ pc = "prepare"
  /\ CloseIos(Finished)
  /\ pc' = IF \A o \in Outs : done'[o] THEN "finish" ELSE "poll"
  /\ revents' = [f \in Ios |-> {}]
  /\ UNCHANGED <<i, buf, nin, wrote, sourceVars, consumerVars, sent>>

(* What the kernel has to report of descriptor f. *)
InputEvents ==
  {e \in {"IN", "HUP"} : (e = "IN" /\ nin < supplied) \/ (e = "HUP" /\ hup)}

OutputEvents(o) ==
  {e \in {"OUT", "ERR"} : \/ e = "OUT" /\ buf[o] # <<>> /\ Room(o) > 0
                          \/ e = "ERR" /\ gone[o]}

Ready(f) ==
  IF done[f] THEN {"NVAL"}
  ELSE IF f = 0 THEN InputEvents ELSE OutputEvents(f)

(* poll() returns once there is something to report. *)
Poll ==
  /\ pc = "poll"
  /\ \E f \in Ios : Ready(f) # {}
  /\ revents' = [f \in Ios |-> Ready(f)]
  /\ pc' = "handle" /\ i' = 0
  /\ UNCHANGED <<buf, done, nin, wrote, sourceVars, consumerVars, sent, open>>

(* On to the next descriptor of handle_read_write(). *)
Advance ==
  /\ i' = i + 1
  /\ pc' = IF i = N THEN "prepare" ELSE "handle"

(* Events other than POLLIN and POLLOUT close the descriptor. *)
SomethingHappened == revents[i] \ {"IN", "OUT"} # {}

(* The descriptor is done, or there is nothing to read or write. *)
HandleOther ==
  /\ pc = "handle"
  /\ done[i] \/ revents[i] \intersect {"IN", "OUT"} = {}
  /\ CloseIos(IF SomethingHappened THEN {i} ELSE {})
  /\ Advance
  /\ UNCHANGED <<revents, buf, nin, wrote, sourceVars, consumerVars, sent>>

(* Mutant of HandleRead: a short read counts as a full one. *)
HandleReadFull ==
  /\ pc = "handle" /\ ~done[i] /\ "IN" \in revents[i]
  /\ nin' = nin + BufSize
  /\ buf' = [o \in Outs |-> IF done[o] THEN buf[o]
                            ELSE buf[o] \o SubSeq(Input, nin + 1, supplied)]
  /\ CloseIos(IF SomethingHappened THEN {i} ELSE {})
  /\ Advance
  /\ UNCHANGED <<revents, wrote, sourceVars, consumerVars, sent>>

(* One read() of what the pipe holds, up to BufSize bytes, appended to     *)
(* every output that is not done; then the input is closed if its writer   *)
(* has hung up.                                                            *)
HandleRead ==
  /\ pc = "handle" /\ ~done[i] /\ "IN" \in revents[i]
  /\ LET n == IF supplied - nin < BufSize THEN supplied - nin ELSE BufSize
     IN  /\ nin' = nin + n
         /\ buf' = [o \in Outs |-> IF done[o] THEN buf[o]
                                   ELSE buf[o] \o SubSeq(Input, nin + 1, nin + n)]
  /\ CloseIos(IF SomethingHappened THEN {i} ELSE {})
  /\ Advance
  /\ UNCHANGED <<revents, wrote, sourceVars, consumerVars, sent>>

(* write() of the whole buffer begins ... *)
BeginWrite ==
  /\ pc = "handle" /\ ~done[i] /\ "OUT" \in revents[i]
  /\ pc' = "write" /\ wrote' = FALSE
  /\ UNCHANGED <<i, revents, buf, done, nin, sourceVars, consumerVars, sent, open>>

(* ... moves bytes as the pipe has room for them ... *)
WriteBytes ==
  /\ pc = "write" /\ ~gone[i]
  /\ \E n \in 1..Len(buf[i]) :
        /\ n <= Room(i)
        /\ sent' = [sent EXCEPT ![i] = @ \o SubSeq(buf[i], 1, n)]
        /\ buf' = [buf EXCEPT ![i] = SubSeq(@, n + 1, Len(@))]
  /\ wrote' = TRUE
  /\ UNCHANGED <<pc, i, revents, done, nin, sourceVars, consumerVars, open>>

(* ... and returns when nothing is left or the consumer hangs up: with     *)
(* the count of what was written, or with EPIPE, which closes the output.  *)
EndWrite ==
  /\ pc = "write"
  /\ gone[i] \/ buf[i] = <<>>
  /\ CloseIos(IF SomethingHappened \/ (gone[i] /\ ~wrote /\ buf[i] # <<>>) THEN {i} ELSE {})
  /\ Advance
  /\ UNCHANGED <<revents, buf, nin, wrote, sourceVars, consumerVars, sent>>

(* Everything that is still open is closed. *)
Finish ==
  /\ pc = "finish"
  /\ CloseIos(Ios)
  /\ pc' = "exit"
  /\ UNCHANGED <<i, revents, buf, nin, wrote, sourceVars, consumerVars, sent>>

-----------------------------------------------------------------------------
(* The program before and those after the command. *)
Supply ==
  /\ ~hup /\ supplied < Len(Input)
  /\ supplied' = supplied + 1
  /\ UNCHANGED <<pollVars, hup, consumerVars, sent, open>>

SourceHangsUp ==
  /\ ~hup /\ supplied = Len(Input)
  /\ hup' = TRUE
  /\ UNCHANGED <<pollVars, supplied, consumerVars, sent, open>>

Consume(o) == ConsumerReads(o) /\ UNCHANGED <<pollVars, sourceVars, sent, open>>

Hangup(o) == ConsumerHangsUp(o) /\ UNCHANGED <<pollVars, sourceVars, sent, open>>

Terminated ==
  /\ pc = "exit" /\ hup /\ AllServed
  /\ UNCHANGED vars

PollStep ==
  \/ PrepareForPoll \/ Poll \/ HandleOther \/ HandleRead
  \/ BeginWrite \/ WriteBytes \/ EndWrite \/ Finish

Next ==
  \/ PollStep \/ Supply \/ SourceHangsUp
  \/ \E o \in Outs : Consume(o) \/ Hangup(o)
  \/ Terminated

Spec == Init /\ [][Next]_vars

(* The scheduler runs the command, and the writer of its input goes on. *)
FairSpec ==
  Spec /\ WF_vars(PollStep) /\ WF_vars(Supply) /\ WF_vars(SourceHangsUp)

(* The consumers read whenever they may. *)
ConsumersRead == \A o \in Outs : WF_vars(Consume(o))
-----------------------------------------------------------------------------
T == INSTANCE Tee WITH taken <- SubSeq(Input, 1, nin), ended <- done[0]

TypeOK ==
  /\ pc \in {"prepare", "poll", "handle", "write", "finish", "exit"}
  /\ i \in 0..(N + 1)
  /\ revents \in [Ios -> SUBSET {"IN", "OUT", "HUP", "ERR", "NVAL"}]
  /\ buf \in [Outs -> Seq(Byte)]
  /\ done \in [Ios -> BOOLEAN]
  /\ wrote \in BOOLEAN
  /\ nin \in 0..supplied
  /\ supplied \in 0..Len(Input)
  /\ hup \in BOOLEAN
  /\ sent \in [Outs -> Seq(Byte)]
  /\ open \in [Outs -> BOOLEAN]
  /\ nread \in [Outs -> Nat]
  /\ gone \in [Outs -> BOOLEAN]

(* Every output is an ordered, complete copy of what was read: see Tee. *)
ImplementsTee == T!TeeSpec

(***************************************************************************)
(* "Echo stdin to stdout with an arbitrary sized buffer" (elastic_poll.c): *)
(* an output that is closed while its consumer is still there carries      *)
(* every byte the input's writer supplied.                                 *)
(***************************************************************************)
EchoesWholeInput ==
  \A o \in Outs : open[o] \/ gone[o] \/ (hup /\ sent[o] = Input)

(***************************************************************************)
(* The input is drained whatever the consumers do (the purpose of the      *)
(* command, README.md).                                                    *)
(***************************************************************************)
InputIsDrained == <>(done[0])

(***************************************************************************)
(* Every consumer that stays sees end-of-file, and the command exits, if   *)
(* the consumers do not wait for one another.                              *)
(***************************************************************************)
EveryConsumerServed == ConsumersRead => <>[](pc = "exit" /\ AllServed)
=============================================================================
