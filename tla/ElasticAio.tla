------------------------------ MODULE ElasticAio ------------------------------
(***************************************************************************)
(* `elastic_aio` (src/src/elastic_aio.c): one thread copies its input to   *)
(* every output with POSIX asynchronous I/O.  The C library carries out    *)
(* each request with a helper thread that calls read() or write() on the   *)
(* blocking descriptor; these helpers are the environment's steps here.    *)
(* A request that cannot be queued at all, and a failure of aio_suspend(), *)
(* are left out; a failed read ends the input as end-of-file does.         *)
(***************************************************************************)
EXTENDS Consumers

CONSTANTS
  Byte,       (* the values of a byte                                 *)
  Input,      (* the bytes the input supplies                         *)
  MaxChunk    (* xbuf_inc, the most bytes one request reads           *)

ASSUME AioAssumption == Input \in Seq(Byte) /\ MaxChunk \in Nat \ {0}

VARIABLES
  pc,         (* where the loop of main_elastic_aio() is               *)
  nin,        (* bytes handed over by completed and handled reads      *)
  xaio,       (* the read request: "none", "busy", "ok", "end"         *)
  xcount,     (* aio_return() of a completed read                      *)
  xdone,      (* x->done                                               *)
  xmem,       (* x->buf, which the read request fills, is allocated    *)
  oaio,       (* per output, the write request: as xaio, or "error"    *)
  count,      (* bytes the write request has written so far            *)
  buf,        (* o->buf: the bytes of the write request                *)
  xbuf,       (* o->xbuf: bytes read and not yet being written         *)
  done        (* o->done                                               *)

inputVars == <<nin, xaio, xcount, xdone, xmem>>
outputVars == <<oaio, count, buf, xbuf, done>>
consumerVars == <<nread, gone>>
vars == <<pc, inputVars, outputVars, consumerVars, sent, open>>

Init ==
  /\ pc = "read" /\ nin = 0 /\ xaio = "none" /\ xcount = 0 /\ xdone = FALSE
  /\ xmem = TRUE
  /\ oaio = [o \in Outs |-> "none"]
  /\ count = [o \in Outs |-> 0]
  /\ buf = [o \in Outs |-> <<>>]
  /\ xbuf = [o \in Outs |-> <<>>]
  /\ done = [o \in Outs |-> FALSE]
  /\ sent = [o \in Outs |-> <<>>]
  /\ open = [o \in Outs |-> TRUE]
  /\ nread = [o \in Outs |-> 0]
  /\ gone = [o \in Outs |-> FALSE]

-----------------------------------------------------------------------------
(* Mutant of InitiateRead: no read while some output still has a backlog. *)
InitiateReadBounded ==
  /\ pc = "read"
  /\ \E o \in Outs : ~done[o]
  /\ xaio' = IF xaio = "none" /\ ~xdone /\ \A o \in Outs : xbuf[o] = <<>>
             THEN "busy" ELSE xaio
  /\ pc' = "write"
  /\ UNCHANGED <<nin, xcount, xdone, xmem, outputVars, consumerVars, sent, open>>

(* all_done() fails, and a read is requested unless one is pending. *)
InitiateRead ==
  /\ pc = "read"
  /\ \E o \in Outs : ~done[o]
  /\ xaio' = IF xaio = "none" /\ ~xdone THEN "busy" ELSE xaio
  /\ pc' = "write"
  /\ UNCHANGED <<nin, xcount, xdone, xmem, outputVars, consumerVars, sent, open>>

(* Mutant of InitiateWrites: a pending request is not left alone. *)
InitiateWritesPending ==
  /\ pc = "write"
  /\ LET idle(o) == ~done[o]
         next(o) == buf[o] \o xbuf[o]
     IN  /\ buf' = [o \in Outs |-> IF idle(o) THEN next(o) ELSE buf[o]]
         /\ xbuf' = [o \in Outs |-> IF idle(o) THEN <<>> ELSE xbuf[o]]
         /\ done' = [o \in Outs |-> done[o] \/ (idle(o) /\ next(o) = <<>> /\ xdone)]
         /\ oaio' = [o \in Outs |-> IF idle(o) /\ next(o) # <<>> THEN "busy" ELSE oaio[o]]
         /\ count' = [o \in Outs |-> IF idle(o) THEN 0 ELSE count[o]]
  /\ pc' = "suspend"
  /\ UNCHANGED <<inputVars, consumerVars, sent, open>>

(* Mutant of InitiateWrites: done with the input, whatever is left to write. *)
InitiateWritesTooEarly ==
  /\ pc = "write"
  /\ LET idle(o) == oaio[o] = "none" /\ ~done[o]
         next(o) == buf[o] \o xbuf[o]
     IN  /\ buf' = [o \in Outs |-> IF idle(o) THEN next(o) ELSE buf[o]]
         /\ xbuf' = [o \in Outs |-> IF idle(o) THEN <<>> ELSE xbuf[o]]
         /\ done' = [o \in Outs |-> done[o] \/ (idle(o) /\ xdone)]
         /\ oaio' = [o \in Outs |-> IF idle(o) /\ next(o) # <<>> THEN "busy" ELSE oaio[o]]
         /\ count' = [o \in Outs |-> IF idle(o) THEN 0 ELSE count[o]]
  /\ pc' = "suspend"
  /\ UNCHANGED <<inputVars, consumerVars, sent, open>>

(* Mutant of InitiateWrites: an output is done only after an error. *)
InitiateWritesNeverDone ==
  /\ pc = "write"
  /\ LET idle(o) == oaio[o] = "none" /\ ~done[o]
         next(o) == buf[o] \o xbuf[o]
     IN  /\ buf' = [o \in Outs |-> IF idle(o) THEN next(o) ELSE buf[o]]
         /\ xbuf' = [o \in Outs |-> IF idle(o) THEN <<>> ELSE xbuf[o]]
         /\ done' = done
         /\ oaio' = [o \in Outs |-> IF idle(o) /\ next(o) # <<>> THEN "busy" ELSE oaio[o]]
         /\ count' = [o \in Outs |-> IF idle(o) THEN 0 ELSE count[o]]
  /\ pc' = "suspend"
  /\ UNCHANGED <<inputVars, consumerVars, sent, open>>

(* Every idle output moves xbuf behind buf and requests a write of it all; *)
(* with nothing to write it is done if the input is.                       *)
InitiateWrites ==
  /\ pc = "write"
  /\ LET idle(o) == oaio[o] = "none" /\ ~done[o]
         next(o) == buf[o] \o xbuf[o]
     IN  /\ buf' = [o \in Outs |-> IF idle(o) THEN next(o) ELSE buf[o]]
         /\ xbuf' = [o \in Outs |-> IF idle(o) THEN <<>> ELSE xbuf[o]]
         /\ done' = [o \in Outs |-> done[o] \/ (idle(o) /\ next(o) = <<>> /\ xdone)]
         /\ oaio' = [o \in Outs |-> IF idle(o) /\ next(o) # <<>> THEN "busy" ELSE oaio[o]]
         /\ count' = [o \in Outs |-> IF idle(o) THEN 0 ELSE count[o]]
  /\ pc' = "suspend"
  /\ UNCHANGED <<inputVars, consumerVars, sent, open>>

Completed(a) == a \notin {"none", "busy"}

(* aio_suspend(): until some pending request completes, if any is pending. *)
Suspend ==
  /\ pc = "suspend"
  /\ \/ Completed(xaio) \/ \E o \in Outs : Completed(oaio[o])
     \/ xaio = "none" /\ \A o \in Outs : oaio[o] = "none"
  /\ pc' = "handleread"
  /\ UNCHANGED <<inputVars, outputVars, consumerVars, sent, open>>

(* Mutant of HandleRead: a short read counts as a full one. *)
HandleReadFull ==
  /\ pc = "handleread"
  /\ xaio' = IF Completed(xaio) THEN "none" ELSE xaio
  /\ xdone' = (xdone \/ xaio = "end")
  /\ xmem' = (xmem /\ xaio # "end")
  /\ nin' = IF xaio = "ok" THEN nin + MaxChunk ELSE nin
  /\ xbuf' = [o \in Outs |-> IF done[o] \/ xaio # "ok" THEN xbuf[o]
                             ELSE xbuf[o] \o SubSeq(Input, nin + 1, nin + xcount)]
  /\ pc' = "handlewrites"
  /\ UNCHANGED <<xcount, oaio, count, buf, done, consumerVars, sent, open>>

(* The bytes of a completed read go to every output that is not done; at  *)
(* the end of the input x->buf is cleared.                                *)
HandleRead ==
  /\ pc = "handleread"
  /\ xaio' = IF Completed(xaio) THEN "none" ELSE xaio
  /\ xdone' = (xdone \/ xaio = "end")
  /\ xmem' = (xmem /\ xaio # "end")
  /\ nin' = IF xaio = "ok" THEN nin + xcount ELSE nin
  /\ xbuf' = [o \in Outs |-> IF done[o] THEN xbuf[o]
                             ELSE xbuf[o] \o SubSeq(Input, nin + 1, nin')]
  /\ pc' = "handlewrites"
  /\ UNCHANGED <<xcount, oaio, count, buf, done, consumerVars, sent, open>>

(* Completed writes: what was written leaves the buffer; a failed output   *)
(* is done and its buffers are cleared.                                    *)
HandleWrites ==
  /\ pc = "handlewrites"
  /\ oaio' = [o \in Outs |-> IF Completed(oaio[o]) THEN "none" ELSE oaio[o]]
  /\ done' = [o \in Outs |-> done[o] \/ oaio[o] = "error"]
  /\ buf' = [o \in Outs |-> IF oaio[o] = "error" THEN <<>>
                            ELSE IF oaio[o] = "ok"
                            THEN SubSeq(buf[o], count[o] + 1, Len(buf[o]))
                            ELSE buf[o]]
  /\ xbuf' = [o \in Outs |-> IF oaio[o] = "error" THEN <<>> ELSE xbuf[o]]
  /\ pc' = "read"
  /\ UNCHANGED <<inputVars, count, consumerVars, sent, open>>

(***************************************************************************)
(* Every output is done: all descriptors are closed and all buffers freed. *)
(* A read still pending is to be cancelled first, but a helper thread that *)
(* is already inside of read() is not: aio_cancel() then answers           *)
(* AIO_NOTCANCELED, and nothing looks at its answer.                       *)
(***************************************************************************)
Finish ==
  /\ pc = "read"
  /\ \A o \in Outs : done[o]
  /\ open' = [o \in Outs |-> FALSE]
  /\ xmem' = FALSE
  /\ xaio' \in IF xaio = "busy" THEN {"none", "busy"} ELSE {xaio}
  /\ pc' = "exit"
  /\ UNCHANGED <<nin, xcount, xdone, outputVars, consumerVars, sent>>

-----------------------------------------------------------------------------
(* The helper thread of the read completes it: some bytes, or the end. *)
CompleteRead ==
  /\ xaio = "busy"
  /\ \/ \E n \in 1..MaxChunk :
          /\ nin + n <= Len(Input)
          /\ xaio' = "ok" /\ xcount' = n
     \/ /\ nin = Len(Input)
        /\ xaio' = "end" /\ xcount' = 0
  /\ UNCHANGED <<pc, nin, xdone, xmem, outputVars, consumerVars, sent, open>>

(* The helper thread of a write puts bytes into the pipe as room appears, *)
WriteBytes(o) ==
  /\ oaio[o] = "busy" /\ ~gone[o]
  /\ \E n \in 1..(Len(buf[o]) - count[o]) :
        /\ n <= Room(o)
        /\ sent' = [sent EXCEPT ![o] = @ \o SubSeq(buf[o], count[o] + 1, count[o] + n)]
        /\ count' = [count EXCEPT ![o] = @ + n]
  /\ UNCHANGED <<pc, inputVars, oaio, buf, xbuf, done, consumerVars, open>>

(* and returns with the count, or with EPIPE if it wrote nothing. *)
CompleteWrite(o) ==
  /\ oaio[o] = "busy"
  /\ gone[o] \/ count[o] = Len(buf[o])
  /\ oaio' = [oaio EXCEPT ![o] = IF count[o] > 0 THEN "ok" ELSE "error"]
  /\ UNCHANGED <<pc, inputVars, count, buf, xbuf, done, consumerVars, sent, open>>

Consume(o) == ConsumerReads(o) /\ UNCHANGED <<pc, inputVars, outputVars, sent, open>>

Hangup(o) == ConsumerHangsUp(o) /\ UNCHANGED <<pc, inputVars, outputVars, sent, open>>

Terminated ==
  /\ pc = "exit" /\ AllServed
  /\ UNCHANGED vars

-----------------------------------------------------------------------------
MainStep ==
  InitiateRead \/ InitiateWrites \/ Suspend \/ HandleRead \/ HandleWrites \/ Finish

HelperStep(o) == WriteBytes(o) \/ CompleteWrite(o)

Next ==
  \/ MainStep \/ CompleteRead
  \/ \E o \in Outs : HelperStep(o) \/ Consume(o) \/ Hangup(o)
  \/ Terminated

Spec == Init /\ [][Next]_vars

(* The scheduler runs the main thread and the helpers. *)
FairSpec ==
  /\ Spec /\ WF_vars(MainStep) /\ WF_vars(CompleteRead)
  /\ \A o \in Outs : WF_vars(HelperStep(o))

(* The consumers read whenever they may. *)
ConsumersRead == \A o \in Outs : WF_vars(Consume(o))
-----------------------------------------------------------------------------
T == INSTANCE Tee WITH taken <- SubSeq(Input, 1, nin), ended <- xdone

Requests == {"none", "busy", "ok", "end", "error"}

TypeOK ==
  /\ pc \in {"read", "write", "suspend", "handleread", "handlewrites", "exit"}
  /\ nin \in 0..Len(Input)
  /\ xaio \in Requests /\ xcount \in 0..MaxChunk /\ xdone \in BOOLEAN
  /\ xmem \in BOOLEAN
  /\ oaio \in [Outs -> Requests]
  /\ count \in [Outs -> Nat]
  /\ buf \in [Outs -> Seq(Byte)] /\ xbuf \in [Outs -> Seq(Byte)]
  /\ done \in [Outs -> BOOLEAN]
  /\ sent \in [Outs -> Seq(Byte)] /\ open \in [Outs -> BOOLEAN]
  /\ nread \in [Outs -> Nat] /\ gone \in [Outs -> BOOLEAN]

(* As long as the loop goes on, a read has its buffer: x->buf is released  *)
(* at the end of the input, and nothing is read after that.                *)
ReadBufferKept == xaio = "busy" /\ pc # "exit" => xmem

(***************************************************************************)
(* A helper thread that writes reads o->buf while the main loop runs, and  *)
(* one that reads fills x->buf: the main loop must neither move nor clear  *)
(* the bytes of a write request that is under way, nor free the buffer of  *)
(* a read.  At the end of the loop the latter does not hold: a read that   *)
(* could not be cancelled goes on after x->buf was freed (see Finish).     *)
(***************************************************************************)
BufferOfRequestStable ==
  /\ [][\A o \in Outs : oaio[o] = "busy" => buf'[o] = buf[o]]_vars
  /\ []ReadBufferKept

(* Every output is an ordered, complete copy of the input: see Tee. *)
ImplementsTee == T!TeeSpec

(* The input is drained whatever the consumers do, unless all hang up. *)
InputIsDrained == <>(xdone \/ \A o \in Outs : gone[o])

(***************************************************************************)
(* Every consumer that stays reads its copy to the end and sees            *)
(* end-of-file, and the command exits.                                     *)
(***************************************************************************)
EveryConsumerServed == ConsumersRead => <>[](pc = "exit" /\ AllServed)
=============================================================================
