--------------------------- MODULE ElasticPthread ---------------------------
(***************************************************************************)
(* The `elastic` builtin (src/src/builtin/elastic_pthread.c): the main     *)
(* thread reads the input and appends every chunk to one unbounded buffer  *)
(* per output; a writing thread per output drains its buffer into a pipe.  *)
(* A buffer is guarded by a mutex and a condition variable.                *)
(*                                                                         *)
(* Outputs are numbered from 1 in the order of the argument list, the      *)
(* order in which the main thread visits them, and number N in all         *)
(* (wstate_count).  An input error ends the stream exactly as end-of-file  *)
(* does, so it is an Input of fewer bytes.                                 *)
(***************************************************************************)
EXTENDS Consumers

CONSTANTS
  Byte,       (* the values of a byte                                    *)
  Input,      (* the bytes the input supplies                            *)
  MaxChunk    (* the most bytes one read() returns                       *)

ASSUME ElasticAssumption == Input \in Seq(Byte) /\ MaxChunk \in Nat \ {0}

VARIABLES
  rpc,     (* where the main thread is in reading_routine()                *)
  ri,      (* its loop index i                                             *)
  nin,     (* bytes read so far                                            *)
  chunk,   (* the bytes of the last read, in->at[in->off ..]               *)
  nspawned,(* threads created                                              *)
  mutex,   (* buf_mutex, per output: "free", "reader" or "writer"          *)
  buf,     (* st->buf: bytes the reader has queued                         *)
  done,    (* st->done                                                     *)
  freed,   (* st->buf was closed                                           *)
  wpc,     (* where writing_thread_fn() is                                 *)
  wdone,   (* its local copy of done                                       *)
  out      (* st->outfile: bytes taken from buf and not yet written        *)

readerVars == <<rpc, ri, nin, chunk, nspawned>>
sharedVars == <<mutex, buf, done, freed>>
writerVars == <<wpc, wdone, out, sent, open>>
consumerVars == <<nread, gone>>
vars == <<readerVars, sharedVars, writerVars, consumerVars>>

Init ==
  /\ rpc = "create" /\ ri = 1 /\ nin = 0 /\ chunk = <<>> /\ nspawned = 0
  /\ mutex = [o \in Outs |-> "free"]
  /\ buf = [o \in Outs |-> <<>>]
  /\ done = [o \in Outs |-> FALSE]
  /\ freed = [o \in Outs |-> FALSE]
  /\ wpc = [o \in Outs |-> "none"]
  /\ wdone = [o \in Outs |-> FALSE]
  /\ out = [o \in Outs |-> <<>>]
  /\ sent = [o \in Outs |-> <<>>]
  /\ open = [o \in Outs |-> TRUE]
  /\ nread = [o \in Outs |-> 0]
  /\ gone = [o \in Outs |-> FALSE]

-----------------------------------------------------------------------------
(* The main thread: reading_routine(). *)

(* Mutant of CreateThread: `i <= wstate_count` starts one thread too many. *)
CreateThreadTooMany ==
  /\ rpc = "create" /\ ri <= N + 1
  /\ wpc' = [o \in Outs |-> IF o = ri THEN "lock" ELSE wpc[o]]
  /\ nspawned' = ri
  /\ ri' = ri + 1
  /\ rpc' = IF ri > N THEN "read" ELSE "create"
  /\ UNCHANGED <<nin, chunk, sharedVars, wdone, out, sent, open, consumerVars>>

(* pthread_create() of the next writing thread succeeds ... *)
CreateThread ==
  /\ rpc = "create" /\ ri <= N
  /\ wpc' = [wpc EXCEPT ![ri] = "lock"]
  /\ nspawned' = ri
  /\ ri' = ri + 1
  /\ rpc' = IF ri = N THEN "read" ELSE "create"
  /\ UNCHANGED <<nin, chunk, sharedVars, wdone, out, sent, open, consumerVars>>

(* ... or fails: nothing is read and only the threads created are joined. *)
CreateThreadFails ==
  /\ rpc = "create" /\ ri <= N
  /\ rpc' = "closein"
  /\ UNCHANGED <<ri, nin, chunk, nspawned, sharedVars, writerVars, consumerVars>>

(* read_FildeshX() returns a chunk. *)
ReadChunk ==
  /\ rpc = "read"
  /\ \E n \in 1..MaxChunk :
        /\ nin + n <= Len(Input)
        /\ chunk' = SubSeq(Input, nin + 1, nin + n)
        /\ nin' = nin + n
  /\ rpc' = "lock" /\ ri' = 1
  /\ UNCHANGED <<nspawned, sharedVars, writerVars, consumerVars>>

(* read_FildeshX() returns 0. *)
ReadEnd ==
  /\ rpc = "read" /\ nin = Len(Input)
  /\ rpc' = "closein"
  /\ UNCHANGED <<ri, nin, chunk, nspawned, sharedVars, writerVars, consumerVars>>

(* Mutant of ReaderLock: wait until what was queued before is written.      *)
ReaderLockBounded ==
  /\ rpc \in {"lock", "finlock"}
  /\ mutex[ri] = "free" /\ buf[ri] = <<>> /\ out[ri] = <<>>
  /\ mutex' = [mutex EXCEPT ![ri] = "reader"]
  /\ rpc' = IF rpc = "lock" THEN "append" ELSE "finish"
  /\ UNCHANGED <<ri, nin, chunk, nspawned, buf, done, freed, writerVars, consumerVars>>

(* The main thread locks the mutex of output i, to append or to finish. *)
ReaderLock ==
  /\ rpc \in {"lock", "finlock"}
  /\ mutex[ri] = "free"
  /\ mutex' = [mutex EXCEPT ![ri] = "reader"]
  /\ rpc' = IF rpc = "lock" THEN "append" ELSE "finish"
  /\ UNCHANGED <<ri, nin, chunk, nspawned, buf, done, freed, writerVars, consumerVars>>

(* pthread_cond_signal(): a waiting writer is to run again. *)
Signal(o) ==
  wpc' = IF wpc[o] = "wait" THEN [wpc EXCEPT ![o] = "wake"] ELSE wpc

(* The chunk is appended unless the output is done, and the mutex released. *)
AppendChunk ==
  /\ rpc = "append"
  /\ \/ /\ ~done[ri]
        /\ buf' = [buf EXCEPT ![ri] = @ \o chunk]
        /\ Signal(ri)
     \/ /\ done[ri]
        /\ UNCHANGED <<buf, wpc>>
  /\ mutex' = [mutex EXCEPT ![ri] = "free"]
  /\ ri' = ri + 1
  /\ rpc' = IF ri = N THEN "read" ELSE "lock"
  /\ UNCHANGED <<nin, chunk, nspawned, done, freed, wdone, out, sent, open, consumerVars>>

(* close_FildeshX(in), and the joining loop starts at output 1. *)
CloseInput ==
  /\ rpc = "closein"
  /\ ri' = 1
  /\ rpc' = IF nspawned = 0 THEN "cleanup" ELSE "finlock"
  /\ UNCHANGED <<nin, chunk, nspawned, sharedVars, writerVars, consumerVars>>

(* Mutant of FinishOutput: the condition variable is not signalled. *)
FinishOutputNoSignal ==
  /\ rpc = "finish"
  /\ done' = [done EXCEPT ![ri] = TRUE]
  /\ mutex' = [mutex EXCEPT ![ri] = "free"]
  /\ rpc' = "join"
  /\ UNCHANGED <<ri, nin, chunk, nspawned, buf, freed, writerVars, consumerVars>>

(* With the mutex held, tell writer i that no more bytes will come. *)
FinishOutput ==
  /\ rpc = "finish"
  /\ \/ /\ ~done[ri]
        /\ done' = [done EXCEPT ![ri] = TRUE]
        /\ Signal(ri)
     \/ /\ done[ri]
        /\ UNCHANGED <<done, wpc>>
  /\ mutex' = [mutex EXCEPT ![ri] = "free"]
  /\ rpc' = "join"
  /\ UNCHANGED <<ri, nin, chunk, nspawned, buf, freed, wdone, out, sent, open, consumerVars>>

(* Mutant of JoinThread: the thread is detached, not joined. *)
JoinThreadNoWait ==
  /\ rpc = "join"
  /\ ri' = ri + 1
  /\ rpc' = IF ri = nspawned THEN "cleanup" ELSE "finlock"
  /\ UNCHANGED <<nin, chunk, nspawned, sharedVars, writerVars, consumerVars>>

(* pthread_join() of writer i, before writer i+1 is told to finish. *)
JoinThread ==
  /\ rpc = "join"
  /\ wpc[ri] = "exited"
  /\ ri' = ri + 1
  /\ rpc' = IF ri = nspawned THEN "cleanup" ELSE "finlock"
  /\ UNCHANGED <<nin, chunk, nspawned, sharedVars, writerVars, consumerVars>>

(* cleanup_wstates(): mutexes are destroyed, remaining outputs are closed. *)
CleanupStates ==
  /\ rpc = "cleanup"
  /\ rpc' = "exit"
  /\ freed' = [o \in Outs |-> TRUE]
  /\ buf' = [o \in Outs |-> <<>>]
  /\ open' = [o \in Outs |-> FALSE]
  /\ UNCHANGED <<ri, nin, chunk, nspawned, mutex, done, wpc, wdone, out, sent, consumerVars>>

-----------------------------------------------------------------------------
(* The writing thread of output o: writing_thread_fn(). *)

WriterLock(o) ==
  /\ wpc[o] \in {"lock", "wake", "faillock"}
  /\ mutex[o] = "free"
  /\ mutex' = [mutex EXCEPT ![o] = "writer"]
  /\ wpc' = [wpc EXCEPT ![o] = IF @ = "faillock" THEN "fail" ELSE "check"]
  /\ UNCHANGED <<readerVars, buf, done, freed, wdone, out, sent, open, consumerVars>>

(* Nothing to do yet: pthread_cond_wait() releases the mutex. *)
WriterWait(o) ==
  /\ wpc[o] = "check"
  /\ buf[o] = <<>> /\ ~done[o]
  /\ wpc' = [wpc EXCEPT ![o] = "wait"]
  /\ mutex' = [mutex EXCEPT ![o] = "free"]
  /\ UNCHANGED <<readerVars, buf, done, freed, wdone, out, sent, open, consumerVars>>

(* POSIX lets pthread_cond_wait() return without a signal. *)
SpuriousWakeup(o) ==
  /\ wpc[o] = "wait"
  /\ wpc' = [wpc EXCEPT ![o] = "wake"]
  /\ UNCHANGED <<readerVars, sharedVars, wdone, out, sent, open, consumerVars>>

(* Mutant of TakeBuffer: done is tested first, what is queued is forgotten. *)
TakeBufferUnlessDone(o) ==
  /\ wpc[o] = "check"
  /\ buf[o] # <<>> \/ done[o]
  /\ wdone' = [wdone EXCEPT ![o] = done[o]]
  /\ out' = [out EXCEPT ![o] = IF done[o] THEN @ ELSE @ \o buf[o]]
  /\ buf' = [buf EXCEPT ![o] = <<>>]
  /\ mutex' = [mutex EXCEPT ![o] = "free"]
  /\ wpc' = [wpc EXCEPT ![o] = "flush"]
  /\ UNCHANGED <<readerVars, done, freed, sent, open, consumerVars>>

(* Take all queued bytes and the done flag, and release the mutex. *)
TakeBuffer(o) ==
  /\ wpc[o] = "check"
  /\ buf[o] # <<>> \/ done[o]
  /\ wdone' = [wdone EXCEPT ![o] = done[o]]
  /\ out' = [out EXCEPT ![o] = @ \o buf[o]]
  /\ buf' = [buf EXCEPT ![o] = <<>>]
  /\ mutex' = [mutex EXCEPT ![o] = "free"]
  /\ wpc' = [wpc EXCEPT ![o] = "flush"]
  /\ UNCHANGED <<readerVars, done, freed, sent, open, consumerVars>>

(* One write() of flush_FildeshO(): as much as the pipe has room for, or   *)
(* less; the loop ends when everything is written.                         *)
WriteSome(o) ==
  /\ wpc[o] = "flush" /\ out[o] # <<>> /\ ~gone[o]
  /\ \E n \in 1..Len(out[o]) :
        /\ n <= Room(o)
        /\ sent' = [sent EXCEPT ![o] = @ \o SubSeq(out[o], 1, n)]
        /\ out' = [out EXCEPT ![o] = SubSeq(@, n + 1, Len(@))]
  /\ UNCHANGED <<readerVars, sharedVars, wpc, wdone, open, consumerVars>>

(* Nothing is left to write: go round again, or leave the loop. *)
FlushDone(o) ==
  /\ wpc[o] = "flush" /\ out[o] = <<>>
  /\ wpc' = [wpc EXCEPT ![o] = IF wdone[o] THEN "free" ELSE "lock"]
  /\ UNCHANGED <<readerVars, sharedVars, wdone, out, sent, open, consumerVars>>

(* write() fails because the consumer hung up: leave the loop. *)
FlushFails(o) ==
  /\ wpc[o] = "flush" /\ out[o] # <<>> /\ gone[o]
  /\ wpc' = [wpc EXCEPT ![o] = IF wdone[o] THEN "free" ELSE "faillock"]
  /\ UNCHANGED <<readerVars, sharedVars, wdone, out, sent, open, consumerVars>>

(* Mutant of SetMyselfDone: the output is not declared done. *)
SetMyselfDoneNot(o) ==
  /\ wpc[o] = "fail"
  /\ mutex' = [mutex EXCEPT ![o] = "free"]
  /\ wpc' = [wpc EXCEPT ![o] = "free"]
  /\ UNCHANGED <<readerVars, buf, done, freed, wdone, out, sent, open, consumerVars>>

(* With the mutex held, the writer itself declares the output done. *)
SetMyselfDone(o) ==
  /\ wpc[o] = "fail"
  /\ done' = [done EXCEPT ![o] = TRUE]
  /\ mutex' = [mutex EXCEPT ![o] = "free"]
  /\ wpc' = [wpc EXCEPT ![o] = "free"]
  /\ UNCHANGED <<readerVars, buf, freed, wdone, out, sent, open, consumerVars>>

(* close_FildeshO(&st->buf), without the mutex. *)
FreeBuffer(o) ==
  /\ wpc[o] = "free"
  /\ freed' = [freed EXCEPT ![o] = TRUE]
  /\ buf' = [buf EXCEPT ![o] = <<>>]
  /\ wpc' = [wpc EXCEPT ![o] = "closeout"]
  /\ UNCHANGED <<readerVars, mutex, done, wdone, out, sent, open, consumerVars>>

(* close_FildeshO(st->outfile): a last flush, which fails again if there   *)
(* is anything left, and the consumer will see end-of-file.                *)
CloseOutput(o) ==
  /\ wpc[o] = "closeout"
  /\ open' = [open EXCEPT ![o] = FALSE]
  /\ out' = [out EXCEPT ![o] = <<>>]
  /\ wpc' = [wpc EXCEPT ![o] = "exited"]
  /\ UNCHANGED <<readerVars, sharedVars, wdone, sent, consumerVars>>

-----------------------------------------------------------------------------
(* The consumers. *)

Consume(o) ==
  ConsumerReads(o) /\ UNCHANGED <<readerVars, sharedVars, writerVars>>

Hangup(o) ==
  ConsumerHangsUp(o) /\ UNCHANGED <<readerVars, sharedVars, writerVars>>

-----------------------------------------------------------------------------
ReaderStep ==
  \/ CreateThread \/ CreateThreadFails \/ ReadChunk \/ ReadEnd
  \/ ReaderLock \/ AppendChunk \/ CloseInput \/ FinishOutput
  \/ JoinThread \/ CleanupStates

WriterStep(o) ==
  \/ WriterLock(o) \/ WriterWait(o) \/ TakeBuffer(o) \/ WriteSome(o)
  \/ FlushDone(o) \/ FlushFails(o) \/ SetMyselfDone(o)
  \/ FreeBuffer(o) \/ CloseOutput(o)

ConsumerStep(o) == Consume(o) \/ Hangup(o)

(* The program and its consumers have all come to an end. *)
Terminated ==
  /\ rpc = "exit"
  /\ AllServed
  /\ UNCHANGED vars

Next ==
  \/ ReaderStep
  \/ \E o \in Outs : WriterStep(o) \/ SpuriousWakeup(o) \/ ConsumerStep(o)
  \/ Terminated

Spec == Init /\ [][Next]_vars

(* The scheduler runs every thread of the program again and again, and a   *)
(* mutex that is released again and again is eventually granted.  Nothing  *)
(* is assumed of the consumers.                                            *)
ThreadFairness ==
  /\ WF_vars(ReaderStep) /\ SF_vars(ReaderLock)
  /\ \A o \in Outs : WF_vars(WriterStep(o)) /\ SF_vars(WriterLock(o))

FairSpec == Spec /\ ThreadFairness

(* The consumers read whenever they may. *)
ConsumersRead == \A o \in Outs : WF_vars(Consume(o))
-----------------------------------------------------------------------------
(* The main thread has stopped reading. *)
Ended == rpc \notin {"create", "read", "lock", "append"}

T == INSTANCE Tee WITH taken <- SubSeq(Input, 1, nin), ended <- Ended

TypeOK ==
  /\ rpc \in {"create", "read", "lock", "append", "closein", "finlock",
              "finish", "join", "cleanup", "exit"}
  /\ ri \in Nat \ {0}
  /\ nin \in 0..Len(Input)
  /\ chunk \in Seq(Byte)
  /\ nspawned \in 0..N
  /\ mutex \in [Outs -> {"free", "reader", "writer"}]
  /\ buf \in [Outs -> Seq(Byte)]
  /\ done \in [Outs -> BOOLEAN]
  /\ freed \in [Outs -> BOOLEAN]
  /\ wpc \in [Outs -> {"none", "lock", "check", "wait", "wake", "flush",
                       "faillock", "fail", "free", "closeout", "exited"}]
  /\ wdone \in [Outs -> BOOLEAN]
  /\ out \in [Outs -> Seq(Byte)]
  /\ sent \in [Outs -> Seq(Byte)]
  /\ open \in [Outs -> BOOLEAN]
  /\ nread \in [Outs -> Nat]
  /\ gone \in [Outs -> BOOLEAN]

(***************************************************************************)
(* reading_routine() appends to st->buf only after checking st->done with  *)
(* the mutex held, while a writer frees st->buf without it: whenever the   *)
(* append is about to happen the buffer must still be there.               *)
(***************************************************************************)
NoAppendAfterFree == rpc = "append" /\ ~done[ri] => ~freed[ri]

(***************************************************************************)
(* cleanup_wstates() destroys the mutexes and frees the states ("Call      *)
(* pthread_join() before this!"): no writing thread may still be running.  *)
(***************************************************************************)
CleanupAfterJoin ==
  rpc \in {"cleanup", "exit"} => \A o \in Outs : wpc[o] \in {"none", "exited"}

(* Every output is an ordered, complete copy of the input: see Tee. *)
ImplementsTee == T!TeeSpec

(***************************************************************************)
(* What makes the command elastic: the main thread drains the whole input  *)
(* whatever the consumers do, even if none of them ever reads a byte.      *)
(***************************************************************************)
InputIsDrained == <>Ended

(***************************************************************************)
(* If the consumers read whenever they may, each that stays reads its copy *)
(* to the end and sees end-of-file there, and the command then exits.      *)
(***************************************************************************)
EveryConsumerServed == ConsumersRead => <>[](rpc = "exit" /\ AllServed)
=============================================================================
