------------------------ MODULE ElasticPthreadProofs ------------------------
(***************************************************************************)
(* Proofs about ElasticPthread, for any number of outputs, any input, any  *)
(* chunk and pipe size and any behaviour of the consumers.                 *)
(***************************************************************************)
EXTENDS ElasticPthread, PrefixLemmas, SequenceTheorems, TLAPS

(* The bytes read so far. *)
Taken == SubSeq(Input, 1, nin)

(* Output o has not been given the current chunk yet. *)
Awaits(o) == rpc \in {"lock", "append"} /\ ri <= o

(* The bytes output o has been given: all of them, or all but the chunk. *)
Given(o) == IF Awaits(o) THEN SubSeq(Input, 1, nin - Len(chunk)) ELSE Taken

(* Which threads exist, and the range of the loop index. *)
SpawnInv ==
  /\ \A o \in Outs : wpc[o] = "none" <=> o > nspawned
  /\ rpc = "create" => ri = nspawned + 1 /\ ri <= N /\ nin = 0
  /\ rpc \in {"read", "lock", "append"} => nspawned = N
  /\ rpc \in {"lock", "append"} => ri <= N
  /\ rpc \in {"finlock", "finish", "join"} => ri <= nspawned
  /\ nspawned < N => nin = 0

(* Who holds each mutex. *)
MutexInv ==
  \A o \in Outs :
    /\ mutex[o] = "reader" <=> rpc \in {"append", "finish"} /\ ri = o
    /\ mutex[o] = "writer" <=> wpc[o] \in {"check", "fail"}

Leaving == {"free", "closeout", "exited"}

(* What the done flags imply about the two threads. *)
DoneInv ==
  \A o \in Outs :
    /\ wdone[o] => done[o]
    /\ wpc[o] \in Leaving => done[o]
    /\ freed[o] => wpc[o] \in {"closeout", "exited"} \/ rpc = "exit"
    /\ wpc[o] \in {"faillock", "fail"} => gone[o]
    /\ done[o] /\ ~gone[o] => Ended
    /\ wpc[o] \in Leaving /\ ~gone[o] => wdone[o]
    /\ wpc[o] = "exited" => ~open[o]
    /\ ~open[o] => wpc[o] = "exited" \/ rpc = "exit"

(* The joining loop leaves only threads that have exited behind. *)
JoinInv ==
  /\ rpc \in {"finlock", "finish", "join"} =>
        \A o \in Outs : o < ri => wpc[o] = "exited"
  /\ rpc \in {"cleanup", "exit"} =>
        \A o \in Outs : o <= nspawned => wpc[o] = "exited"

(* The chunk is the end of what was read. *)
ChunkInv ==
  rpc \in {"lock", "append"} =>
    /\ Len(chunk) <= nin
    /\ chunk = SubSeq(Input, nin - Len(chunk) + 1, nin)

(* Where the bytes of output o are. *)
Data(o) ==
  /\ wpc[o] = "none" => sent[o] = <<>> /\ out[o] = <<>> /\ buf[o] = <<>>
  /\ wdone[o] /\ ~gone[o] => buf[o] = <<>>
  /\ wpc[o] \in Leaving /\ ~gone[o] => out[o] = <<>>
  /\ ~gone[o] => (sent[o] \o out[o]) \o buf[o] = Given(o)
  /\ sent[o] \in T!Prefixes(Taken)

DataInv == ChunkInv /\ \A o \in Outs : Data(o)

ControlInv == TypeOK /\ SpawnInv /\ MutexInv /\ DoneInv /\ JoinInv

IInv == ControlInv /\ DataInv
-----------------------------------------------------------------------------
(* Init establishes, and every step preserves, the types. *)
LEMMA TypeInit == Init => TypeOK
  BY ConsumersAssumption, ElasticAssumption DEF Init, TypeOK, Outs

LEMMA TypeStep == TypeOK /\ [Next]_vars => TypeOK'
  <1> SUFFICES ASSUME TypeOK, [Next]_vars PROVE TypeOK'
    OBVIOUS
  <1> USE DEF TypeOK
  <1>1. CASE CreateThread
    <2>1. nspawned' \in 0..N /\ ri' \in Nat \ {0}
      BY <1>1, ConsumersAssumption, ElasticAssumption DEF CreateThread
    <2> QED
      BY <1>1, <2>1 DEF CreateThread, sharedVars, consumerVars
  <1>2. CASE CreateThreadFails
    BY <1>2 DEF CreateThreadFails, sharedVars, writerVars, consumerVars
  <1>3. CASE ReadChunk
    <2>1. PICK n \in 1..MaxChunk :
             /\ nin + n <= Len(Input)
             /\ chunk' = SubSeq(Input, nin + 1, nin + n)
             /\ nin' = nin + n
      BY <1>3 DEF ReadChunk
    <2>2. nin' \in 0..Len(Input) /\ chunk' \in Seq(Byte)
      BY <2>1, ConsumersAssumption, ElasticAssumption
    <2> QED
      BY <1>3, <2>2 DEF ReadChunk, sharedVars, writerVars, consumerVars
  <1>4. CASE ReadEnd
    BY <1>4 DEF ReadEnd, sharedVars, writerVars, consumerVars
  <1>5. CASE ReaderLock
    BY <1>5 DEF ReaderLock, writerVars, consumerVars
  <1>6. CASE AppendChunk
    <2>1. buf' \in [Outs -> Seq(Byte)]
      <3>1. CASE ri \in Outs
        <4>1. buf[ri] \o chunk \in Seq(Byte)
          BY <3>1, ConcatProperties
        <4> QED
          BY <1>6, <3>1, <4>1 DEF AppendChunk
      <3>2. CASE ri \notin Outs
        <4>1. buf' = buf
          BY <1>6, <3>2 DEF AppendChunk
        <4> QED
          BY <4>1
      <3> QED
        BY <3>1, <3>2
    <2>2. wpc' \in [Outs -> {"none", "lock", "check", "wait", "wake", "flush",
                            "faillock", "fail", "free", "closeout", "exited"}]
      BY <1>6 DEF AppendChunk, Signal
    <2>3. ri' \in Nat \ {0} /\ rpc' \in {"read", "lock"}
      BY <1>6 DEF AppendChunk
    <2>4. mutex' \in [Outs -> {"free", "reader", "writer"}]
      BY <1>6 DEF AppendChunk
    <2> QED
      BY <1>6, <2>1, <2>2, <2>3, <2>4 DEF AppendChunk, consumerVars
  <1>7. CASE CloseInput
    BY <1>7 DEF CloseInput, sharedVars, writerVars, consumerVars
  <1>8. CASE FinishOutput
    BY <1>8 DEF FinishOutput, Signal, consumerVars
  <1>9. CASE JoinThread
    BY <1>9 DEF JoinThread, sharedVars, writerVars, consumerVars
  <1>10. CASE CleanupStates
    BY <1>10 DEF CleanupStates, consumerVars
  <1>11. ASSUME NEW o \in Outs, WriterStep(o) \/ SpuriousWakeup(o) \/ ConsumerStep(o)
         PROVE  TypeOK'
    <2>1. CASE WriterLock(o)
      BY <2>1 DEF WriterLock, readerVars, consumerVars
    <2>2. CASE WriterWait(o)
      BY <2>2 DEF WriterWait, readerVars, consumerVars
    <2>3. CASE TakeBuffer(o)
      BY <2>3 DEF TakeBuffer, readerVars, consumerVars
    <2>4. CASE WriteSome(o)
      <3>1. PICK n \in 1..Len(out[o]) :
              /\ sent' = [sent EXCEPT ![o] = @ \o SubSeq(out[o], 1, n)]
              /\ out' = [out EXCEPT ![o] = SubSeq(@, n + 1, Len(@))]
        BY <2>4 DEF WriteSome
      <3>2. SubSeq(out[o], 1, n) \in Seq(Byte) /\ SubSeq(out[o], n + 1, Len(out[o])) \in Seq(Byte)
        <4>1. out[o] \in Seq(Byte) /\ Len(out[o]) \in Nat
              /\ \A i \in 1..Len(out[o]) : out[o][i] \in Byte
          BY LenProperties, ElementOfSeq
        <4> QED
          BY <3>1, <4>1, SubSeqProperties
      <3>3. sent' \in [Outs -> Seq(Byte)] /\ out' \in [Outs -> Seq(Byte)]
        BY <3>1, <3>2
      <3> QED
        BY <2>4, <3>3 DEF WriteSome, readerVars, sharedVars, consumerVars
    <2>5. CASE FlushDone(o)
      BY <2>5 DEF FlushDone, readerVars, sharedVars, consumerVars
    <2>6. CASE FlushFails(o)
      BY <2>6 DEF FlushFails, readerVars, sharedVars, consumerVars
    <2>7. CASE SetMyselfDone(o)
      BY <2>7 DEF SetMyselfDone, readerVars, consumerVars
    <2>8. CASE FreeBuffer(o)
      BY <2>8 DEF FreeBuffer, readerVars, consumerVars
    <2>9. CASE CloseOutput(o)
      BY <2>9 DEF CloseOutput, readerVars, sharedVars, consumerVars
    <2>10. CASE SpuriousWakeup(o)
      BY <2>10 DEF SpuriousWakeup, readerVars, sharedVars, consumerVars
    <2>11. CASE Consume(o)
      BY <2>11 DEF Consume, ConsumerReads, readerVars, sharedVars, writerVars
    <2>12. CASE Hangup(o)
      BY <2>12 DEF Hangup, ConsumerHangsUp, readerVars, sharedVars, writerVars
    <2> QED
      BY <1>11, <2>1, <2>2, <2>3, <2>4, <2>5, <2>6, <2>7, <2>8, <2>9, <2>10,
         <2>11, <2>12 DEF WriterStep, ConsumerStep
  <1>12. CASE UNCHANGED vars
    BY <1>12 DEF vars, readerVars, sharedVars, writerVars, consumerVars
  <1> QED
    BY <1>1, <1>2, <1>3, <1>4, <1>5, <1>6, <1>7, <1>8, <1>9, <1>10, <1>11, <1>12
       DEF Next, ReaderStep, Terminated

(***************************************************************************)
(* Type correctness of every thread's state, whatever the interleaving.    *)
(***************************************************************************)
THEOREM TypeCorrect == Spec => []TypeOK
  BY TypeInit, TypeStep, PTL DEF Spec
-----------------------------------------------------------------------------
(* Every step preserves the control part of the invariant. *)
LEMMA ControlStep ==
  ASSUME ControlInv, TypeOK', Next \/ UNCHANGED vars
  PROVE  SpawnInv' /\ MutexInv' /\ DoneInv' /\ JoinInv'
  <1> USE DEF ControlInv, TypeOK, SpawnInv, MutexInv, DoneInv, JoinInv, Ended, Leaving
  <1>1. CASE CreateThread
    <2>5. ri \in Outs /\ \A o \in Outs : wpc'[o] = IF o = ri THEN "lock" ELSE wpc[o]
      BY <1>1, ConsumersAssumption, ElasticAssumption DEF CreateThread, Outs
    <2>1. SpawnInv'
      <3>1. /\ nspawned' = ri /\ ri' = ri + 1 /\ ri = nspawned + 1 /\ nin' = 0
            /\ rpc' = IF ri = N THEN "read" ELSE "create"
            /\ ri <= N /\ N \in Nat /\ nspawned \in Nat
        BY <1>1, ConsumersAssumption, ElasticAssumption DEF CreateThread
      <3>2. \A o \in Outs : o \in Nat
        BY DEF Outs
      <3>3. \A o \in Outs : wpc'[o] = "none" <=> o > nspawned'
        <4>1. ASSUME NEW o \in Outs PROVE wpc'[o] = "none" <=> o > ri
          <5>1. (wpc[o] = "none" <=> o > nspawned) /\ o \in Nat
            BY <3>2
          <5>2. CASE o = ri
            BY <3>1, <2>5, <5>2
          <5>3. CASE o # ri
            <6>1. wpc'[o] = wpc[o]
              BY <2>5, <5>3
            <6>2. o > nspawned <=> o > ri
              BY <3>1, <5>1, <5>3
            <6> QED
              BY <5>1, <6>1, <6>2
          <5> QED
            BY <5>2, <5>3
        <4> QED
          BY <3>1, <4>1
      <3> QED
        BY <3>1, <3>3
    <2>2. MutexInv'
      BY <1>1, ConsumersAssumption, ElasticAssumption DEF CreateThread, sharedVars, consumerVars, Outs
    <2>3. DoneInv'
      BY <1>1, ConsumersAssumption, ElasticAssumption DEF CreateThread, sharedVars, consumerVars, Outs
    <2>4. JoinInv'
      BY <1>1, ConsumersAssumption, ElasticAssumption DEF CreateThread, sharedVars, consumerVars, Outs
    <2> QED
      BY <2>1, <2>2, <2>3, <2>4
  <1>2. CASE CreateThreadFails
    BY <1>2 DEF CreateThreadFails, sharedVars, writerVars, consumerVars
  <1>3. CASE ReadChunk
    BY <1>3, ConsumersAssumption, ElasticAssumption DEF ReadChunk, sharedVars, writerVars, consumerVars
  <1>4. CASE ReadEnd
    BY <1>4 DEF ReadEnd, sharedVars, writerVars, consumerVars
  <1>5. CASE ReaderLock
    BY <1>5 DEF ReaderLock, writerVars, consumerVars
  <1>6. CASE AppendChunk
    <2>1. SpawnInv'
      BY <1>6, ConsumersAssumption, ElasticAssumption DEF AppendChunk, Signal, consumerVars
    <2>2. MutexInv'
      BY <1>6, ConsumersAssumption, ElasticAssumption DEF AppendChunk, Signal, consumerVars
    <2>3. DoneInv'
      BY <1>6, ConsumersAssumption, ElasticAssumption DEF AppendChunk, Signal, consumerVars
    <2>4. JoinInv'
      BY <1>6, ConsumersAssumption, ElasticAssumption DEF AppendChunk, Signal, consumerVars
    <2> QED
      BY <2>1, <2>2, <2>3, <2>4
  <1>7. CASE CloseInput
    BY <1>7 DEF CloseInput, sharedVars, writerVars, consumerVars, Outs
  <1>8. CASE FinishOutput
    <2>5. ri \in Outs
      BY <1>8, ConsumersAssumption, ElasticAssumption DEF FinishOutput, Outs
    <2>6. /\ \A o \in Outs : wpc'[o] = wpc[o] \/ (wpc[o] = "wait" /\ wpc'[o] = "wake")
          /\ \A o \in Outs : done'[o] <=> (done[o] \/ o = ri)
      <3>1. CASE done[ri]
        BY <1>8, <2>5, <3>1 DEF FinishOutput
      <3>2. CASE ~done[ri]
        <4>1. done' = [done EXCEPT ![ri] = TRUE]
          BY <1>8, <3>2 DEF FinishOutput
        <4>2. wpc' = wpc \/ (wpc[ri] = "wait" /\ wpc' = [wpc EXCEPT ![ri] = "wake"])
          BY <1>8, <3>2 DEF FinishOutput, Signal
        <4>3. \A o \in Outs : done'[o] <=> (done[o] \/ o = ri)
          BY <2>5, <4>1
        <4>4. \A o \in Outs : wpc'[o] = wpc[o] \/ (wpc[o] = "wait" /\ wpc'[o] = "wake")
          <5>1. CASE wpc' = wpc
            BY <5>1
          <5>2. CASE wpc[ri] = "wait" /\ wpc' = [wpc EXCEPT ![ri] = "wake"]
            <6>1. \A o \in Outs : wpc'[o] = IF o = ri THEN "wake" ELSE wpc[o]
              BY <2>5, <5>2
            <6> QED
              BY <5>2, <6>1
          <5> QED
            BY <4>2, <5>1, <5>2
        <4> QED
          BY <4>3, <4>4
      <3> QED
        BY <3>1, <3>2
    <2>1. SpawnInv'
      BY <1>8, <2>5, <2>6 DEF FinishOutput, consumerVars
    <2>2. MutexInv'
      BY <1>8, <2>5, <2>6 DEF FinishOutput, consumerVars
    <2>3. DoneInv'
      BY <1>8, <2>5, <2>6 DEF FinishOutput, consumerVars
    <2>4. JoinInv'
      BY <1>8, <2>5, <2>6 DEF FinishOutput, consumerVars
    <2> QED
      BY <2>1, <2>2, <2>3, <2>4
  <1>9. CASE JoinThread
    BY <1>9 DEF JoinThread, sharedVars, writerVars, consumerVars, Outs
  <1>10. CASE CleanupStates
    BY <1>10 DEF CleanupStates, consumerVars
  <1>11. ASSUME NEW o \in Outs, WriterStep(o) \/ SpuriousWakeup(o) \/ ConsumerStep(o)
         PROVE  SpawnInv' /\ MutexInv' /\ DoneInv' /\ JoinInv'
    <2>1. CASE WriterLock(o)
      BY <2>1 DEF WriterLock, readerVars, consumerVars
    <2>2. CASE WriterWait(o)
      BY <2>2 DEF WriterWait, readerVars, consumerVars
    <2>3. CASE TakeBuffer(o)
      BY <2>3 DEF TakeBuffer, readerVars, consumerVars
    <2>4. CASE WriteSome(o)
      BY <2>4 DEF WriteSome, readerVars, sharedVars, consumerVars
    <2>5. CASE FlushDone(o)
      BY <2>5 DEF FlushDone, readerVars, sharedVars, consumerVars
    <2>6. CASE FlushFails(o)
      BY <2>6 DEF FlushFails, readerVars, sharedVars, consumerVars
    <2>7. CASE SetMyselfDone(o)
      BY <2>7 DEF SetMyselfDone, readerVars, consumerVars
    <2>8. CASE FreeBuffer(o)
      BY <2>8 DEF FreeBuffer, readerVars, consumerVars
    <2>9. CASE CloseOutput(o)
      BY <2>9 DEF CloseOutput, readerVars, sharedVars, consumerVars
    <2>10. CASE SpuriousWakeup(o)
      BY <2>10 DEF SpuriousWakeup, readerVars, sharedVars, consumerVars
    <2>11. CASE Consume(o)
      BY <2>11 DEF Consume, ConsumerReads, readerVars, sharedVars, writerVars
    <2>12. CASE Hangup(o)
      BY <2>12 DEF Hangup, ConsumerHangsUp, readerVars, sharedVars, writerVars
    <2> QED
      BY <1>11, <2>1, <2>2, <2>3, <2>4, <2>5, <2>6, <2>7, <2>8, <2>9, <2>10,
         <2>11, <2>12 DEF WriterStep, ConsumerStep
  <1>12. CASE UNCHANGED vars
    BY <1>12 DEF vars, readerVars, sharedVars, writerVars, consumerVars
  <1> QED
    BY <1>1, <1>2, <1>3, <1>4, <1>5, <1>6, <1>7, <1>8, <1>9, <1>10, <1>11, <1>12
       DEF Next, ReaderStep, Terminated
-----------------------------------------------------------------------------
(* Prefixes of the input. *)
LEMMA TeePrefixes == ASSUME NEW s PROVE T!Prefixes(s) = PrefixesOf(s)
  BY DEF T!Prefixes, PrefixesOf

LEMMA PrefixOfBytes ==
  ASSUME NEW s \in Seq(Byte), NEW t \in Seq(Byte)
  PROVE  s \in T!Prefixes(s \o t)
  BY PrefixOfConcat, TeePrefixes

LEMMA BytesAssociate ==
  ASSUME NEW a \in Seq(Byte), NEW b \in Seq(Byte), NEW c \in Seq(Byte)
  PROVE  (a \o b) \o c = a \o (b \o c)
  BY ConcatAssociative

LEMMA PrefixOfInput ==
  ASSUME NEW m \in 0..Len(Input), NEW n \in 0..m
  PROVE  /\ SubSeq(Input, 1, m) \in Seq(Byte)
         /\ SubSeq(Input, n + 1, m) \in Seq(Byte)
         /\ SubSeq(Input, 1, m) = SubSeq(Input, 1, n) \o SubSeq(Input, n + 1, m)
         /\ Len(SubSeq(Input, n + 1, m)) = m - n
         /\ SubSeq(Input, 1, n) \in T!Prefixes(SubSeq(Input, 1, m))
  BY ElasticAssumption, PrefixGrows, TeePrefixes
-----------------------------------------------------------------------------
(* What the main thread has read, and what it has given to an output.      *)
LEMMA GivenFacts ==
  ASSUME TypeOK, ChunkInv, NEW o \in Outs
  PROVE  /\ Taken \in Seq(Byte)
         /\ Given(o) \in Seq(Byte)
         /\ Given(o) \in T!Prefixes(Taken)
         /\ Awaits(o) => Taken = Given(o) \o chunk
  <1>1. nin \in 0..Len(Input) /\ Len(Input) \in Nat /\ chunk \in Seq(Byte)
        /\ Len(chunk) \in Nat
    BY ConsumersAssumption, ElasticAssumption, LenProperties DEF TypeOK
  <1>2. Taken \in Seq(Byte) /\ Taken \in T!Prefixes(Taken)
    BY <1>1, PrefixOfInput DEF Taken
  <1>3. CASE Awaits(o)
    <2>1. Len(chunk) <= nin /\ chunk = SubSeq(Input, nin - Len(chunk) + 1, nin)
      BY <1>3 DEF Awaits, ChunkInv
    <2>2. nin - Len(chunk) \in 0..nin /\ nin - Len(chunk) \in 0..Len(Input)
      BY <1>1, <2>1
    <2>3. Given(o) = SubSeq(Input, 1, nin - Len(chunk))
      BY <1>3 DEF Given
    <2> DEFINE k == nin - Len(chunk)
    <2>4. k \in 0..nin /\ k + 1 = nin - Len(chunk) + 1 /\ nin \in 0..Len(Input)
      BY <1>1, <2>2
    <2>5. /\ Taken \in Seq(Byte) /\ chunk = SubSeq(Input, k + 1, nin)
          /\ Given(o) = SubSeq(Input, 1, k) /\ Taken = SubSeq(Input, 1, nin)
      BY <1>2, <2>1, <2>3, <2>4 DEF Taken
    <2>6. k \in 0..Len(Input) /\ k \in 0..k
      BY <2>2, <2>4
    <2> HIDE DEF k
    <2>7. Given(o) \in Seq(Byte)
      BY <2>5, <2>6, PrefixOfInput
    <2> QED
      BY <2>4, <2>5, <2>7, PrefixOfInput
  <1>4. CASE ~Awaits(o)
    BY <1>2, <1>4 DEF Given
  <1> QED
    BY <1>3, <1>4

(* A step that moves no byte and leaves no thread half done keeps Data. *)
LEMMA DataUnchanged ==
  ASSUME NEW o \in Outs, Data(o),
         sent'[o] = sent[o], out'[o] = out[o], buf'[o] = buf[o],
         gone'[o] = gone[o], wdone'[o] = wdone[o],
         Taken' = Taken, Given(o)' = Given(o),
         wpc'[o] = "none" => wpc[o] = "none",
         wpc'[o] \in Leaving => wpc[o] \in Leaving \/ gone[o] \/ out[o] = <<>>
  PROVE  Data(o)'
  BY DEF Data

(* The steps of the main thread keep every byte where DataInv says it is. *)
LEMMA DataReaderStep ==
  ASSUME IInv, ReaderStep
  PROVE  DataInv'
  <1> USE DEF IInv, ControlInv, DataInv
  <1> SUFFICES ASSUME NEW o \in Outs PROVE ChunkInv' /\ Data(o)'
    <2>1. 1 \in Outs
      BY ConsumersAssumption, ElasticAssumption DEF Outs
    <2> QED
      BY <2>1
  <1>1. Outs \subseteq Nat /\ N \in Nat /\ o <= N
    BY ConsumersAssumption, ElasticAssumption DEF Outs
  <1>2. CASE CreateThread
    <2>1. ChunkInv' /\ Taken' = Taken /\ Given(o)' = Given(o)
      BY <1>2 DEF CreateThread, ChunkInv, Taken, Given, Awaits
    <2>2. wpc' = [wpc EXCEPT ![ri] = "lock"]
      BY <1>2 DEF CreateThread
    <2>3. wpc'[o] = "lock" \/ wpc'[o] = wpc[o]
      BY <2>2 DEF TypeOK
    <2> QED
      BY <1>2, <2>1, <2>3, DataUnchanged DEF CreateThread, sharedVars, consumerVars, Leaving
  <1>3. CASE CreateThreadFails \/ ReadEnd \/ ReaderLock \/ CloseInput \/ JoinThread
    <2>1. UNCHANGED <<nin, chunk, buf, writerVars, consumerVars>>
      BY <1>3 DEF CreateThreadFails, ReadEnd, ReaderLock, CloseInput, JoinThread, sharedVars
    <2>2. (rpc \in {"lock", "append"} <=> rpc' \in {"lock", "append"})
          /\ (rpc \in {"lock", "append"} => ri' = ri)
      BY <1>3 DEF CreateThreadFails, ReadEnd, ReaderLock, CloseInput, JoinThread
    <2>3. ChunkInv' /\ Taken' = Taken /\ Given(o)' = Given(o)
      BY <2>1, <2>2 DEF ChunkInv, Taken, Given, Awaits
    <2> QED
      BY <2>1, <2>3, DataUnchanged DEF writerVars, consumerVars
  <1>4. CASE ReadChunk
    <2>1. PICK n \in 1..MaxChunk :
             /\ nin + n <= Len(Input)
             /\ chunk' = SubSeq(Input, nin + 1, nin + n)
             /\ nin' = nin + n
      BY <1>4 DEF ReadChunk
    <2>2. nin' \in 0..Len(Input) /\ nin \in 0..nin' /\ nin \in Nat /\ n \in Nat
      BY <2>1, ConsumersAssumption, ElasticAssumption DEF TypeOK
    <2>3. Len(chunk') = n /\ Taken \in T!Prefixes(Taken') /\ Taken' \in Seq(Byte)
      BY <2>1, <2>2, PrefixOfInput DEF Taken
    <2>4. rpc' = "lock" /\ ri' = 1 /\ rpc = "read"
          /\ UNCHANGED <<buf, wpc, wdone, out, sent, gone>>
      BY <1>4 DEF ReadChunk, sharedVars, writerVars, consumerVars
    <2>5. ChunkInv'
      BY <2>1, <2>2, <2>3 DEF ChunkInv
    <2>6. Given(o) = Taken /\ Given(o)' = Taken
      <3>1. Awaits(o)' /\ ~Awaits(o)
        BY <1>1, <2>4 DEF Awaits, Outs
      <3>2. nin' - Len(chunk') = nin
        BY <2>1, <2>2, <2>3
      <3> QED
        BY <3>1, <3>2 DEF Given, Taken
    <2>7. sent[o] \in T!Prefixes(Taken')
      BY <2>3, PrefixTransitive, TeePrefixes DEF Data
    <2> QED
      BY <2>4, <2>5, <2>6, <2>7 DEF Data
  <1>5. CASE AppendChunk
    <2>1. /\ rpc = "append" /\ nin' = nin /\ chunk' = chunk /\ ri' = ri + 1
          /\ rpc' = IF ri = N THEN "read" ELSE "lock"
          /\ UNCHANGED <<wdone, out, sent, gone>>
          /\ ri \in Nat /\ ri <= N /\ ri \in Outs
      BY <1>5, ConsumersAssumption, ElasticAssumption DEF AppendChunk, consumerVars, TypeOK, SpawnInv, Outs
    <2>2. ChunkInv' /\ Taken' = Taken
      BY <2>1 DEF ChunkInv, Taken
    <2>3. (wpc'[o] = "none" <=> wpc[o] = "none") /\ (wpc'[o] \in Leaving <=> wpc[o] \in Leaving)
      <3>1. wpc' = wpc \/ (wpc[ri] = "wait" /\ wpc' = [wpc EXCEPT ![ri] = "wake"])
        BY <1>5 DEF AppendChunk, Signal
      <3>2. CASE wpc' = wpc
        BY <3>2
      <3>3. CASE wpc[ri] = "wait" /\ wpc' = [wpc EXCEPT ![ri] = "wake"]
        BY <3>3 DEF Leaving, TypeOK
      <3> QED
        BY <3>1, <3>2, <3>3
    <2>4. CASE o = ri
      <3>1. Given(o)' = Taken /\ Taken = Given(o) \o chunk
        <4>1. Awaits(o) /\ ~Awaits(o)'
          BY <1>1, <2>1, <2>4 DEF Awaits
        <4> QED
          BY <2>2, <4>1, GivenFacts DEF Given
      <3>2. CASE ~done[ri]
        <4>1. buf'[o] = buf[o] \o chunk
          <5>1. buf' = [buf EXCEPT ![ri] = buf[ri] \o chunk]
            BY <1>5, <3>2 DEF AppendChunk
          <5> QED
            BY <2>4, <5>1 DEF TypeOK
        <4>2. ~wdone[o] /\ wpc[o] # "none" /\ wpc[o] \notin Leaving
          <5>1. nspawned = N
            BY <2>1 DEF SpawnInv
          <5>2. wpc[o] # "none"
            BY <1>1, <5>1 DEF SpawnInv
          <5>3. ~wdone[o] /\ wpc[o] \notin Leaving
            BY <2>4, <3>2 DEF DoneInv
          <5> QED
            BY <5>2, <5>3
        <4>3. ~gone[o] => (sent[o] \o out[o]) \o (buf[o] \o chunk) = Taken
          <5>1. sent[o] \in Seq(Byte) /\ out[o] \in Seq(Byte) /\ buf[o] \in Seq(Byte)
                /\ chunk \in Seq(Byte)
            BY DEF TypeOK
          <5>2. sent[o] \o out[o] \in Seq(Byte)
            BY <5>1, ConcatProperties
          <5>3. (sent[o] \o out[o]) \o (buf[o] \o chunk)
                  = ((sent[o] \o out[o]) \o buf[o]) \o chunk
            BY <5>1, <5>2, BytesAssociate
          <5> QED
            BY <3>1, <5>3 DEF Data
        <4> QED
          BY <2>1, <2>2, <2>3, <3>1, <4>1, <4>2, <4>3 DEF Data
      <3>3. CASE done[ri]
        <4>1. gone[o]
          BY <2>1, <2>4, <3>3 DEF DoneInv, Ended
        <4>2. buf' = buf
          BY <1>5, <3>3 DEF AppendChunk
        <4> QED
          BY <2>1, <2>2, <2>3, <4>1, <4>2 DEF Data
      <3> QED
        BY <3>2, <3>3
    <2>5. CASE o # ri
      <3>1. buf'[o] = buf[o]
        BY <1>5, <2>5 DEF AppendChunk, TypeOK
      <3>2. Awaits(o)' <=> Awaits(o)
        BY <1>1, <2>1, <2>5 DEF Awaits
      <3>3. Given(o)' = Given(o)
        BY <2>1, <2>2, <3>2 DEF Given
      <3> QED
        BY <2>1, <2>2, <2>3, <3>1, <3>3, DataUnchanged
    <2> QED
      BY <2>4, <2>5
  <1>6. CASE FinishOutput
    <2>1. UNCHANGED <<nin, chunk, buf, wdone, out, sent, gone>>
          /\ rpc = "finish" /\ rpc' = "join" /\ ri \in Outs
      BY <1>6, ConsumersAssumption, ElasticAssumption DEF FinishOutput, consumerVars, SpawnInv, TypeOK, Outs
    <2>2. ChunkInv' /\ Taken' = Taken /\ Given(o)' = Given(o)
      BY <2>1 DEF ChunkInv, Taken, Given, Awaits
    <2>3. (wpc'[o] = "none" => wpc[o] = "none") /\ (wpc'[o] \in Leaving => wpc[o] \in Leaving)
      <3>1. wpc' = wpc \/ (wpc[ri] = "wait" /\ wpc' = [wpc EXCEPT ![ri] = "wake"])
        BY <1>6 DEF FinishOutput, Signal
      <3>2. CASE wpc' = wpc
        BY <3>2
      <3>3. CASE wpc[ri] = "wait" /\ wpc' = [wpc EXCEPT ![ri] = "wake"]
        BY <3>3 DEF Leaving, TypeOK
      <3> QED
        BY <3>1, <3>2, <3>3
    <2> QED
      BY <2>1, <2>2, <2>3, DataUnchanged
  <1>7. CASE CleanupStates
    <2>1. UNCHANGED <<nin, chunk, wpc, wdone, out, sent, gone>>
          /\ rpc = "cleanup" /\ rpc' = "exit" /\ buf'[o] = <<>>
      BY <1>7 DEF CleanupStates, consumerVars
    <2>2. ChunkInv' /\ Taken' = Taken /\ Given(o)' = Given(o)
      BY <2>1 DEF ChunkInv, Taken, Given, Awaits
    <2>3. gone[o] \/ buf[o] = <<>>
      <3>1. CASE o <= nspawned
        BY <2>1, <3>1 DEF JoinInv, DoneInv, Leaving, Data
      <3>2. CASE ~(o <= nspawned)
        <4>1. wpc[o] = "none"
          BY <1>1, <3>2 DEF SpawnInv, TypeOK
        <4> QED
          BY <4>1 DEF Data
      <3> QED
        BY <3>1, <3>2
    <2> QED
      BY <2>1, <2>2, <2>3 DEF Data
  <1> QED
    BY <1>2, <1>3, <1>4, <1>5, <1>6, <1>7 DEF IInv, ReaderStep
-----------------------------------------------------------------------------
(* Any other step keeps what the main thread has read and given.           *)
LEMMA ReaderUnchanged ==
  ASSUME UNCHANGED readerVars, NEW o \in Outs
  PROVE  Taken' = Taken /\ Given(o)' = Given(o) /\ (ChunkInv => ChunkInv')
  BY DEF readerVars, Taken, Given, Awaits, ChunkInv

(* The steps of a writing thread and of its consumer keep every byte too.  *)
LEMMA DataOtherStep ==
  ASSUME IInv, NEW p \in Outs, WriterStep(p) \/ SpuriousWakeup(p) \/ ConsumerStep(p)
  PROVE  DataInv'
  <1> USE DEF IInv, ControlInv, DataInv
  <1>1. UNCHANGED readerVars
    BY DEF WriterStep, ConsumerStep, WriterLock, WriterWait, TakeBuffer, WriteSome,
           FlushDone, FlushFails, SetMyselfDone, FreeBuffer, CloseOutput,
           SpuriousWakeup, Consume, ConsumerReads, Hangup, ConsumerHangsUp
  <1>2. ASSUME NEW o \in Outs, o # p PROVE Data(o)'
    <2>1. /\ sent'[o] = sent[o] /\ out'[o] = out[o] /\ buf'[o] = buf[o]
          /\ gone'[o] = gone[o] /\ wdone'[o] = wdone[o] /\ wpc'[o] = wpc[o]
      BY <1>2 DEF WriterStep, ConsumerStep, WriterLock, WriterWait, TakeBuffer, WriteSome,
           FlushDone, FlushFails, SetMyselfDone, FreeBuffer, CloseOutput,
           SpuriousWakeup, Consume, ConsumerReads, Hangup, ConsumerHangsUp, TypeOK, sharedVars, writerVars, consumerVars
    <2> QED
      BY <1>1, <2>1, ReaderUnchanged, DataUnchanged
  <1>3. Data(p)'
    <2>1. CASE WriterLock(p) \/ WriterWait(p) \/ SetMyselfDone(p) \/ SpuriousWakeup(p)
      <3>1. /\ UNCHANGED <<sent, out, buf, gone, wdone>>
            /\ wpc'[p] # "none" /\ (wpc'[p] \in Leaving => wpc[p] = "fail")
        BY <2>1 DEF WriterLock, WriterWait, SetMyselfDone, SpuriousWakeup, TypeOK,
                    sharedVars, consumerVars, Leaving
      <3> QED
        BY <1>1, <3>1, ReaderUnchanged, DataUnchanged DEF DoneInv
    <2>2. CASE FlushDone(p) \/ FlushFails(p)
      <3>1. /\ UNCHANGED <<sent, out, buf, gone, wdone>>
            /\ wpc'[p] # "none" /\ (out[p] = <<>> \/ gone[p])
        BY <2>2 DEF FlushDone, FlushFails, TypeOK, sharedVars, consumerVars
      <3> QED
        BY <1>1, <3>1, ReaderUnchanged, DataUnchanged
    <2>3. CASE Consume(p)
      BY <1>1, <2>3, ReaderUnchanged, DataUnchanged DEF Consume, ConsumerReads, sharedVars, writerVars
    <2>4. CASE Hangup(p)
      <3>1. gone'[p] /\ UNCHANGED <<sent, out, buf, wdone, wpc>>
        BY <2>4 DEF Hangup, ConsumerHangsUp, sharedVars, writerVars, TypeOK
      <3> QED
        BY <1>1, <3>1, ReaderUnchanged DEF Data
    <2>5. CASE FreeBuffer(p)
      <3>1. UNCHANGED <<sent, out, wdone, gone>> /\ buf'[p] = <<>>
            /\ wpc[p] = "free" /\ wpc'[p] = "closeout"
        BY <2>5 DEF FreeBuffer, TypeOK, consumerVars
      <3>2. gone[p] \/ (buf[p] = <<>> /\ out[p] = <<>>)
        BY <3>1 DEF DoneInv, Leaving, Data
      <3> QED
        BY <1>1, <3>1, <3>2, ReaderUnchanged DEF Data
    <2>6. CASE CloseOutput(p)
      <3>1. UNCHANGED <<sent, buf, wdone, gone>> /\ out'[p] = <<>>
            /\ wpc[p] = "closeout" /\ wpc'[p] = "exited"
        BY <2>6 DEF CloseOutput, TypeOK, consumerVars, sharedVars
      <3>2. gone[p] \/ out[p] = <<>>
        BY <3>1 DEF Leaving, Data
      <3> QED
        BY <1>1, <3>1, <3>2, ReaderUnchanged DEF Data
    <2>7. CASE TakeBuffer(p)
      <3>1. UNCHANGED <<sent, gone>> /\ buf'[p] = <<>> /\ wpc'[p] = "flush"
            /\ out'[p] = out[p] \o buf[p]
        BY <2>7 DEF TakeBuffer, TypeOK, consumerVars
      <3>2. sent[p] \in Seq(Byte) /\ out[p] \in Seq(Byte) /\ buf[p] \in Seq(Byte)
        BY DEF TypeOK
      <3>3. (sent[p] \o out[p]) \o buf[p] = sent[p] \o (out[p] \o buf[p])
        BY <3>2, BytesAssociate
      <3>4. sent[p] \o (out[p] \o buf[p]) \in Seq(Byte)
        BY <3>2, ConcatProperties
      <3>5. (sent[p] \o (out[p] \o buf[p])) \o <<>> = sent[p] \o (out[p] \o buf[p])
        BY <3>4, ConcatEmptySeq
      <3>6. wpc'[p] # "none" /\ wpc'[p] \notin Leaving
        BY <3>1 DEF Leaving
      <3> QED
        BY <1>1, <3>1, <3>3, <3>5, <3>6, ReaderUnchanged DEF Data
    <2>8. CASE WriteSome(p)
      <3>1. PICK n \in 1..Len(out[p]) :
              /\ sent' = [sent EXCEPT ![p] = @ \o SubSeq(out[p], 1, n)]
              /\ out' = [out EXCEPT ![p] = SubSeq(@, n + 1, Len(@))]
        BY <2>8 DEF WriteSome
      <3>2. UNCHANGED <<buf, wdone, gone, wpc>> /\ wpc[p] = "flush" /\ ~gone[p]
        BY <2>8 DEF WriteSome, consumerVars, sharedVars
      <3>3. sent[p] \in Seq(Byte) /\ out[p] \in Seq(Byte) /\ buf[p] \in Seq(Byte)
        BY DEF TypeOK
      <3>4. n \in 0..Len(out[p])
        BY <3>1, <3>3, LenProperties
      <3> DEFINE head == SubSeq(out[p], 1, n)
      <3> DEFINE rest == SubSeq(out[p], n + 1, Len(out[p]))
      <3>5. head \in Seq(Byte) /\ rest \in Seq(Byte) /\ out[p] = head \o rest
        BY <3>3, <3>4, PrefixSplit
      <3>6. sent'[p] = sent[p] \o head /\ out'[p] = rest
        BY <3>1 DEF TypeOK
      <3> HIDE DEF head, rest
      <3>7. (sent[p] \o head) \o rest = sent[p] \o out[p]
        <4>1. (sent[p] \o head) \o rest = sent[p] \o (head \o rest)
          BY <3>3, <3>5, BytesAssociate
        <4> QED
          BY <3>5, <4>1
      <3>8. ((sent[p] \o head) \o rest) \o buf[p] = Given(p)
        BY <3>2, <3>7 DEF Data
      <3>9. (sent[p] \o head) \in T!Prefixes(Taken)
        <4>1. sent[p] \o head \in Seq(Byte) /\ rest \o buf[p] \in Seq(Byte)
          BY <3>3, <3>5, ConcatProperties
        <4>2. ((sent[p] \o head) \o rest) \o buf[p] = (sent[p] \o head) \o (rest \o buf[p])
          <5> DEFINE front == sent[p] \o head
          <5>1. front \in Seq(Byte)
            BY <4>1
          <5> HIDE DEF front
          <5>2. (front \o rest) \o buf[p] = front \o (rest \o buf[p])
            BY <3>3, <3>5, <5>1, BytesAssociate
          <5> QED
            BY <5>2 DEF front
        <4>3. sent[p] \o head \in T!Prefixes(Given(p))
          BY <3>8, <4>1, <4>2, PrefixOfBytes
        <4> QED
          BY <4>3, GivenFacts, PrefixTransitive, TeePrefixes
      <3>10. wpc'[p] # "none" /\ wpc'[p] \notin Leaving /\ (wdone'[p] => buf'[p] = <<>>)
        BY <3>2 DEF Leaving, Data
      <3> QED
        BY <1>1, <3>2, <3>6, <3>8, <3>9, <3>10, ReaderUnchanged DEF Data
    <2> QED
      BY <2>1, <2>2, <2>3, <2>4, <2>5, <2>6, <2>7, <2>8 DEF WriterStep, ConsumerStep
  <1> QED
    BY <1>1, <1>2, <1>3, ReaderUnchanged
-----------------------------------------------------------------------------
(***************************************************************************)
(* The inductive invariant: who holds which mutex, which threads exist,    *)
(* what the done flags imply and where every byte is.                      *)
(***************************************************************************)
LEMMA InvInit == Init => IInv
  <1> SUFFICES ASSUME Init PROVE IInv
    OBVIOUS
  <1>1. TypeOK
    BY TypeInit
  <1>2. SpawnInv /\ MutexInv /\ DoneInv /\ JoinInv
    BY ConsumersAssumption, ElasticAssumption DEF Init, SpawnInv, MutexInv, DoneInv, JoinInv, Leaving, Outs
  <1>3. Taken = <<>> /\ \A o \in Outs : Given(o) = <<>>
    BY SubSeqEmpty DEF Init, Taken, Given, Awaits
  <1>4. <<>> \in T!Prefixes(<<>>)
    BY EmptySeq, SubSeqEmpty DEF T!Prefixes
  <1>5. (<<>> \o <<>>) \o <<>> = <<>>
    BY ConcatEmptySeq, EmptySeq
  <1>6. DataInv
    BY <1>3, <1>4, <1>5 DEF Init, DataInv, ChunkInv, Data
  <1> QED
    BY <1>1, <1>2, <1>6 DEF IInv, ControlInv

LEMMA InvStep == IInv /\ [Next]_vars => IInv'
  <1> SUFFICES ASSUME IInv, [Next]_vars PROVE IInv'
    OBVIOUS
  <1>1. TypeOK'
    BY TypeStep DEF IInv, ControlInv
  <1>2. SpawnInv' /\ MutexInv' /\ DoneInv' /\ JoinInv'
    BY <1>1, ControlStep DEF IInv
  <1>3. DataInv'
    <2>1. CASE UNCHANGED vars
      BY <2>1 DEF IInv, DataInv, ChunkInv, Data, Given, Awaits, Taken, vars,
                  readerVars, sharedVars, writerVars, consumerVars
    <2>2. CASE ReaderStep
      BY <2>2, DataReaderStep
    <2>3. CASE \E o \in Outs : WriterStep(o) \/ SpuriousWakeup(o) \/ ConsumerStep(o)
      BY <2>3, DataOtherStep
    <2> QED
      BY <2>1, <2>2, <2>3 DEF Next, Terminated
  <1> QED
    BY <1>1, <1>2, <1>3 DEF IInv, ControlInv

THEOREM InvCorrect == Spec => []IInv
  BY InvInit, InvStep, PTL DEF Spec

(***************************************************************************)
(* The main thread never appends to a buffer its writer has freed.         *)
(***************************************************************************)
THEOREM AppendsToLiveBuffers == Spec => []NoAppendAfterFree
  <1>1. IInv => NoAppendAfterFree
    BY ConsumersAssumption, ElasticAssumption DEF IInv, ControlInv, TypeOK, SpawnInv, DoneInv, Outs, Leaving,
       NoAppendAfterFree
  <1> QED
    BY <1>1, InvCorrect, PTL

(***************************************************************************)
(* States are cleaned up only once every writing thread has exited.        *)
(***************************************************************************)
THEOREM CleansUpAfterJoin == Spec => []CleanupAfterJoin
  <1>1. IInv => CleanupAfterJoin
    BY ConsumersAssumption, ElasticAssumption DEF IInv, ControlInv, TypeOK, SpawnInv, JoinInv, Outs,
       CleanupAfterJoin
  <1> QED
    BY <1>1, InvCorrect, PTL
-----------------------------------------------------------------------------
(* Every step of the command is a step of Tee, or changes nothing Tee sees. *)
LEMMA StepImplementsTee ==
  IInv /\ IInv' /\ [Next]_vars => [T!TeeNext]_(T!teeVars)
  <1> SUFFICES ASSUME IInv, IInv', [Next]_vars, UNCHANGED T!teeVars => FALSE
               PROVE  T!TeeNext
    OBVIOUS
  <1> USE DEF T!teeVars
  <1>1. CASE CreateThread \/ ReaderLock \/ AppendChunk \/ CloseInput \/ FinishOutput
             \/ JoinThread
    <2>1. UNCHANGED <<nin, sent, open, gone>>
      BY <1>1 DEF CreateThread, ReaderLock, AppendChunk, CloseInput, FinishOutput,
                  JoinThread, writerVars, consumerVars
    <2>2. Ended' = Ended
      BY <1>1 DEF CreateThread, ReaderLock, AppendChunk, CloseInput, FinishOutput,
                  JoinThread, Ended
    <2> QED
      BY <2>1, <2>2
  <1>2. CASE CreateThreadFails \/ ReadEnd
    <2>1. UNCHANGED <<nin, sent, open, gone>> /\ Ended' = TRUE
      BY <1>2 DEF CreateThreadFails, ReadEnd, writerVars, consumerVars, Ended
    <2>2. T!TeeEnd
      BY <2>1 DEF T!TeeEnd
    <2> QED
      BY <2>2 DEF T!TeeNext
  <1>3. CASE ReadChunk
    <2>1. PICK n \in 1..MaxChunk : nin + n <= Len(Input) /\ nin' = nin + n
      BY <1>3 DEF ReadChunk
    <2>2. nin' \in 0..Len(Input) /\ nin \in 0..nin'
      BY <2>1, ConsumersAssumption, ElasticAssumption DEF IInv, ControlInv, TypeOK
    <2>3. SubSeq(Input, 1, nin)' \in Seq(Byte)
          /\ SubSeq(Input, 1, nin) \in T!Prefixes(SubSeq(Input, 1, nin)')
      BY <2>2, PrefixOfInput
    <2>4. ~Ended /\ Ended' \in BOOLEAN /\ UNCHANGED <<sent, open, gone>>
      BY <1>3 DEF ReadChunk, Ended, writerVars, consumerVars
    <2>5. T!TeeTake
      BY <2>3, <2>4 DEF T!TeeTake
    <2> QED
      BY <2>5 DEF T!TeeNext
  <1>4. CASE CleanupStates
    <2>1. UNCHANGED <<nin, sent, gone>> /\ Ended' = Ended /\ Ended /\ rpc = "cleanup"
          /\ open' = [o \in Outs |-> FALSE]
      BY <1>4 DEF CleanupStates, consumerVars, Ended
    <2> DEFINE S == {o \in Outs : open[o]}
    <2>2. ASSUME NEW o \in S PROVE gone[o] \/ sent[o] = SubSeq(Input, 1, nin)
      <3>1. nspawned < o /\ nspawned < N
        BY <2>1, ConsumersAssumption, ElasticAssumption DEF IInv, ControlInv, TypeOK, JoinInv, DoneInv, Outs
      <3>2. wpc[o] = "none" /\ nin = 0
        BY <3>1 DEF IInv, ControlInv, SpawnInv
      <3>3. sent[o] = <<>> /\ SubSeq(Input, 1, nin) = <<>>
        <4>1. SubSeq(Input, 1, 0) = <<>>
          BY SubSeqEmpty
        <4>2. Data(o)
          BY DEF IInv, DataInv
        <4> QED
          BY <3>2, <4>1, <4>2 DEF Data
      <3> QED
        BY <3>3
    <2>3. S \in SUBSET {o \in Outs : gone[o] \/ (Ended /\ sent[o] = SubSeq(Input, 1, nin))}
      BY <2>1, <2>2
    <2>4. open' = [o \in Outs |-> open[o] /\ o \notin S]
      BY <2>1
    <2> HIDE DEF S
    <2>5. T!TeeClose
      BY <2>1, <2>3, <2>4 DEF T!TeeClose
    <2> QED
      BY <2>5 DEF T!TeeNext
  <1>5. ASSUME NEW o \in Outs, WriterStep(o) \/ SpuriousWakeup(o) \/ ConsumerStep(o)
        PROVE  T!TeeNext
    <2>1. UNCHANGED nin /\ Ended' = Ended
      BY <1>5 DEF WriterStep, ConsumerStep, WriterLock, WriterWait, TakeBuffer, WriteSome,
           FlushDone, FlushFails, SetMyselfDone, FreeBuffer, CloseOutput,
           SpuriousWakeup, Consume, ConsumerReads, Hangup, ConsumerHangsUp, readerVars, Ended
    <2>2. CASE UNCHANGED <<sent, open, gone>>
      BY <2>1, <2>2
    <2>3. CASE WriteSome(o)
      <3>1. PICK n \in 1..Len(out[o]) : sent' = [sent EXCEPT ![o] = @ \o SubSeq(out[o], 1, n)]
        BY <2>3 DEF WriteSome
      <3>2. sent[o] \in Seq(Byte) /\ out[o] \in Seq(Byte) /\ n \in 0..Len(out[o])
        BY <3>1, LenProperties DEF IInv, ControlInv, TypeOK
      <3>3. sent'[o] = sent[o] \o SubSeq(out[o], 1, n)
        BY <3>1 DEF IInv, ControlInv, TypeOK
      <3>4. sent[o] \in T!Prefixes(sent'[o])
        BY <3>2, <3>3, PrefixSplit, PrefixOfBytes
      <3>5. sent'[o] \in T!Prefixes(SubSeq(Input, 1, nin))
        BY <2>1 DEF IInv, DataInv, Data, Taken
      <3>6. sent' = [sent EXCEPT ![o] = sent'[o]]
        BY <3>1, <3>3
      <3>7. open[o] /\ UNCHANGED <<open, gone>>
        <4>1. wpc[o] = "flush" /\ UNCHANGED <<open, gone>>
          BY <2>3 DEF WriteSome, consumerVars
        <4>2. rpc = "exit" => wpc[o] \in {"none", "exited"}
          BY ConsumersAssumption, ElasticAssumption DEF IInv, ControlInv, JoinInv, SpawnInv, TypeOK, Outs
        <4> QED
          BY <4>1, <4>2 DEF IInv, ControlInv, DoneInv, TypeOK
      <3>8. T!TeeDeliver(o)
        BY <2>1, <3>4, <3>5, <3>6, <3>7 DEF T!TeeDeliver
      <3> QED
        BY <3>8 DEF T!TeeNext
    <2>4. CASE CloseOutput(o)
      <3>1. UNCHANGED <<sent, gone>> /\ open' = [open EXCEPT ![o] = FALSE]
            /\ wpc[o] = "closeout"
        BY <2>4 DEF CloseOutput, consumerVars
      <3>2. gone[o] \/ (Ended /\ sent[o] = SubSeq(Input, 1, nin))
        <4>1. CASE ~gone[o]
          <5>1. Ended /\ wdone[o]
            BY <3>1, <4>1 DEF IInv, ControlInv, DoneInv, Leaving
          <5>2. out[o] = <<>> /\ buf[o] = <<>> /\ (sent[o] \o out[o]) \o buf[o] = Given(o)
            BY <3>1, <4>1, <5>1 DEF IInv, DataInv, Data, Leaving
          <5>3. Given(o) = SubSeq(Input, 1, nin)
            BY <5>1 DEF Given, Awaits, Ended, Taken
          <5>4. (sent[o] \o <<>>) \o <<>> = sent[o]
            BY ConcatEmptySeq DEF IInv, ControlInv, TypeOK
          <5> QED
            BY <5>1, <5>2, <5>3, <5>4
        <4> QED
          BY <4>1
      <3>3. {o} \in SUBSET {q \in Outs : gone[q] \/ (Ended /\ sent[q] = SubSeq(Input, 1, nin))}
        BY <3>2
      <3>4. open' = [q \in Outs |-> open[q] /\ q \notin {o}]
        BY <3>1 DEF IInv, ControlInv, TypeOK
      <3>5. T!TeeClose
        BY <2>1, <3>1, <3>3, <3>4 DEF T!TeeClose
      <3> QED
        BY <3>5 DEF T!TeeNext
    <2>5. CASE Hangup(o)
      <3>1. T!TeeHangup(o)
        BY <2>1, <2>5 DEF Hangup, ConsumerHangsUp, writerVars, T!TeeHangup
      <3> QED
        BY <3>1 DEF T!TeeNext
    <2>6. CASE WriterLock(o) \/ WriterWait(o) \/ SpuriousWakeup(o) \/ TakeBuffer(o)
               \/ FlushDone(o) \/ FlushFails(o) \/ SetMyselfDone(o) \/ FreeBuffer(o)
               \/ Consume(o)
      <3>1. UNCHANGED <<sent, open, gone>>
        BY <2>6 DEF WriterLock, WriterWait, SpuriousWakeup, TakeBuffer, FlushDone, FlushFails,
                    SetMyselfDone, FreeBuffer, Consume, ConsumerReads, writerVars, consumerVars
      <3> QED
        BY <2>2, <3>1
    <2> QED
      BY <1>5, <2>3, <2>4, <2>5, <2>6 DEF WriterStep, ConsumerStep
  <1>6. CASE UNCHANGED vars
    BY <1>6 DEF vars, readerVars, writerVars, consumerVars, Ended
  <1> QED
    BY <1>1, <1>2, <1>3, <1>4, <1>5, <1>6 DEF Next, ReaderStep, Terminated

(***************************************************************************)
(* `elastic` gives every output an ordered, complete copy of its input and *)
(* closes none too early, whatever the interleaving of its threads, the    *)
(* sizes of reads and writes and the behaviour of the consumers.           *)
(***************************************************************************)
THEOREM ElasticImplementsTee == Spec => ImplementsTee
  <1>1. Init => T!TeeInit
    <2>1. Init => SubSeq(Input, 1, nin) = <<>>
      BY SubSeqEmpty DEF Init
    <2> QED
      BY <2>1 DEF Init, T!TeeInit, Ended
  <1>2. IInv /\ IInv' /\ [Next]_vars => [T!TeeNext]_(T!teeVars)
    BY StepImplementsTee
  <1> QED
    BY <1>1, <1>2, InvCorrect, PTL DEF Spec, ImplementsTee, T!TeeSpec
=============================================================================
