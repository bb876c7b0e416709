-------------------------- MODULE ElasticAioProofs ---------------------------
(***************************************************************************)
(* Proofs about ElasticAio, for any number of outputs, any input, any      *)
(* chunk and pipe size and any behaviour of the consumers.                 *)
(***************************************************************************)
EXTENDS ElasticAio, PrefixLemmas, TLAPS

(* The bytes of the reads that were handled so far. *)
Taken == SubSeq(Input, 1, nin)

(* A read is requested, completed and handled before the next is requested, *)
(* and none once the input has ended.                                       *)
ReadInv ==
  /\ xaio \in {"none", "busy", "ok", "end"}
  /\ xaio = "ok" => nin + xcount <= Len(Input)
  /\ xdone => xaio = "none"

(* A write request is for bytes that were not all written before, and it   *)
(* fails only if nobody reads the output any more; a done output has none. *)
RequestInv ==
  /\ \A o \in Outs :
       /\ oaio[o] \in {"none", "busy", "ok", "error"}
       /\ oaio[o] # "none" => ~done[o] /\ buf[o] # <<>> /\ count[o] \in 0..Len(buf[o])
       /\ oaio[o] = "error" => gone[o]
       /\ open[o] <=> pc # "exit"
  /\ pc = "exit" => \A o \in Outs : done[o]

(* What is left to write of o->buf: the count of a request is subtracted   *)
(* only when its completion is handled.                                    *)
Rest(o) == IF oaio[o] = "none" THEN buf[o] ELSE SubSeq(buf[o], count[o] + 1, Len(buf[o]))

(* An output was given every byte that was read, unless it failed; one     *)
(* that is done was written whole, or has nobody who reads it.             *)
Data(o) ==
  /\ ~done[o] /\ oaio[o] # "error" => (sent[o] \o Rest(o)) \o xbuf[o] = Taken
  /\ done[o] => gone[o] \/ (xdone /\ sent[o] = Taken)

DataInv == \A o \in Outs : Data(o)

IInv == TypeOK /\ ReadInv /\ RequestInv /\ DataInv
-----------------------------------------------------------------------------
LEMMA BytesAssociate ==
  ASSUME NEW a \in Seq(Byte), NEW b \in Seq(Byte), NEW c \in Seq(Byte)
  PROVE  (a \o b) \o c = a \o (b \o c)
  BY ConcatAssociative

LEMMA InitIInv == Init => IInv
  <1> SUFFICES ASSUME Init PROVE IInv
    OBVIOUS
  <1> USE ConsumersAssumption, AioAssumption
  <1>1. <<>> \in Seq(Byte) /\ (<<>> \o <<>>) \o <<>> = <<>> /\ Len(Input) \in Nat
    BY EmptySeq, ConcatEmptySeq, LenProperties
  <1>2. TypeOK
    <2>1. oaio \in [Outs -> Requests] /\ done \in [Outs -> BOOLEAN]
          /\ open \in [Outs -> BOOLEAN] /\ gone \in [Outs -> BOOLEAN]
      BY DEF Init, Requests
    <2>2. buf \in [Outs -> Seq(Byte)] /\ sent \in [Outs -> Seq(Byte)]
          /\ xbuf \in [Outs -> Seq(Byte)]
      BY <1>1 DEF Init
    <2>3. nin \in 0..Len(Input) /\ xcount \in 0..MaxChunk /\ xaio \in Requests
          /\ nread \in [Outs -> Nat] /\ count \in [Outs -> Nat]
      BY <1>1 DEF Init, Requests
    <2> QED
      BY <2>1, <2>2, <2>3 DEF Init, TypeOK
  <1>3. ReadInv /\ RequestInv
    BY DEF Init, ReadInv, RequestInv
  <1>4. Taken = <<>>
    BY SubSeqEmpty DEF Init, Taken
  <1>5. DataInv
    BY <1>1, <1>4 DEF Init, DataInv, Data, Rest
  <1> QED
    BY <1>2, <1>3, <1>5 DEF IInv

(* An idle output requests a write of all it has; the others wait. *)
LEMMA InitiateFacts ==
  ASSUME TypeOK, InitiateWrites, NEW o \in Outs
  PROVE  /\ buf[o] \o xbuf[o] \in Seq(Byte)
         /\ oaio[o] # "none" \/ done[o] =>
              UNCHANGED <<oaio[o], count[o], buf[o], xbuf[o], done[o]>>
         /\ oaio[o] = "none" /\ ~done[o] =>
              /\ buf'[o] = buf[o] \o xbuf[o] /\ xbuf'[o] = <<>> /\ count'[o] = 0
              /\ buf'[o] # <<>> => oaio'[o] = "busy" /\ ~done'[o]
              /\ buf'[o] = <<>> => oaio'[o] = "none" /\ (done'[o] <=> xdone)
  <1>1. buf[o] \in Seq(Byte) /\ xbuf[o] \in Seq(Byte)
    BY DEF TypeOK
  <1>2. buf[o] \o xbuf[o] \in Seq(Byte)
    BY <1>1, ConcatProperties
  <1> DEFINE next == buf[o] \o xbuf[o]
  <1> DEFINE idle == oaio[o] = "none" /\ ~done[o]
  <1>3. /\ buf'[o] = (IF idle THEN next ELSE buf[o])
        /\ xbuf'[o] = (IF idle THEN <<>> ELSE xbuf[o])
        /\ done'[o] = (done[o] \/ (idle /\ next = <<>> /\ xdone))
        /\ oaio'[o] = (IF idle /\ next # <<>> THEN "busy" ELSE oaio[o])
        /\ count'[o] = (IF idle THEN 0 ELSE count[o])
    BY DEF InitiateWrites
  <1>4. done[o] \in BOOLEAN
    BY DEF TypeOK
  <1>5. CASE idle
    <2> HIDE DEF next
    <2>1. buf'[o] = next /\ xbuf'[o] = <<>> /\ count'[o] = 0
      BY <1>3, <1>5
    <2>2. done'[o] <=> next = <<>> /\ xdone
      BY <1>3, <1>5
    <2>3. next # <<>> => oaio'[o] = "busy"
      BY <1>3, <1>5
    <2>4. next = <<>> => oaio'[o] = "none"
      BY <1>3, <1>5
    <2>5. next = buf[o] \o xbuf[o]
      BY DEF next
    <2> QED
      BY <1>2, <1>5, <2>1, <2>2, <2>3, <2>4, <2>5
  <1>6. CASE ~idle
    <2>1. UNCHANGED <<oaio[o], count[o], buf[o], xbuf[o]>>
      BY <1>3, <1>6
    <2>2. done'[o] = done[o]
      BY <1>3, <1>4, <1>6
    <2> QED
      BY <1>2, <1>6, <2>1, <2>2
  <1> QED
    BY <1>5, <1>6

(* The bytes of a completed read are appended to what waits to be written. *)
LEMMA HandleReadFacts ==
  ASSUME TypeOK, ReadInv, HandleRead
  PROVE  /\ nin' \in nin..Len(Input)
         /\ Taken \in Seq(Byte) /\ Taken' \in Seq(Byte)
         /\ Taken \in T!Prefixes(Taken')
         /\ xaio # "ok" => nin' = nin
         /\ SubSeq(Input, nin + 1, nin') \in Seq(Byte)
         /\ Taken' = Taken \o SubSeq(Input, nin + 1, nin')
         /\ \A o \in Outs :
              /\ done[o] => xbuf'[o] = xbuf[o]
              /\ ~done[o] => xbuf'[o] = xbuf[o] \o SubSeq(Input, nin + 1, nin')
              /\ xbuf'[o] \in Seq(Byte)
  <1>1. nin' = (IF xaio = "ok" THEN nin + xcount ELSE nin)
    BY DEF HandleRead
  <1>2. nin' \in nin..Len(Input) /\ nin' \in 0..Len(Input) /\ nin \in 0..nin'
    <2>1. Len(Input) \in Nat
      BY AioAssumption, LenProperties
    <2>2. nin \in Nat /\ xcount \in Nat /\ nin <= Len(Input)
      BY <2>1, AioAssumption DEF TypeOK
    <2>3. xaio = "ok" => nin + xcount <= Len(Input)
      BY DEF ReadInv
    <2> QED
      BY <1>1, <2>1, <2>2, <2>3
  <1>3. SubSeq(Input, nin + 1, nin') \in Seq(Byte) /\ Taken \in Seq(Byte) /\ Taken' \in Seq(Byte)
    BY <1>2, PrefixGrows, AioAssumption DEF Taken
  <1>4. Taken' = Taken \o SubSeq(Input, nin + 1, nin') /\ Taken \in PrefixesOf(Taken')
    BY <1>2, PrefixGrows, AioAssumption DEF Taken
  <1>5. Taken \in T!Prefixes(Taken')
    BY <1>4 DEF T!Prefixes, PrefixesOf
  <1>6. ASSUME NEW o \in Outs
        PROVE  /\ done[o] => xbuf'[o] = xbuf[o]
               /\ ~done[o] => xbuf'[o] = xbuf[o] \o SubSeq(Input, nin + 1, nin')
               /\ xbuf'[o] \in Seq(Byte)
    <2>1. xbuf'[o] = IF done[o] THEN xbuf[o] ELSE xbuf[o] \o SubSeq(Input, nin + 1, nin')
      BY DEF HandleRead
    <2>2. xbuf[o] \in Seq(Byte)
      BY DEF TypeOK
    <2>3. xbuf[o] \o SubSeq(Input, nin + 1, nin') \in Seq(Byte)
      BY <1>3, <2>2, ConcatProperties
    <2> QED
      BY <2>1, <2>2, <2>3
  <1> QED
    BY <1>1, <1>2, <1>3, <1>4, <1>5, <1>6

(* What is left of a request is its last bytes. *)
LEMMA RestFacts ==
  ASSUME TypeOK, RequestInv, NEW o \in Outs
  PROVE  Rest(o) \in Seq(Byte) /\ sent[o] \in Seq(Byte) /\ xbuf[o] \in Seq(Byte)
         /\ buf[o] \in Seq(Byte)
  <1>1. buf[o] \in Seq(Byte) /\ sent[o] \in Seq(Byte) /\ xbuf[o] \in Seq(Byte)
    BY DEF TypeOK
  <1>2. CASE oaio[o] = "none"
    BY <1>1, <1>2 DEF Rest
  <1>3. CASE oaio[o] # "none"
    <2>1. count[o] \in 0..Len(buf[o])
      BY <1>3 DEF RequestInv
    <2>2. SubSeq(buf[o], count[o] + 1, Len(buf[o])) \in Seq(Byte)
      BY <1>1, <2>1, PrefixSplit
    <2> QED
      BY <1>1, <1>3, <2>2 DEF Rest
  <1> QED
    BY <1>2, <1>3

(* A helper thread moves the first bytes of the rest into the pipe. *)
LEMMA WriteFacts ==
  ASSUME TypeOK, RequestInv, NEW o \in Outs, WriteBytes(o)
  PROVE  /\ sent' \in [Outs -> Seq(Byte)] /\ count' \in [Outs -> Nat]
         /\ sent' = [sent EXCEPT ![o] = sent'[o]] /\ count' = [count EXCEPT ![o] = count'[o]]
         /\ count'[o] \in 0..Len(buf[o])
         /\ sent[o] \in T!Prefixes(sent'[o])
         /\ Rest(o)' \in Seq(Byte)
         /\ sent'[o] \o Rest(o)' = sent[o] \o Rest(o)
  <1>1. PICK n \in 1..(Len(buf[o]) - count[o]) :
          /\ sent' = [sent EXCEPT ![o] = @ \o SubSeq(buf[o], count[o] + 1, count[o] + n)]
          /\ count' = [count EXCEPT ![o] = @ + n]
    BY DEF WriteBytes
  <1>2. oaio[o] = "busy" /\ UNCHANGED <<oaio, buf>>
    BY DEF WriteBytes
  <1>3. sent[o] \in Seq(Byte) /\ buf[o] \in Seq(Byte) /\ count[o] \in 0..Len(buf[o])
        /\ Len(buf[o]) \in Nat
    BY <1>2, LenProperties DEF TypeOK, RequestInv
  <1>4. count[o] \in Nat /\ count[o] + n \in 0..Len(buf[o]) /\ count[o] \in 0..(count[o] + n)
    BY <1>3
  <1> DEFINE k == count[o]
  <1> DEFINE head == SubSeq(buf[o], k + 1, k + n)
  <1> DEFINE rest == SubSeq(buf[o], k + n + 1, Len(buf[o]))
  <1>5. sent'[o] = sent[o] \o head /\ count'[o] = k + n
    BY <1>1 DEF TypeOK
  <1>6. head \in Seq(Byte)
    <2> HIDE DEF k
    <2>1. k + n \in 0..Len(buf[o]) /\ k \in 0..(k + n)
      BY <1>4 DEF k
    <2> QED
      BY <1>3, <2>1, PrefixGrows
  <1>7. rest \in Seq(Byte)
    <2> HIDE DEF k
    <2>1. k + n \in 0..Len(buf[o])
      BY <1>4 DEF k
    <2> QED
      BY <1>3, <2>1, PrefixSplit
  <1>8. Rest(o) = head \o rest
    <2>1. Rest(o) = SubSeq(buf[o], k + 1, Len(buf[o]))
      BY <1>2 DEF Rest
    <2> HIDE DEF k
    <2>2. k + 1 \in 1..Len(buf[o]) + 1 /\ k + n \in (k + 1) - 1..Len(buf[o])
          /\ Len(buf[o]) \in k + n..Len(buf[o])
      <3>1. k \in Nat /\ k + n <= Len(buf[o]) /\ n \in Nat
        BY <1>3, <1>4 DEF k
      <3> QED
        BY <1>3, <3>1
    <2>3. head \o rest = SubSeq(buf[o], k + 1, Len(buf[o]))
      BY <1>3, <2>2, ConcatAdjacentSubSeq
    <2> QED
      BY <2>1, <2>3
  <1>9. Rest(o)' = rest
    <2>1. oaio'[o] = "busy" /\ buf'[o] = buf[o]
      BY <1>2
    <2> QED
      BY <1>5, <2>1 DEF Rest
  <1>10. sent' = [sent EXCEPT ![o] = sent'[o]] /\ count' = [count EXCEPT ![o] = count'[o]]
    BY <1>1, <1>5
  <1>11. count'[o] \in 0..Len(buf[o]) /\ count'[o] \in Nat
    BY <1>4, <1>5
  <1> HIDE DEF head, rest, k
  <1>12. sent'[o] \in Seq(Byte)
    BY <1>3, <1>5, <1>6, ConcatProperties
  <1>13. sent' \in [Outs -> Seq(Byte)] /\ count' \in [Outs -> Nat]
    BY <1>10, <1>11, <1>12 DEF TypeOK
  <1>14. sent[o] \in T!Prefixes(sent'[o])
    <2>1. sent[o] \in PrefixesOf(sent[o] \o head)
      BY <1>3, <1>6, PrefixOfConcat
    <2> QED
      BY <1>5, <2>1 DEF T!Prefixes, PrefixesOf
  <1>15. sent'[o] \o Rest(o)' = sent[o] \o Rest(o)
    <2>1. (sent[o] \o head) \o rest = sent[o] \o (head \o rest)
      BY <1>3, <1>6, <1>7, BytesAssociate
    <2> QED
      BY <1>5, <1>8, <1>9, <2>1
  <1> QED
    BY <1>7, <1>9, <1>10, <1>11, <1>13, <1>14, <1>15
-----------------------------------------------------------------------------
LEMMA TypeStep == IInv /\ [Next]_vars => TypeOK'
  <1> SUFFICES ASSUME IInv, [Next]_vars PROVE TypeOK'
    OBVIOUS
  <1> USE ConsumersAssumption, AioAssumption DEF IInv
  <1>0. Len(Input) \in Nat /\ <<>> \in Seq(Byte)
    BY LenProperties, EmptySeq
  <1>1. CASE InitiateRead \/ Suspend
    BY <1>1 DEF InitiateRead, Suspend, inputVars, outputVars, consumerVars, TypeOK, Requests
  <1>2. CASE InitiateWrites
    <2>1. buf' \in [Outs -> Seq(Byte)]
      <3>1. \A o \in Outs : buf'[o] \in Seq(Byte)
        BY <1>2, InitiateFacts DEF TypeOK
      <3> QED
        BY <1>2, <3>1 DEF InitiateWrites
    <2>2. xbuf' \in [Outs -> Seq(Byte)]
      <3>1. \A o \in Outs : xbuf'[o] \in Seq(Byte)
        BY <1>0, <1>2, InitiateFacts DEF TypeOK
      <3> QED
        BY <1>2, <3>1 DEF InitiateWrites
    <2>3. oaio' \in [Outs -> Requests]
      BY <1>2 DEF InitiateWrites, TypeOK, Requests
    <2>4. done' \in [Outs -> BOOLEAN]
      BY <1>2 DEF InitiateWrites
    <2>5. count' \in [Outs -> Nat]
      BY <1>2 DEF InitiateWrites, TypeOK
    <2> QED
      BY <1>2, <2>1, <2>2, <2>3, <2>4, <2>5 DEF InitiateWrites, inputVars, consumerVars, TypeOK
  <1>3. CASE HandleRead
    <2>1. nin' \in 0..Len(Input)
      <3>1. nin' \in nin..Len(Input) /\ nin \in Nat
        BY <1>0, <1>3, HandleReadFacts DEF TypeOK
      <3> QED
        BY <1>0, <3>1
    <2>2. xbuf' \in [Outs -> Seq(Byte)]
      <3>1. \A o \in Outs : xbuf'[o] \in Seq(Byte)
        BY <1>3, HandleReadFacts
      <3> QED
        BY <1>3, <3>1 DEF HandleRead
    <2>3. xaio' \in Requests /\ xdone' \in BOOLEAN /\ xmem' \in BOOLEAN
      BY <1>3 DEF HandleRead, TypeOK, Requests
    <2> QED
      BY <1>3, <2>1, <2>2, <2>3 DEF HandleRead, consumerVars, TypeOK
  <1>4. CASE HandleWrites
    <2>1. buf' \in [Outs -> Seq(Byte)]
      <3>1. ASSUME NEW o \in Outs PROVE buf'[o] \in Seq(Byte)
        <4>1. buf'[o] = IF oaio[o] = "error" THEN <<>>
                        ELSE IF oaio[o] = "ok" THEN SubSeq(buf[o], count[o] + 1, Len(buf[o]))
                        ELSE buf[o]
          BY <1>4 DEF HandleWrites
        <4>2. oaio[o] = "ok" => Rest(o) = SubSeq(buf[o], count[o] + 1, Len(buf[o]))
          BY DEF Rest
        <4> QED
          BY <1>0, <4>1, <4>2, RestFacts
      <3> QED
        BY <1>4, <3>1 DEF HandleWrites
    <2>2. xbuf' \in [Outs -> Seq(Byte)]
      BY <1>0, <1>4 DEF HandleWrites, TypeOK
    <2>3. oaio' \in [Outs -> Requests] /\ done' \in [Outs -> BOOLEAN]
      BY <1>4 DEF HandleWrites, TypeOK, Requests
    <2> QED
      BY <1>4, <2>1, <2>2, <2>3 DEF HandleWrites, inputVars, consumerVars, TypeOK
  <1>5. CASE Finish
    BY <1>5 DEF Finish, outputVars, consumerVars, TypeOK, Requests
  <1>6. CASE CompleteRead
    <2>1. xaio' \in Requests /\ xcount' \in 0..MaxChunk
      BY <1>6 DEF CompleteRead, Requests
    <2> QED
      BY <1>6, <2>1 DEF CompleteRead, outputVars, consumerVars, TypeOK
  <1>7. ASSUME NEW o \in Outs, WriteBytes(o) PROVE TypeOK'
    <2>1. sent' \in [Outs -> Seq(Byte)] /\ count' \in [Outs -> Nat]
      BY <1>7, WriteFacts
    <2> QED
      BY <1>7, <2>1 DEF WriteBytes, inputVars, consumerVars, TypeOK
  <1>8. ASSUME NEW o \in Outs, CompleteWrite(o) PROVE TypeOK'
    <2>1. oaio' \in [Outs -> Requests]
      BY <1>8 DEF CompleteWrite, TypeOK, Requests
    <2> QED
      BY <1>8, <2>1 DEF CompleteWrite, inputVars, consumerVars, TypeOK
  <1>9. ASSUME NEW o \in Outs, Consume(o) \/ Hangup(o) PROVE TypeOK'
    <2>1. nread' \in [Outs -> Nat] /\ gone' \in [Outs -> BOOLEAN]
      <3>1. nread \in [Outs -> Nat] /\ gone \in [Outs -> BOOLEAN]
        BY DEF TypeOK
      <3>2. CASE Consume(o)
        BY <3>1, <3>2 DEF Consume, ConsumerReads
      <3>3. CASE Hangup(o)
        BY <3>1, <3>3 DEF Hangup, ConsumerHangsUp
      <3> QED
        BY <1>9, <3>2, <3>3
    <2>2. UNCHANGED <<pc, inputVars, outputVars, sent, open>>
      BY <1>9 DEF Consume, Hangup
    <2> QED
      BY <2>1, <2>2 DEF inputVars, outputVars, TypeOK
  <1>10. CASE UNCHANGED vars
    BY <1>10 DEF vars, inputVars, outputVars, consumerVars, TypeOK
  <1> QED
    BY <1>1, <1>2, <1>3, <1>4, <1>5, <1>6, <1>7, <1>8, <1>9, <1>10
       DEF Next, MainStep, HelperStep, Terminated

LEMMA ReadStep == IInv /\ [Next]_vars => ReadInv'
  <1> SUFFICES ASSUME IInv, [Next]_vars PROVE ReadInv'
    OBVIOUS
  <1> USE DEF IInv
  <1>1. CASE InitiateRead \/ Finish
    <2>1. UNCHANGED <<nin, xcount, xdone>> /\ xaio' \in {xaio, "none", "busy"}
          /\ (xdone => xaio' \in {xaio, "none"})
      BY <1>1 DEF InitiateRead, Finish, ReadInv
    <2> QED
      BY <2>1 DEF ReadInv
  <1>2. CASE HandleRead
    <2>1. xaio' \in {"none", "busy"} /\ (xdone' => xaio' = "none")
      BY <1>2 DEF HandleRead, Completed, ReadInv
    <2> QED
      BY <2>1 DEF ReadInv
  <1>3. CASE CompleteRead
    BY <1>3 DEF CompleteRead, ReadInv
  <1>4. ASSUME UNCHANGED inputVars PROVE ReadInv'
    BY <1>4 DEF inputVars, ReadInv
  <1>5. CASE InitiateWrites \/ Suspend \/ HandleWrites \/ UNCHANGED vars
    BY <1>4, <1>5 DEF InitiateWrites, Suspend, HandleWrites, vars
  <1>6. ASSUME NEW o \in Outs, HelperStep(o) \/ Consume(o) \/ Hangup(o) PROVE ReadInv'
    BY <1>4, <1>6 DEF HelperStep, WriteBytes, CompleteWrite, Consume, Hangup
  <1> QED
    BY <1>1, <1>2, <1>3, <1>5, <1>6 DEF Next, MainStep, Terminated

LEMMA RequestStep == IInv /\ [Next]_vars => RequestInv'
  <1> SUFFICES ASSUME IInv, [Next]_vars PROVE RequestInv'
    OBVIOUS
  <1> USE DEF IInv
  <1>1. ASSUME UNCHANGED <<oaio, done, buf, count, open>>, \A o \in Outs : gone[o] => gone'[o],
               pc # "exit", pc' # "exit"
        PROVE  RequestInv'
    BY <1>1 DEF RequestInv
  <1>2. CASE InitiateRead \/ Suspend \/ HandleRead
    BY <1>1, <1>2 DEF InitiateRead, Suspend, HandleRead, outputVars, consumerVars
  <1>3. CASE InitiateWrites
    <2>1. pc # "exit" /\ pc' # "exit" /\ UNCHANGED <<gone, open>>
      BY <1>3 DEF InitiateWrites, consumerVars
    <2>2. ASSUME NEW o \in Outs
          PROVE  /\ oaio'[o] \in {"none", "busy", "ok", "error"}
                 /\ oaio'[o] # "none" => ~done'[o] /\ buf'[o] # <<>>
                                         /\ count'[o] \in 0..Len(buf'[o])
                 /\ oaio'[o] = "error" => gone[o]
      <3>1. CASE oaio[o] # "none" \/ done[o]
        BY <1>3, <3>1, InitiateFacts DEF RequestInv
      <3>2. CASE oaio[o] = "none" /\ ~done[o]
        <4>1. buf'[o] \in Seq(Byte) /\ count'[o] = 0
          BY <1>3, <3>2, InitiateFacts
        <4>2. count'[o] \in 0..Len(buf'[o])
          BY <4>1, LenProperties
        <4> QED
          BY <1>3, <3>2, <4>2, InitiateFacts
      <3> QED
        BY <3>1, <3>2
    <2> QED
      BY <2>1, <2>2 DEF RequestInv
  <1>4. CASE HandleWrites
    <2>1. pc # "exit" /\ pc' # "exit" /\ UNCHANGED <<gone, open, count>>
      BY <1>4 DEF HandleWrites, consumerVars
    <2>2. ASSUME NEW o \in Outs
          PROVE  /\ oaio'[o] \in {"none", "busy"}
                 /\ oaio'[o] = "busy" => oaio[o] = "busy" /\ buf'[o] = buf[o] /\ done'[o] = done[o]
      <3>1. oaio'[o] = IF Completed(oaio[o]) THEN "none" ELSE oaio[o]
        BY <1>4 DEF HandleWrites
      <3>2. oaio[o] = "busy" => buf'[o] = buf[o] /\ done'[o] = done[o]
        BY <1>4 DEF HandleWrites, TypeOK
      <3> QED
        BY <3>1, <3>2 DEF Completed
    <2> QED
      BY <2>1, <2>2 DEF RequestInv
  <1>5. CASE Finish
    BY <1>5 DEF Finish, outputVars, consumerVars, RequestInv
  <1>6. CASE CompleteRead \/ UNCHANGED vars
    <2>1. UNCHANGED <<pc, oaio, done, buf, count, open, gone>>
      BY <1>6 DEF CompleteRead, vars, outputVars, consumerVars
    <2> QED
      BY <2>1 DEF RequestInv
  <1>7. ASSUME NEW o \in Outs, WriteBytes(o) PROVE RequestInv'
    <2>1. UNCHANGED <<pc, oaio, done, buf, open, gone>> /\ oaio[o] = "busy"
      BY <1>7 DEF WriteBytes, consumerVars
    <2>2. count'[o] \in 0..Len(buf[o]) /\ count' = [count EXCEPT ![o] = count'[o]]
      BY <1>7, WriteFacts
    <2>3. \A q \in Outs : q # o => count'[q] = count[q]
      BY <2>2 DEF TypeOK
    <2> QED
      BY <2>1, <2>2, <2>3 DEF RequestInv
  <1>8. ASSUME NEW o \in Outs, CompleteWrite(o) PROVE RequestInv'
    <2>1. UNCHANGED <<pc, count, done, buf, open, gone>> /\ oaio[o] = "busy"
      BY <1>8 DEF CompleteWrite, consumerVars
    <2>2. oaio'[o] \in {"ok", "error"} /\ \A q \in Outs : q # o => oaio'[q] = oaio[q]
      BY <1>8 DEF CompleteWrite, TypeOK
    <2>3. oaio'[o] = "error" => gone[o]
      <3> SUFFICES ASSUME oaio'[o] = "error", ~gone[o] PROVE FALSE
        OBVIOUS
      <3>1. count[o] = Len(buf[o]) /\ ~(count[o] > 0)
        BY <1>8 DEF CompleteWrite, TypeOK
      <3>2. buf[o] \in Seq(Byte) /\ buf[o] # <<>>
        BY <2>1 DEF TypeOK, RequestInv
      <3>3. Len(buf[o]) \in Nat \ {0}
        BY <3>2, EmptySeq
      <3> QED
        BY <3>1, <3>3
    <2> QED
      BY <2>1, <2>2, <2>3 DEF RequestInv
  <1>9. ASSUME NEW o \in Outs, Consume(o) \/ Hangup(o) PROVE RequestInv'
    <2>1. UNCHANGED <<pc, oaio, done, buf, count, open>>
      BY <1>9 DEF Consume, Hangup, outputVars
    <2>2. \A q \in Outs : gone[q] => gone'[q]
      BY <1>9 DEF Consume, Hangup, ConsumerReads, ConsumerHangsUp, TypeOK
    <2> QED
      BY <2>1, <2>2 DEF RequestInv
  <1> QED
    BY <1>2, <1>3, <1>4, <1>5, <1>6, <1>7, <1>8, <1>9 DEF Next, MainStep, HelperStep, Terminated

LEMMA DataStep == IInv /\ [Next]_vars => DataInv'
  <1> SUFFICES ASSUME IInv, [Next]_vars PROVE DataInv'
    OBVIOUS
  <1> USE DEF IInv
  <1>1. CASE InitiateWrites
    <2> SUFFICES ASSUME NEW o \in Outs PROVE Data(o)'
      BY DEF DataInv
    <2>1. UNCHANGED <<sent, gone, xdone>> /\ Taken' = Taken /\ Data(o)
      BY <1>1 DEF InitiateWrites, inputVars, consumerVars, DataInv, Taken
    <2>2. CASE oaio[o] # "none" \/ done[o]
      <3>1. UNCHANGED <<oaio[o], count[o], buf[o], xbuf[o], done[o]>>
        BY <1>1, <2>2, InitiateFacts
      <3> QED
        BY <2>1, <3>1 DEF Data, Rest
    <2>3. CASE oaio[o] = "none" /\ ~done[o]
      <3>1. (sent[o] \o buf[o]) \o xbuf[o] = Taken
        BY <2>1, <2>3 DEF Data, Rest
      <3>2. sent[o] \in Seq(Byte) /\ buf[o] \in Seq(Byte) /\ xbuf[o] \in Seq(Byte)
        BY DEF TypeOK
      <3>3. /\ buf'[o] \in Seq(Byte) /\ buf'[o] = buf[o] \o xbuf[o]
            /\ xbuf'[o] = <<>> /\ count'[o] = 0 /\ oaio'[o] \in {"none", "busy"}
            /\ done'[o] => buf'[o] = <<>> /\ xdone
        BY <1>1, <2>3, InitiateFacts
      <3>4. Rest(o)' = buf'[o]
        <4> DEFINE b == buf'[o]
        <4>1. b \in Seq(Byte)
          BY <3>3
        <4> HIDE DEF b
        <4>2. SubSeq(b, 1, Len(b)) = b
          BY <4>1, SubSeqFull
        <4>3. count'[o] + 1 = 1
          BY <3>3
        <4> QED
          BY <4>2, <4>3 DEF Rest, b
      <3>5. sent[o] \o buf'[o] = Taken
        <4>1. (sent[o] \o buf[o]) \o xbuf[o] = sent[o] \o (buf[o] \o xbuf[o])
          BY <3>2, BytesAssociate
        <4> QED
          BY <3>1, <3>3, <4>1
      <3>6. (sent[o] \o buf'[o]) \o <<>> = Taken
        <4>1. Taken \in Seq(Byte)
          BY <3>2, <3>3, <3>5, ConcatProperties
        <4> QED
          BY <3>5, <4>1, ConcatEmptySeq
      <3>7. done'[o] => xdone' /\ sent[o] = Taken
        <4>1. sent[o] \o <<>> = sent[o]
          BY <3>2, ConcatEmptySeq
        <4> QED
          BY <2>1, <3>3, <3>5, <4>1
      <3> QED
        BY <2>1, <3>3, <3>4, <3>6, <3>7 DEF Data
    <2> QED
      BY <2>2, <2>3
  <1>2. CASE HandleRead
    <2> SUFFICES ASSUME NEW o \in Outs PROVE Data(o)'
      BY DEF DataInv
    <2> DEFINE chunk == SubSeq(Input, nin + 1, nin')
    <2>1. UNCHANGED <<sent, gone, oaio, count, buf, done>> /\ Data(o)
      BY <1>2 DEF HandleRead, consumerVars, DataInv
    <2>2. Rest(o)' = Rest(o)
      BY <2>1 DEF Rest
    <2>3. ASSUME ~done[o], oaio[o] # "error" PROVE (sent[o] \o Rest(o)) \o xbuf'[o] = Taken'
      <3>1. xbuf'[o] = xbuf[o] \o chunk /\ Taken' = Taken \o chunk /\ chunk \in Seq(Byte)
        BY <1>2, <2>3, HandleReadFacts
      <3>2. (sent[o] \o Rest(o)) \o xbuf[o] = Taken
        BY <2>1, <2>3 DEF Data
      <3>3. sent[o] \o Rest(o) \in Seq(Byte) /\ xbuf[o] \in Seq(Byte)
        BY RestFacts, ConcatProperties
      <3> HIDE DEF chunk
      <3>4. ((sent[o] \o Rest(o)) \o xbuf[o]) \o chunk = (sent[o] \o Rest(o)) \o (xbuf[o] \o chunk)
        BY <3>1, <3>3, BytesAssociate
      <3> QED
        BY <3>1, <3>2, <3>4
    <2>4. ASSUME xdone PROVE xdone' /\ Taken' = Taken
      <3>1. xaio # "ok"
        BY <2>4 DEF ReadInv
      <3>2. nin' = nin
        BY <1>2, <3>1, HandleReadFacts
      <3> QED
        BY <1>2, <2>4, <3>2 DEF HandleRead, Taken
    <2> QED
      BY <2>1, <2>2, <2>3, <2>4 DEF Data
  <1>3. CASE HandleWrites
    <2> SUFFICES ASSUME NEW o \in Outs PROVE Data(o)'
      BY DEF DataInv
    <2>1. UNCHANGED <<sent, gone, xdone, count>> /\ Taken' = Taken /\ Data(o)
      BY <1>3 DEF HandleWrites, inputVars, consumerVars, DataInv, Taken
    <2>2. CASE oaio[o] = "error"
      <3>1. done'[o] /\ gone[o]
        BY <1>3, <2>2 DEF HandleWrites, RequestInv
      <3> QED
        BY <2>1, <3>1 DEF Data
    <2>3. CASE oaio[o] # "error"
      <3>1. done'[o] = done[o] /\ xbuf'[o] = xbuf[o]
            /\ oaio'[o] = (IF Completed(oaio[o]) THEN "none" ELSE oaio[o])
            /\ buf'[o] = (IF oaio[o] = "ok" THEN SubSeq(buf[o], count[o] + 1, Len(buf[o])) ELSE buf[o])
        BY <1>3, <2>3 DEF HandleWrites, TypeOK
      <3>2. oaio[o] \in {"none", "busy", "ok"}
        BY <2>3 DEF RequestInv
      <3>3. Rest(o)' = Rest(o)
        BY <2>1, <3>1, <3>2 DEF Rest, Completed
      <3> QED
        BY <2>1, <2>3, <3>1, <3>3 DEF Data
    <2> QED
      BY <2>2, <2>3
  <1>4. ASSUME NEW p \in Outs, WriteBytes(p) PROVE DataInv'
    <2> SUFFICES ASSUME NEW o \in Outs PROVE Data(o)'
      BY DEF DataInv
    <2>1. UNCHANGED <<oaio, buf, xbuf, done, gone, xdone>> /\ Taken' = Taken /\ Data(o)
      BY <1>4 DEF WriteBytes, inputVars, consumerVars, DataInv, Taken
    <2>2. CASE o = p
      <3>1. sent'[o] \o Rest(o)' = sent[o] \o Rest(o)
        BY <1>4, <2>2, WriteFacts
      <3>2. ~done[o]
        BY <1>4, <2>2 DEF WriteBytes, RequestInv
      <3> QED
        BY <2>1, <3>1, <3>2 DEF Data
    <2>3. CASE o # p
      <3>1. sent'[o] = sent[o] /\ count'[o] = count[o]
        BY <1>4, <2>3 DEF WriteBytes, TypeOK
      <3> QED
        BY <2>1, <3>1 DEF Data, Rest
    <2> QED
      BY <2>2, <2>3
  <1>5. ASSUME NEW p \in Outs, CompleteWrite(p) PROVE DataInv'
    <2> SUFFICES ASSUME NEW o \in Outs PROVE Data(o)'
      BY DEF DataInv
    <2>1. UNCHANGED <<sent, count, buf, xbuf, done, gone, xdone>> /\ Taken' = Taken /\ Data(o)
      BY <1>5 DEF CompleteWrite, inputVars, consumerVars, DataInv, Taken
    <2>2. oaio'[o] # oaio[o] => oaio[o] = "busy" /\ oaio'[o] \in {"ok", "error"}
      BY <1>5 DEF CompleteWrite, TypeOK
    <2>3. Rest(o)' = Rest(o)
      BY <2>1, <2>2 DEF Rest
    <2>4. oaio'[o] # "error" => oaio[o] # "error"
      BY <2>2
    <2> QED
      BY <2>1, <2>3, <2>4 DEF Data
  <1>6. ASSUME UNCHANGED <<sent, oaio, count, buf, xbuf, done, nin, xdone>>,
               \A o \in Outs : gone[o] => gone'[o]
        PROVE  DataInv'
    BY <1>6 DEF DataInv, Data, Rest, Taken
  <1>7. CASE InitiateRead \/ Suspend \/ Finish \/ CompleteRead \/ UNCHANGED vars
    BY <1>6, <1>7 DEF InitiateRead, Suspend, Finish, CompleteRead, vars, inputVars, outputVars,
                      consumerVars
  <1>8. ASSUME NEW o \in Outs, Consume(o) \/ Hangup(o) PROVE DataInv'
    <2>1. UNCHANGED <<sent, oaio, count, buf, xbuf, done, nin, xdone>>
      BY <1>8 DEF Consume, Hangup, inputVars, outputVars
    <2>2. \A q \in Outs : gone[q] => gone'[q]
      BY <1>8 DEF Consume, Hangup, ConsumerReads, ConsumerHangsUp, TypeOK
    <2> QED
      BY <1>6, <2>1, <2>2
  <1> QED
    BY <1>1, <1>2, <1>3, <1>4, <1>5, <1>7, <1>8 DEF Next, MainStep, HelperStep, Terminated

LEMMA InvCorrect == Spec => []IInv
  <1>1. IInv /\ [Next]_vars => IInv'
    BY TypeStep, ReadStep, RequestStep, DataStep DEF IInv
  <1> QED
    BY <1>1, InitIInv, PTL DEF Spec

(* The variables of elastic_aio keep their types: no read passes the end   *)
(* of the input.                                                           *)
THEOREM TypeCorrect == Spec => []TypeOK
  <1>1. IInv => TypeOK
    BY DEF IInv
  <1> QED
    BY <1>1, InvCorrect, PTL

(* Until the loop or the input has ended, there is a buffer to read into. *)
MemInv == ~xdone /\ pc # "exit" => xmem

LEMMA MemStep == IInv /\ MemInv /\ [Next]_vars => MemInv'
  <1> SUFFICES ASSUME IInv, MemInv, [Next]_vars PROVE MemInv'
    OBVIOUS
  <1>1. CASE HandleRead
    BY <1>1 DEF HandleRead, MemInv, IInv, TypeOK
  <1>2. CASE Finish
    BY <1>2 DEF Finish, MemInv
  <1>3. ASSUME UNCHANGED <<xdone, xmem>>, pc = "exit" => pc' = "exit" PROVE MemInv'
    BY <1>3 DEF MemInv
  <1>4. CASE InitiateRead \/ InitiateWrites \/ Suspend \/ HandleWrites \/ CompleteRead \/ UNCHANGED vars
    BY <1>3, <1>4 DEF InitiateRead, InitiateWrites, Suspend, HandleWrites, CompleteRead, vars, inputVars
  <1>5. ASSUME NEW o \in Outs, HelperStep(o) \/ Consume(o) \/ Hangup(o) PROVE MemInv'
    BY <1>3, <1>5 DEF HelperStep, WriteBytes, CompleteWrite, Consume, Hangup, inputVars
  <1> QED
    BY <1>1, <1>2, <1>4, <1>5 DEF Next, MainStep, Terminated

(***************************************************************************)
(* The main loop leaves the bytes of a write request alone as long as a    *)
(* helper thread may read them and, until the loop ends, x->buf is there   *)
(* while a helper thread reads into it.                                    *)
(***************************************************************************)
THEOREM BufferStable == Spec => BufferOfRequestStable
  <1>1. IInv /\ [Next]_vars => [\A o \in Outs : oaio[o] = "busy" => buf'[o] = buf[o]]_vars
    <2> SUFFICES ASSUME IInv, Next, NEW o \in Outs, oaio[o] = "busy" PROVE buf'[o] = buf[o]
      OBVIOUS
    <2>1. CASE InitiateWrites
      BY <2>1, InitiateFacts DEF IInv
    <2>2. CASE HandleWrites
      BY <2>2 DEF HandleWrites
    <2>3. CASE InitiateRead \/ Suspend \/ HandleRead \/ Finish \/ CompleteRead \/ UNCHANGED vars
      BY <2>3 DEF InitiateRead, Suspend, HandleRead, Finish, CompleteRead, vars, outputVars
    <2>4. ASSUME NEW p \in Outs, HelperStep(p) \/ Consume(p) \/ Hangup(p) PROVE buf' = buf
      BY <2>4 DEF HelperStep, WriteBytes, CompleteWrite, Consume, Hangup, outputVars
    <2> QED
      BY <2>1, <2>2, <2>3, <2>4 DEF Next, MainStep, Terminated
  <1>2. Init => MemInv
    BY DEF Init, MemInv
  <1>3. IInv /\ MemInv => ReadBufferKept
    BY DEF IInv, ReadInv, MemInv, ReadBufferKept, TypeOK
  <1> QED
    BY <1>1, <1>2, <1>3, MemStep, InvCorrect, PTL DEF Spec, BufferOfRequestStable
-----------------------------------------------------------------------------
(* Every step of the command is a step of Tee, or changes nothing Tee sees. *)
LEMMA StepImplementsTee == IInv /\ [Next]_vars => [T!TeeNext]_(T!teeVars)
  <1> SUFFICES ASSUME IInv, [Next]_vars, UNCHANGED T!teeVars => FALSE
               PROVE  T!TeeNext
    OBVIOUS
  <1>0. UNCHANGED <<nin, xdone, sent, open, gone>> => FALSE
    BY DEF T!teeVars
  <1>1. CASE HandleRead
    <2>1. UNCHANGED <<sent, open, gone>> /\ xdone' \in BOOLEAN /\ (xdone => xdone')
      BY <1>1 DEF HandleRead, consumerVars
    <2>2. Taken' \in Seq(Byte) /\ Taken \in T!Prefixes(Taken')
      BY <1>1, HandleReadFacts DEF IInv
    <2>3. CASE ~xdone
      <3>1. T!TeeTake
        BY <2>1, <2>2, <2>3 DEF T!TeeTake, Taken
      <3> QED
        BY <3>1 DEF T!TeeNext
    <2>4. CASE xdone
      <3>1. nin' = nin
        BY <1>1, <2>4, HandleReadFacts DEF IInv, ReadInv
      <3>2. xdone' = xdone
        BY <2>1, <2>4 DEF IInv, TypeOK
      <3> QED
        BY <1>0, <2>1, <3>1, <3>2
    <2> QED
      BY <2>3, <2>4
  <1>2. CASE Finish
    <2>1. UNCHANGED <<nin, xdone, sent, gone>> /\ open' = [o \in Outs |-> FALSE]
          /\ \A o \in Outs : done[o]
      BY <1>2 DEF Finish, consumerVars
    <2>2. Outs \in SUBSET {o \in Outs : gone[o] \/ (xdone /\ sent[o] = SubSeq(Input, 1, nin))}
      BY <2>1 DEF IInv, DataInv, Data, Taken
    <2>3. open' = [o \in Outs |-> open[o] /\ o \notin Outs]
      BY <2>1
    <2>4. T!TeeClose
      BY <2>1, <2>2, <2>3 DEF T!TeeClose
    <2> QED
      BY <2>4 DEF T!TeeNext
  <1>3. ASSUME NEW o \in Outs, WriteBytes(o) PROVE T!TeeNext
    <2>1. sent' = [sent EXCEPT ![o] = sent'[o]] /\ sent[o] \in T!Prefixes(sent'[o])
      BY <1>3, WriteFacts DEF IInv
    <2>2. UNCHANGED <<nin, xdone, open, gone>> /\ oaio[o] = "busy" /\ UNCHANGED <<oaio, xbuf, done>>
      BY <1>3 DEF WriteBytes, inputVars, consumerVars
    <2>3. open[o] /\ ~done[o]
      BY <2>2 DEF IInv, RequestInv
    <2>4. sent'[o] \in T!Prefixes(SubSeq(Input, 1, nin))
      <3>1. (sent'[o] \o Rest(o)') \o xbuf[o] = Taken
        <4>1. (sent[o] \o Rest(o)) \o xbuf[o] = Taken
          BY <2>2, <2>3 DEF IInv, DataInv, Data
        <4>2. sent'[o] \o Rest(o)' = sent[o] \o Rest(o)
          BY <1>3, WriteFacts DEF IInv
        <4> QED
          BY <4>1, <4>2
      <3>2. sent'[o] \in Seq(Byte) /\ Rest(o)' \in Seq(Byte) /\ xbuf[o] \in Seq(Byte)
        BY <1>3, WriteFacts DEF IInv, TypeOK
      <3> DEFINE r == Rest(o)'
      <3> DEFINE s == sent'[o]
      <3>3. s \in Seq(Byte) /\ r \in Seq(Byte) /\ (s \o r) \o xbuf[o] = Taken
        BY <3>1, <3>2
      <3> HIDE DEF r, s
      <3>4. s \o (r \o xbuf[o]) = Taken /\ r \o xbuf[o] \in Seq(Byte)
        BY <3>2, <3>3, BytesAssociate, ConcatProperties
      <3>5. s \in PrefixesOf(s \o (r \o xbuf[o]))
        BY <3>3, <3>4, PrefixOfConcat
      <3> QED
        BY <3>4, <3>5 DEF T!Prefixes, PrefixesOf, Taken, s
    <2>5. T!TeeDeliver(o)
      BY <2>1, <2>2, <2>3, <2>4 DEF T!TeeDeliver
    <2> QED
      BY <2>5 DEF T!TeeNext
  <1>4. ASSUME NEW o \in Outs, Hangup(o) PROVE T!TeeNext
    <2>1. T!TeeHangup(o)
      BY <1>4 DEF Hangup, ConsumerHangsUp, inputVars, T!TeeHangup
    <2> QED
      BY <2>1 DEF T!TeeNext
  <1>5. CASE InitiateRead \/ InitiateWrites \/ Suspend \/ HandleWrites \/ CompleteRead
             \/ UNCHANGED vars
    BY <1>0, <1>5 DEF InitiateRead, InitiateWrites, Suspend, HandleWrites, CompleteRead, vars,
                      inputVars, consumerVars
  <1>6. ASSUME NEW o \in Outs, CompleteWrite(o) \/ Consume(o) PROVE T!TeeNext
    BY <1>0, <1>6 DEF CompleteWrite, Consume, ConsumerReads, inputVars, consumerVars
  <1> QED
    BY <1>1, <1>2, <1>3, <1>4, <1>5, <1>6 DEF Next, MainStep, HelperStep, Terminated

(***************************************************************************)
(* `elastic_aio` gives every output an ordered, complete copy of its input *)
(* and closes none too early, however the helper threads of the requests   *)
(* are scheduled and whatever the consumers do.                            *)
(***************************************************************************)
THEOREM AioImplementsTee == Spec => ImplementsTee
  <1>1. Init => T!TeeInit
    <2>1. Init => SubSeq(Input, 1, nin) = <<>>
      BY SubSeqEmpty DEF Init
    <2> QED
      BY <2>1 DEF Init, T!TeeInit
  <1> QED
    BY <1>1, StepImplementsTee, InvCorrect, PTL DEF Spec, ImplementsTee, T!TeeSpec
=============================================================================
