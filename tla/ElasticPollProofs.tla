-------------------------- MODULE ElasticPollProofs --------------------------
(***************************************************************************)
(* Proofs about ElasticPoll, for any number of outputs, any input, any     *)
(* buffer and pipe size and any behaviour of the consumers.                *)
(***************************************************************************)
EXTENDS ElasticPoll, PrefixLemmas, TLAPS

(* The bytes read so far. *)
Taken == SubSeq(Input, 1, nin)

(* What poll() can have reported of a descriptor when it is handled, later *)
(* than it was reported: an event stays true of the descriptor.            *)
EventsInv ==
  /\ revents[0] \subseteq {"IN", "HUP", "NVAL"}
  /\ \A o \in Outs :
       /\ revents[o] \subseteq {"OUT", "ERR", "NVAL"}
       /\ "ERR" \in revents[o] => gone[o]
  /\ \A f \in Ios : "NVAL" \in revents[f] => done[f]

(* Where handle_read_write() is, and when the loop has come to its end. *)
PlaceInv ==
  /\ pc = "handle" => i \in Ios
  /\ pc = "write" => i \in Outs /\ ~done[i]
  /\ pc \in {"finish", "exit"} => \A o \in Outs : done[o]

(* An output that is not done has been given every byte that was read; one *)
(* that is done was written whole, or has nobody who reads it.             *)
Data(o) ==
  /\ open[o] <=> ~done[o]
  /\ ~done[o] => sent[o] \o buf[o] = Taken
  /\ done[o] => gone[o] \/ (done[0] /\ sent[o] = Taken)

DataInv == \A o \in Outs : Data(o)

IInv == TypeOK /\ EventsInv /\ PlaceInv /\ DataInv
-----------------------------------------------------------------------------
LEMMA InitIInv == Init => IInv
  <1> SUFFICES ASSUME Init PROVE IInv
    OBVIOUS
  <1> USE ConsumersAssumption, PollAssumption
  <1>1. <<>> \in Seq(Byte) /\ <<>> \o <<>> = <<>> /\ Len(Input) \in Nat
    BY EmptySeq, ConcatEmptySeq, LenProperties
  <1>2. TypeOK
    <2>1. revents \in [Ios -> SUBSET {"IN", "OUT", "HUP", "ERR", "NVAL"}] /\ done \in [Ios -> BOOLEAN]
          /\ open \in [Outs -> BOOLEAN] /\ gone \in [Outs -> BOOLEAN] /\ nread \in [Outs -> Nat]
      BY DEF Init
    <2>2. buf \in [Outs -> Seq(Byte)] /\ sent \in [Outs -> Seq(Byte)]
      BY <1>1 DEF Init
    <2>3. i \in 0..(N + 1) /\ nin \in 0..supplied /\ supplied \in 0..Len(Input)
      BY <1>1 DEF Init
    <2> QED
      BY <2>1, <2>2, <2>3 DEF Init, TypeOK
  <1>3. EventsInv /\ PlaceInv
    BY DEF Init, EventsInv, PlaceInv, Ios, Outs
  <1>4. Taken = <<>>
    BY SubSeqEmpty DEF Init, Taken
  <1>5. DataInv
    BY <1>1, <1>4 DEF Init, DataInv, Data, Ios, Outs
  <1> QED
    BY <1>2, <1>3, <1>5 DEF IInv

(* Every output is a descriptor, and so is the input. *)
LEMMA IosOfOuts == 0 \in Ios /\ 0 \notin Outs /\ \A o \in Outs : o \in Ios
  BY ConsumersAssumption DEF Ios, Outs

(* What close_IOState() does to each descriptor. *)
LEMMA CloseFacts ==
  ASSUME TypeOK, NEW S, CloseIos(S)
  PROVE  /\ done' \in [Ios -> BOOLEAN] /\ open' \in [Outs -> BOOLEAN]
         /\ \A f \in Ios : done'[f] <=> done[f] \/ f \in S
         /\ \A o \in Outs : open'[o] <=> open[o] /\ o \notin S
  BY IosOfOuts DEF TypeOK, CloseIos

LEMMA BytesAssociate ==
  ASSUME NEW a \in Seq(Byte), NEW b \in Seq(Byte), NEW c \in Seq(Byte)
  PROVE  (a \o b) \o c = a \o (b \o c)
  BY ConcatAssociative

(* The type of what a read appends, and of what a write leaves. *)
LEMMA ReadFacts ==
  ASSUME TypeOK, HandleRead, NEW o \in Outs
  PROVE  /\ nin' \in nin..supplied
         /\ Taken \in Seq(Byte) /\ Taken' \in Seq(Byte)
         /\ Taken \in T!Prefixes(Taken')
         /\ buf'[o] \in Seq(Byte)
         /\ ~done[o] => buf'[o] = buf[o] \o SubSeq(Input, nin + 1, nin')
         /\ Taken' = Taken \o SubSeq(Input, nin + 1, nin')
         /\ SubSeq(Input, nin + 1, nin') \in Seq(Byte)
  <1> DEFINE n == IF supplied - nin < BufSize THEN supplied - nin ELSE BufSize
  <1>1. nin' = nin + n /\ buf' = [q \in Outs |-> IF done[q] THEN buf[q]
                                   ELSE buf[q] \o SubSeq(Input, nin + 1, nin + n)]
    BY DEF HandleRead
  <1>2. nin' \in nin..supplied /\ nin' \in 0..Len(Input) /\ nin \in 0..nin'
    <2>1. Len(Input) \in Nat
      BY PollAssumption, LenProperties
    <2>2. nin \in Nat /\ supplied \in Nat /\ nin <= supplied /\ supplied <= Len(Input)
      BY <2>1 DEF TypeOK
    <2> QED
      BY <1>1, <2>1, <2>2, PollAssumption
  <1>3. buf'[o] = IF done[o] THEN buf[o] ELSE buf[o] \o SubSeq(Input, nin + 1, nin')
    BY <1>1
  <1> HIDE DEF n
  <1>4. SubSeq(Input, nin + 1, nin') \in Seq(Byte) /\ Taken \in Seq(Byte) /\ Taken' \in Seq(Byte)
    BY <1>2, PrefixGrows, PollAssumption DEF Taken
  <1>5. Taken' = Taken \o SubSeq(Input, nin + 1, nin') /\ Taken \in PrefixesOf(Taken')
    BY <1>2, PrefixGrows, PollAssumption DEF Taken
  <1>6. Taken \in T!Prefixes(Taken')
    BY <1>5 DEF T!Prefixes, PrefixesOf
  <1>7. buf'[o] \in Seq(Byte)
    <2>1. buf[o] \in Seq(Byte)
      BY DEF TypeOK
    <2> QED
      BY <1>3, <1>4, <2>1, ConcatProperties
  <1> QED
    BY <1>2, <1>3, <1>4, <1>5, <1>6, <1>7

LEMMA WriteFacts ==
  ASSUME TypeOK, PlaceInv, WriteBytes
  PROVE  /\ i \in Outs /\ ~done[i]
         /\ sent' \in [Outs -> Seq(Byte)] /\ buf' \in [Outs -> Seq(Byte)]
         /\ sent' = [sent EXCEPT ![i] = sent'[i]] /\ buf' = [buf EXCEPT ![i] = buf'[i]]
         /\ sent[i] \in T!Prefixes(sent'[i])
         /\ sent'[i] \o buf'[i] = sent[i] \o buf[i]
  <1>1. PICK n \in 1..Len(buf[i]) :
          /\ sent' = [sent EXCEPT ![i] = @ \o SubSeq(buf[i], 1, n)]
          /\ buf' = [buf EXCEPT ![i] = SubSeq(@, n + 1, Len(@))]
    BY DEF WriteBytes
  <1>2. i \in Outs /\ ~done[i]
    BY DEF WriteBytes, PlaceInv
  <1>3. sent[i] \in Seq(Byte) /\ buf[i] \in Seq(Byte)
    BY <1>2 DEF TypeOK
  <1> DEFINE head == SubSeq(buf[i], 1, n)
  <1> DEFINE rest == SubSeq(buf[i], n + 1, Len(buf[i]))
  <1>4. head \in Seq(Byte) /\ rest \in Seq(Byte) /\ buf[i] = head \o rest
    <2>1. n \in 0..Len(buf[i])
      BY <1>3, LenProperties
    <2> QED
      BY <1>3, <2>1, PrefixSplit
  <1>5. sent'[i] = sent[i] \o head /\ buf'[i] = rest
    BY <1>1, <1>2 DEF TypeOK
  <1>6. sent' = [sent EXCEPT ![i] = sent'[i]] /\ buf' = [buf EXCEPT ![i] = buf'[i]]
    BY <1>1, <1>5
  <1> HIDE DEF head, rest
  <1>7. sent'[i] \in Seq(Byte) /\ buf'[i] \in Seq(Byte)
    BY <1>3, <1>4, <1>5, ConcatProperties
  <1>8. sent' \in [Outs -> Seq(Byte)] /\ buf' \in [Outs -> Seq(Byte)]
    BY <1>2, <1>6, <1>7 DEF TypeOK
  <1>9. sent[i] \in T!Prefixes(sent'[i])
    <2>1. sent[i] \in PrefixesOf(sent[i] \o head)
      BY <1>3, <1>4, PrefixOfConcat
    <2> QED
      BY <1>5, <2>1 DEF T!Prefixes, PrefixesOf
  <1>10. sent'[i] \o buf'[i] = sent[i] \o buf[i]
    <2>1. (sent[i] \o head) \o rest = sent[i] \o (head \o rest)
      BY <1>3, <1>4, BytesAssociate
    <2> QED
      BY <1>4, <1>5, <2>1
  <1> QED
    BY <1>2, <1>6, <1>8, <1>9, <1>10
-----------------------------------------------------------------------------
LEMMA TypeStep == IInv /\ [Next]_vars => TypeOK'
  <1> SUFFICES ASSUME IInv, [Next]_vars PROVE TypeOK'
    OBVIOUS
  <1> USE ConsumersAssumption, PollAssumption DEF IInv
  <1>0. Len(Input) \in Nat
    BY LenProperties
  <1>1. CASE PrepareForPoll
    <2>1. done' \in [Ios -> BOOLEAN] /\ open' \in [Outs -> BOOLEAN]
      BY <1>1, CloseFacts DEF PrepareForPoll
    <2> QED
      BY <1>1, <2>1 DEF PrepareForPoll, sourceVars, consumerVars, TypeOK
  <1>2. CASE Poll
    <2>1. revents' \in [Ios -> SUBSET {"IN", "OUT", "HUP", "ERR", "NVAL"}]
      BY <1>2 DEF Poll, Ready, InputEvents, OutputEvents
    <2> QED
      BY <1>2, <2>1 DEF Poll, sourceVars, consumerVars, TypeOK
  <1>3. CASE HandleOther \/ EndWrite
    <2>1. done' \in [Ios -> BOOLEAN] /\ open' \in [Outs -> BOOLEAN]
      BY <1>3, CloseFacts DEF HandleOther, EndWrite
    <2>2. i' \in 0..(N + 1) /\ pc' \in {"prepare", "handle"}
      BY <1>3, IosOfOuts DEF HandleOther, EndWrite, Advance, PlaceInv, Ios
    <2> QED
      BY <1>3, <2>1, <2>2 DEF HandleOther, EndWrite, sourceVars, consumerVars, TypeOK
  <1>4. CASE HandleRead
    <2>1. done' \in [Ios -> BOOLEAN] /\ open' \in [Outs -> BOOLEAN]
      BY <1>4, CloseFacts DEF HandleRead
    <2>2. i' \in 0..(N + 1) /\ pc' \in {"prepare", "handle"}
      BY <1>4 DEF HandleRead, Advance, PlaceInv, Ios
    <2>3. buf' \in [Outs -> Seq(Byte)] /\ nin' \in 0..supplied
      <3>1. \A o \in Outs : buf'[o] \in Seq(Byte) /\ nin' \in nin..supplied
        BY <1>4, ReadFacts
      <3>2. buf' = [o \in Outs |-> buf'[o]]
        BY <1>4 DEF HandleRead
      <3>3. 1 \in Outs
        BY DEF Outs
      <3>4. nin' \in nin..supplied /\ nin \in Nat
        BY <3>1, <3>3 DEF TypeOK
      <3>5. nin' \in 0..supplied
        BY <1>0, <3>4 DEF TypeOK
      <3> QED
        BY <3>1, <3>2, <3>5
    <2> QED
      BY <1>4, <2>1, <2>2, <2>3 DEF HandleRead, sourceVars, consumerVars, TypeOK
  <1>5. CASE BeginWrite
    BY <1>5 DEF BeginWrite, sourceVars, consumerVars, TypeOK
  <1>6. CASE WriteBytes
    <2>1. sent' \in [Outs -> Seq(Byte)] /\ buf' \in [Outs -> Seq(Byte)]
      BY <1>6, WriteFacts
    <2> QED
      BY <1>6, <2>1 DEF WriteBytes, sourceVars, consumerVars, TypeOK
  <1>7. CASE Finish
    <2>1. done' \in [Ios -> BOOLEAN] /\ open' \in [Outs -> BOOLEAN]
      BY <1>7, CloseFacts DEF Finish
    <2> QED
      BY <1>7, <2>1 DEF Finish, sourceVars, consumerVars, TypeOK
  <1>8. CASE Supply \/ SourceHangsUp
    <2>1. supplied' \in 0..Len(Input) /\ nin' \in 0..supplied' /\ hup' \in BOOLEAN
      <3>1. nin \in Nat /\ supplied \in Nat /\ nin <= supplied /\ supplied <= Len(Input)
            /\ hup \in BOOLEAN
        BY <1>0 DEF TypeOK
      <3>2. nin' = nin
        BY <1>8 DEF Supply, SourceHangsUp, pollVars
      <3>3. CASE Supply
        BY <1>0, <3>1, <3>2, <3>3 DEF Supply
      <3>4. CASE SourceHangsUp
        BY <1>0, <3>1, <3>2, <3>4 DEF SourceHangsUp
      <3> QED
        BY <1>8, <3>3, <3>4
    <2>2. UNCHANGED <<pollVars, consumerVars, sent, open>>
      BY <1>8 DEF Supply, SourceHangsUp
    <2> QED
      BY <2>1, <2>2 DEF pollVars, consumerVars, TypeOK
  <1>9. ASSUME NEW o \in Outs, Consume(o) \/ Hangup(o) PROVE TypeOK'
    <2>1. nread' \in [Outs -> Nat] /\ gone' \in [Outs -> BOOLEAN]
      <3>1. nread \in [Outs -> Nat] /\ gone \in [Outs -> BOOLEAN]
        BY DEF TypeOK
      <3>2. CASE Consume(o)
        BY <3>1, <3>2 DEF Consume, ConsumerReads
      <3>3. CASE Hangup(o)
        BY <3>1, <3>3 DEF Hangup, ConsumerHangsUp
      <3> QED
        BY <1>9, <3>2, <3>3
    <2>2. UNCHANGED <<pollVars, sourceVars, sent, open>>
      BY <1>9 DEF Consume, Hangup
    <2> QED
      BY <2>1, <2>2 DEF pollVars, sourceVars, TypeOK
  <1>10. CASE UNCHANGED vars
    BY <1>10 DEF vars, pollVars, sourceVars, consumerVars, TypeOK
  <1> QED
    BY <1>1, <1>2, <1>3, <1>4, <1>5, <1>6, <1>7, <1>8, <1>9, <1>10 DEF Next, PollStep, Terminated

(* An event that was reported stays true, as nothing is ever undone.       *)
LEMMA EventsStep == IInv /\ [Next]_vars => EventsInv'
  <1> SUFFICES ASSUME IInv, [Next]_vars PROVE EventsInv'
    OBVIOUS
  <1> USE IosOfOuts DEF IInv
  <1>1. CASE PrepareForPoll
    BY <1>1 DEF PrepareForPoll, EventsInv
  <1>2. CASE Poll
    <2>1. \A f \in Ios : revents'[f] = Ready(f)
      BY <1>2 DEF Poll
    <2>2. UNCHANGED <<done, gone>>
      BY <1>2 DEF Poll, consumerVars
    <2>3. revents'[0] \subseteq {"IN", "HUP", "NVAL"}
      BY <2>1 DEF Ready, InputEvents
    <2>4. ASSUME NEW o \in Outs
          PROVE  revents'[o] \subseteq {"OUT", "ERR", "NVAL"} /\ ("ERR" \in revents'[o] => gone[o])
      BY <2>1 DEF Ready, OutputEvents
    <2>5. ASSUME NEW f \in Ios, "NVAL" \in revents'[f] PROVE done[f]
      <3>1. "NVAL" \notin InputEvents /\ "NVAL" \notin OutputEvents(f)
        BY DEF InputEvents, OutputEvents
      <3> QED
        BY <2>1, <2>5, <3>1 DEF Ready
    <2> QED
      BY <2>2, <2>3, <2>4, <2>5 DEF EventsInv
  <1>3. ASSUME UNCHANGED <<revents, gone>>,
               \A f \in Ios : done[f] => done'[f]
        PROVE  EventsInv'
    BY <1>3 DEF EventsInv
  <1>4. CASE HandleOther \/ HandleRead \/ EndWrite \/ Finish
    <2>1. \A f \in Ios : done[f] => done'[f]
      BY <1>4, CloseFacts DEF HandleOther, HandleRead, EndWrite, Finish
    <2> QED
      BY <1>3, <1>4, <2>1 DEF HandleOther, HandleRead, EndWrite, Finish, consumerVars
  <1>5. CASE BeginWrite \/ WriteBytes \/ Supply \/ SourceHangsUp \/ UNCHANGED vars
    BY <1>3, <1>5 DEF BeginWrite, WriteBytes, Supply, SourceHangsUp, vars, pollVars, consumerVars
  <1>6. ASSUME NEW o \in Outs, Consume(o) \/ Hangup(o) PROVE EventsInv'
    <2>1. UNCHANGED <<revents, done>> /\ \A q \in Outs : gone[q] => gone'[q]
      BY <1>6 DEF Consume, Hangup, ConsumerReads, ConsumerHangsUp, pollVars, TypeOK
    <2> QED
      BY <2>1 DEF EventsInv
  <1> QED
    BY <1>1, <1>2, <1>4, <1>5, <1>6 DEF Next, PollStep, Terminated

LEMMA PlaceStep == IInv /\ [Next]_vars => PlaceInv'
  <1> SUFFICES ASSUME IInv, [Next]_vars PROVE PlaceInv'
    OBVIOUS
  <1> USE ConsumersAssumption, IosOfOuts DEF IInv
  <1>1. CASE PrepareForPoll
    BY <1>1 DEF PrepareForPoll, PlaceInv
  <1>2. CASE Poll
    BY <1>2 DEF Poll, PlaceInv
  <1>3. CASE HandleOther \/ HandleRead \/ EndWrite
    <2>1. i \in Ios /\ i' = i + 1 /\ pc' = IF i = N THEN "prepare" ELSE "handle"
      BY <1>3 DEF HandleOther, HandleRead, EndWrite, Advance, PlaceInv
    <2>2. pc' = "handle" => i' \in Ios
      BY <2>1 DEF Ios
    <2> QED
      BY <2>1, <2>2 DEF PlaceInv
  <1>4. CASE BeginWrite
    <2>1. i \in Ios /\ "OUT" \in revents[i] /\ ~done[i] /\ UNCHANGED <<i, done>> /\ pc' = "write"
      BY <1>4 DEF BeginWrite, PlaceInv
    <2>2. i # 0
      BY <2>1 DEF EventsInv
    <2>3. i \in Outs
      BY <2>1, <2>2 DEF Ios, Outs
    <2> QED
      BY <2>1, <2>3 DEF PlaceInv
  <1>5. CASE Finish
    <2>1. \A f \in Ios : done[f] => done'[f]
      BY <1>5, CloseFacts DEF Finish
    <2> QED
      BY <1>5, <2>1 DEF Finish, PlaceInv
  <1>6. ASSUME UNCHANGED <<pc, i, done>> PROVE PlaceInv'
    BY <1>6 DEF PlaceInv
  <1>7. CASE WriteBytes \/ Supply \/ SourceHangsUp \/ UNCHANGED vars
    BY <1>6, <1>7 DEF WriteBytes, Supply, SourceHangsUp, vars, pollVars
  <1>8. ASSUME NEW o \in Outs, Consume(o) \/ Hangup(o) PROVE PlaceInv'
    BY <1>6, <1>8 DEF Consume, Hangup, pollVars
  <1> QED
    BY <1>1, <1>2, <1>3, <1>4, <1>5, <1>7, <1>8 DEF Next, PollStep, Terminated
-----------------------------------------------------------------------------
(* An output may be closed when it is done already, or nobody reads it, or *)
(* it has everything.                                                      *)
MayClose(o) == done[o] \/ gone[o] \/ (done[0] /\ sent[o] = Taken)

LEMMA ClosedData ==
  ASSUME IInv, NEW S, CloseIos(S), UNCHANGED <<sent, buf, nin, gone>>,
         \A o \in Outs : o \in S => MayClose(o)
  PROVE  DataInv'
  <1> SUFFICES ASSUME NEW o \in Outs PROVE Data(o)'
    BY DEF DataInv
  <1>1. Data(o) /\ Taken' = Taken
    BY DEF IInv, DataInv, Taken
  <1>2. /\ done'[o] <=> done[o] \/ o \in S
        /\ open'[o] <=> open[o] /\ o \notin S
        /\ done[0] => done'[0]
    BY CloseFacts, IosOfOuts DEF IInv
  <1> QED
    BY <1>1, <1>2 DEF Data, MayClose

LEMMA SomethingFacts ==
  ASSUME IInv, i \in Outs, SomethingHappened
  PROVE  MayClose(i)
  <1>1. "ERR" \in revents[i] \/ "NVAL" \in revents[i]
    BY DEF SomethingHappened, IInv, EventsInv
  <1> QED
    BY <1>1, IosOfOuts DEF IInv, EventsInv, MayClose

LEMMA FinishedFacts ==
  ASSUME IInv, NEW o \in Outs, o \in Finished
  PROVE  MayClose(o)
  <1>1. done[0] /\ buf[o] = <<>>
    BY DEF Finished
  <1>2. ~done[o] => sent[o] \o <<>> = Taken
    BY <1>1 DEF IInv, DataInv, Data
  <1>3. sent[o] \o <<>> = sent[o]
    BY ConcatEmptySeq DEF IInv, TypeOK
  <1> QED
    BY <1>1, <1>2, <1>3 DEF MayClose

(* A read is always of the input, and while it goes on no output is done   *)
(* unless its consumer has hung up.                                        *)
LEMMA ReadIsInput ==
  ASSUME IInv, HandleRead
  PROVE  i = 0 /\ ~done[0] /\ \A o \in Outs : done[o] => gone[o]
  <1>1. i \in Ios /\ "IN" \in revents[i] /\ ~done[i]
    BY DEF HandleRead, IInv, PlaceInv
  <1>2. i \notin Outs
    BY <1>1 DEF IInv, EventsInv
  <1>3. i = 0
    BY <1>1, <1>2, ConsumersAssumption DEF Ios, Outs
  <1> QED
    BY <1>1, <1>3 DEF IInv, DataInv, Data

LEMMA DataStep == IInv /\ [Next]_vars => DataInv'
  <1> SUFFICES ASSUME IInv, [Next]_vars PROVE DataInv'
    OBVIOUS
  <1>1. CASE PrepareForPoll
    BY <1>1, ClosedData, FinishedFacts DEF PrepareForPoll, consumerVars
  <1>2. CASE HandleOther
    <2> DEFINE S == IF SomethingHappened THEN {i} ELSE {}
    <2>1. CloseIos(S) /\ UNCHANGED <<sent, buf, nin, gone>>
      BY <1>2 DEF HandleOther, consumerVars
    <2>2. \A o \in Outs : o \in S => MayClose(o)
      BY SomethingFacts
    <2> HIDE DEF S
    <2> QED
      BY <2>1, <2>2, ClosedData
  <1>3. CASE HandleRead
    <2> SUFFICES ASSUME NEW o \in Outs PROVE Data(o)'
      BY DEF DataInv
    <2> DEFINE S == IF SomethingHappened THEN {i} ELSE {}
    <2> DEFINE chunk == SubSeq(Input, nin + 1, nin')
    <2>1. CloseIos(S) /\ UNCHANGED <<sent, gone>>
      BY <1>3 DEF HandleRead, consumerVars
    <2>2. o \notin S
      BY <1>3, ReadIsInput, IosOfOuts
    <2> HIDE DEF S
    <2>3. (done'[o] <=> done[o]) /\ (open'[o] <=> open[o])
      BY <2>1, <2>2, CloseFacts, IosOfOuts DEF IInv
    <2>4. done[o] => gone'[o]
      BY <1>3, <2>1, ReadIsInput
    <2>5. ASSUME ~done[o] PROVE sent[o] \o buf'[o] = Taken'
      <3>1. buf'[o] = buf[o] \o chunk /\ Taken' = Taken \o chunk /\ chunk \in Seq(Byte)
        BY <1>3, <2>5, ReadFacts DEF IInv
      <3>2. sent[o] \o buf[o] = Taken /\ sent[o] \in Seq(Byte) /\ buf[o] \in Seq(Byte)
        BY <2>5 DEF IInv, DataInv, Data, TypeOK
      <3> HIDE DEF chunk
      <3>3. (sent[o] \o buf[o]) \o chunk = sent[o] \o (buf[o] \o chunk)
        BY <3>1, <3>2, BytesAssociate
      <3> QED
        BY <3>1, <3>2, <3>3
    <2>6. open[o] <=> ~done[o]
      BY DEF IInv, DataInv, Data
    <2> QED
      BY <2>1, <2>3, <2>4, <2>5, <2>6 DEF Data
  <1>4. CASE WriteBytes
    <2> SUFFICES ASSUME NEW o \in Outs PROVE Data(o)'
      BY DEF DataInv
    <2>1. UNCHANGED <<done, open, nin, gone>> /\ Taken' = Taken /\ Data(o)
      BY <1>4 DEF WriteBytes, consumerVars, IInv, DataInv, Taken
    <2>2. CASE o = i
      <3>1. ~done[o] /\ sent'[o] \o buf'[o] = sent[o] \o buf[o]
        BY <1>4, <2>2, WriteFacts DEF IInv
      <3> QED
        BY <2>1, <3>1 DEF Data
    <2>3. CASE o # i
      <3>1. sent'[o] = sent[o] /\ buf'[o] = buf[o]
        BY <1>4, <2>3 DEF WriteBytes, IInv, TypeOK
      <3> QED
        BY <2>1, <3>1 DEF Data
    <2> QED
      BY <2>2, <2>3
  <1>5. CASE EndWrite
    <2> DEFINE S == IF SomethingHappened \/ (gone[i] /\ ~wrote /\ buf[i] # <<>>) THEN {i} ELSE {}
    <2>1. CloseIos(S) /\ UNCHANGED <<sent, buf, nin, gone>>
      BY <1>5 DEF EndWrite, consumerVars
    <2>2. \A o \in Outs : o \in S => MayClose(o)
      BY SomethingFacts DEF MayClose
    <2> HIDE DEF S
    <2> QED
      BY <2>1, <2>2, ClosedData
  <1>6. CASE Finish
    <2>1. \A o \in Outs : o \in Ios => MayClose(o)
      BY <1>6 DEF Finish, IInv, PlaceInv, MayClose
    <2> QED
      BY <1>6, <2>1, ClosedData DEF Finish, consumerVars
  <1>7. ASSUME UNCHANGED <<sent, buf, nin, done, open>>, \A o \in Outs : gone[o] => gone'[o]
        PROVE  DataInv'
    BY <1>7 DEF IInv, DataInv, Data, Taken
  <1>8. CASE Poll \/ BeginWrite \/ Supply \/ SourceHangsUp \/ UNCHANGED vars
    BY <1>7, <1>8 DEF Poll, BeginWrite, Supply, SourceHangsUp, vars, pollVars, consumerVars
  <1>9. ASSUME NEW o \in Outs, Consume(o) \/ Hangup(o) PROVE DataInv'
    <2>1. UNCHANGED <<sent, buf, nin, done, open>>
      BY <1>9 DEF Consume, Hangup, pollVars
    <2>2. \A q \in Outs : gone[q] => gone'[q]
      BY <1>9 DEF Consume, Hangup, ConsumerReads, ConsumerHangsUp, IInv, TypeOK
    <2> QED
      BY <1>7, <2>1, <2>2
  <1> QED
    BY <1>1, <1>2, <1>3, <1>4, <1>5, <1>6, <1>8, <1>9 DEF Next, PollStep, Terminated

LEMMA InvCorrect == Spec => []IInv
  <1>1. IInv /\ [Next]_vars => IInv'
    BY TypeStep, EventsStep, PlaceStep, DataStep DEF IInv
  <1> QED
    BY <1>1, InitIInv, PTL DEF Spec

(* The variables of elastic_poll keep their types: nothing is read past    *)
(* what the input's writer has supplied, and no index past the arrays.     *)
THEOREM TypeCorrect == Spec => []TypeOK
  <1>1. IInv => TypeOK
    BY DEF IInv
  <1> QED
    BY <1>1, InvCorrect, PTL
-----------------------------------------------------------------------------
(* Every step of the command is a step of Tee, or changes nothing Tee sees. *)
LEMMA ClosedTee ==
  ASSUME IInv, NEW S, CloseIos(S), UNCHANGED <<sent, buf, nin, gone>>,
         \A o \in Outs : o \in S => MayClose(o),
         0 \notin S
  PROVE  T!TeeClose
  <1> DEFINE C == {o \in Outs : o \in S /\ open[o]}
  <1>1. C \in SUBSET {o \in Outs : gone[o] \/ (done[0] /\ sent[o] = SubSeq(Input, 1, nin))}
    BY DEF IInv, DataInv, Data, MayClose, Taken
  <1>2. open' = [o \in Outs |-> open[o] /\ o \notin C]
    <2>1. open' = [o \in Outs |-> open[o] /\ o \notin S]
      BY DEF CloseIos
    <2>2. \A o \in Outs : (open[o] /\ o \notin S) = (open[o] /\ o \notin C)
      OBVIOUS
    <2> QED
      BY <2>1, <2>2
  <1>3. done'[0] = done[0]
    BY CloseFacts, IosOfOuts DEF IInv, TypeOK
  <1> HIDE DEF C
  <1> QED
    BY <1>1, <1>2, <1>3 DEF T!TeeClose

LEMMA OpenKept ==
  ASSUME IInv, NEW S, CloseIos(S), \A o \in Outs : o \in S => done[o]
  PROVE  open' = open
  <1>1. open' = [o \in Outs |-> open[o] /\ o \notin S] /\ open = [o \in Outs |-> open[o]]
    BY DEF CloseIos, IInv, TypeOK
  <1>2. ASSUME NEW o \in Outs PROVE (open[o] /\ o \notin S) = open[o]
    <2>1. open[o] \in BOOLEAN
      BY DEF IInv, TypeOK
    <2>2. open[o] => o \notin S
      BY DEF IInv, DataInv, Data
    <2> QED
      BY <2>1, <2>2
  <1> QED
    BY <1>1, <1>2

(* The input is closed, and no output with it. *)
LEMMA EndTee ==
  ASSUME IInv, NEW S, CloseIos(S), UNCHANGED <<sent, nin, gone>>,
         0 \in S, \A o \in Outs : o \in S => done[o]
  PROVE  T!TeeEnd
  <1>1. done'[0] = TRUE
    BY CloseFacts, IosOfOuts DEF IInv, TypeOK
  <1>2. open' = open
    BY OpenKept
  <1> QED
    BY <1>1, <1>2 DEF T!TeeEnd

LEMMA StepImplementsTee == IInv /\ [Next]_vars => [T!TeeNext]_(T!teeVars)
  <1> SUFFICES ASSUME IInv, [Next]_vars, UNCHANGED T!teeVars => FALSE
               PROVE  T!TeeNext
    OBVIOUS
  <1>0. UNCHANGED <<nin, done, sent, open, gone>> => FALSE
    BY DEF T!teeVars
  <1>1. CASE PrepareForPoll
    <2>1. 0 \notin Finished
      BY IosOfOuts DEF Finished
    <2>2. T!TeeClose
      BY <1>1, <2>1, ClosedTee, FinishedFacts DEF PrepareForPoll, consumerVars
    <2> QED
      BY <2>2 DEF T!TeeNext
  <1>2. CASE HandleOther
    <2> DEFINE S == IF SomethingHappened THEN {i} ELSE {}
    <2>1. CloseIos(S) /\ UNCHANGED <<sent, buf, nin, gone>>
      BY <1>2 DEF HandleOther, consumerVars
    <2>2. \A o \in Outs : o \in S => MayClose(o)
      BY SomethingFacts
    <2>3. 0 \in S => \A o \in Outs : o \notin S
      BY IosOfOuts
    <2> HIDE DEF S
    <2>4. T!TeeClose \/ T!TeeEnd
      BY <2>1, <2>2, <2>3, ClosedTee, EndTee
    <2> QED
      BY <2>4 DEF T!TeeNext
  <1>3. CASE HandleRead
    <2> DEFINE S == IF SomethingHappened THEN {i} ELSE {}
    <2>1. CloseIos(S) /\ UNCHANGED <<sent, gone>>
      BY <1>3 DEF HandleRead, consumerVars
    <2>2. \A o \in Outs : o \notin S
      BY <1>3, ReadIsInput, IosOfOuts
    <2>3. ~done[0]
      BY <1>3, ReadIsInput
    <2>4. Taken' \in Seq(Byte) /\ Taken \in T!Prefixes(Taken')
      <3>1. 1 \in Outs
        BY ConsumersAssumption DEF Outs
      <3> QED
        BY <1>3, <3>1, ReadFacts DEF IInv
    <2> HIDE DEF S
    <2>5. open' = open
      BY <2>1, <2>2, OpenKept
    <2>6. done'[0] \in BOOLEAN
      BY <2>1, CloseFacts, IosOfOuts DEF IInv
    <2>7. T!TeeTake
      BY <2>1, <2>3, <2>4, <2>5, <2>6 DEF T!TeeTake, Taken
    <2> QED
      BY <2>7 DEF T!TeeNext
  <1>4. CASE WriteBytes
    <2>1. i \in Outs /\ ~done[i] /\ sent' = [sent EXCEPT ![i] = sent'[i]]
          /\ sent[i] \in T!Prefixes(sent'[i])
      BY <1>4, WriteFacts DEF IInv
    <2>2. UNCHANGED <<done, open, nin, gone>> /\ open[i]
      BY <1>4, <2>1 DEF WriteBytes, consumerVars, IInv, DataInv, Data
    <2>3. sent'[i] \in T!Prefixes(SubSeq(Input, 1, nin))
      <3>1. sent'[i] \o buf'[i] = Taken
        BY <1>4, <2>1, WriteFacts DEF IInv, DataInv, Data
      <3>2. sent'[i] \in Seq(Byte) /\ buf'[i] \in Seq(Byte)
        BY <1>4, <2>1, WriteFacts DEF IInv
      <3>3. sent'[i] \in PrefixesOf(sent'[i] \o buf'[i])
        BY <3>2, PrefixOfConcat
      <3> QED
        BY <3>1, <3>3 DEF T!Prefixes, PrefixesOf, Taken
    <2>4. T!TeeDeliver(i)
      BY <2>1, <2>2, <2>3 DEF T!TeeDeliver
    <2> QED
      BY <2>1, <2>4 DEF T!TeeNext
  <1>5. CASE EndWrite
    <2> DEFINE S == IF SomethingHappened \/ (gone[i] /\ ~wrote /\ buf[i] # <<>>) THEN {i} ELSE {}
    <2>1. CloseIos(S) /\ UNCHANGED <<sent, buf, nin, gone>>
      BY <1>5 DEF EndWrite, consumerVars
    <2>2. \A o \in Outs : o \in S => MayClose(o)
      BY SomethingFacts DEF MayClose
    <2>3. 0 \notin S
      BY <1>5, IosOfOuts DEF EndWrite, IInv, PlaceInv
    <2> HIDE DEF S
    <2>4. T!TeeClose
      BY <2>1, <2>2, <2>3, ClosedTee
    <2> QED
      BY <2>4 DEF T!TeeNext
  <1>6. CASE Finish
    <2>1. CloseIos(Ios) /\ UNCHANGED <<sent, nin, gone>> /\ \A o \in Outs : done[o]
      BY <1>6 DEF Finish, consumerVars, IInv, PlaceInv
    <2>2. T!TeeEnd
      BY <2>1, EndTee, IosOfOuts
    <2> QED
      BY <2>2 DEF T!TeeNext
  <1>7. CASE Poll \/ BeginWrite \/ Supply \/ SourceHangsUp \/ UNCHANGED vars
    BY <1>0, <1>7 DEF Poll, BeginWrite, Supply, SourceHangsUp, vars, pollVars, consumerVars
  <1>8. ASSUME NEW o \in Outs, Consume(o) \/ Hangup(o) PROVE T!TeeNext
    <2>1. CASE Consume(o)
      BY <1>0, <2>1 DEF Consume, ConsumerReads, pollVars
    <2>2. CASE Hangup(o)
      <3>1. T!TeeHangup(o)
        BY <2>2 DEF Hangup, ConsumerHangsUp, pollVars, T!TeeHangup
      <3> QED
        BY <3>1 DEF T!TeeNext
    <2> QED
      BY <1>8, <2>1, <2>2
  <1> QED
    BY <1>1, <1>2, <1>3, <1>4, <1>5, <1>6, <1>7, <1>8 DEF Next, PollStep, Terminated

(***************************************************************************)
(* `elastic_poll` gives every output an ordered, complete copy of what it  *)
(* reads and closes none too early, whatever poll() reports and however    *)
(* the pipes fill, the bytes arrive and the consumers behave.              *)
(***************************************************************************)
THEOREM PollImplementsTee == Spec => ImplementsTee
  <1>1. Init => T!TeeInit
    <2>1. Init => SubSeq(Input, 1, nin) = <<>>
      BY SubSeqEmpty DEF Init
    <2> QED
      BY <2>1, IosOfOuts DEF Init, T!TeeInit
  <1> QED
    BY <1>1, StepImplementsTee, InvCorrect, PTL DEF Spec, ImplementsTee, T!TeeSpec
=============================================================================
