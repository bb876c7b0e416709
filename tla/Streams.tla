------------------------------ MODULE Streams ------------------------------
(***************************************************************************)
(* A writer that prints items to an output stream, and a reader of what it *)
(* wrote.  Every write that a flush makes is one piece, and the reads of   *)
(* the input stream return the pieces.  The reader applies the operations  *)
(* of instream.c in any order.                                             *)
(***************************************************************************)
EXTENDS InStream, Writer
VARIABLE xin                     \* the input stream
streamVars == <<writerVars, xin>>

OpenX(reads, lg) == [at |-> <<>>, off |-> 0, lg |-> lg, reads |-> reads]
ClosedX == OpenX(<<>>, 0)

StreamsIdle == WriterIdle /\ xin = ClosedX
StreamsInit == WriterInit /\ xin = ClosedX

Write == PutNext \/ BeginClose \/ WriteOut \/ EndFlush
CloseO == EndClose /\ xin' = OpenX(sink, xout.inLg)

(***************************************************************************)
(* The reader.                                                             *)
(***************************************************************************)
Answers(x) ==
    [peek     |-> PeekBytes(x, <<"1", "\r">>),       peekAny  |-> PeekChars(x, {"\n", "-"}),
     until    |-> UntilChars(x, {"\r", "-"}),        while    |-> WhileChars(x, {"1", "\r"}),
     bytes    |-> UntilBytes(x, <<"\r", "\n">>),     skip     |-> SkipBytes(x, <<"1", "\n">>),
     chr      |-> SliceChr(x, "\n"),                 line     |-> SliceLine(x),
     str      |-> SliceStr(x, <<"\r", "\n">>),       skipAny  |-> SkipChars(x, {" ", "\n"}),
     int      |-> ParseInt(x),                       unsigned |-> ParseUnsigned(x),
     double   |-> ParseDouble(x),                    slurp    |-> Slurp(x),
     close    |-> WaitClose(x)]

UseX ==
    /\ xout.state = "closed"
    /\ UNCHANGED writerVars
    /\ \E op \in DOMAIN Answers(xin) : xin' = Answers(xin)[op].x

StreamsNext == (Write /\ UNCHANGED xin) \/ CloseO \/ UseX

(***************************************************************************)
(* Properties.                                                             *)
(***************************************************************************)
\* The operations of the reader as functions of the text that is still to
\* come: what they answer and what they leave.
Rest(x) == SubSeq(x.at, x.off + 1, Len(x.at)) \o FlattenSeq(x.reads)

Prefix(text, S) == Max({i \in 0 .. Len(text) : \A j \in 1 .. i : text[j] \in S})
After(text, n) == SubSeq(text, n + 1, Len(text))
Starts(text, s) == Len(s) <= Len(text) /\ SubSeq(text, 1, Len(s)) = s
Before(text, s) ==
    Min({i \in 0 .. Len(text) : i = Len(text) \/ Starts(After(text, i), s)})
Left(n, text, got) == [rest |-> After(text, n), got |-> got]
Token(text, n) == IF text = <<>> THEN Absent ELSE Present(SubSeq(text, 1, n))

TextNumber(text, start, span, Parse(_)) ==
    LET n == Prefix(After(text, start), span)
    IN  Left(start + n, text,
             IF n = 0 \/ n > NumMax THEN [ok |-> FALSE, value |-> 0]
             ELSE Parse(SubSeq(text, start + 1, start + n)))
Signed(text) == text # <<>> /\ Head(text) \in {"+", "-"}
Places(text) == Prefix(After(text, IF Signed(text) THEN 1 ELSE 0), DigitChars)
TextValue(text) ==
    LET value[i \in 0 .. Len(text)] ==
            IF i = 0 THEN 0
            ELSE IF text[i] \in DigitChars THEN 10 * value[i - 1] + DigitValue[text[i]] ELSE 0
        n == value[Places(text) + (IF Signed(text) THEN 1 ELSE 0)]
    IN  IF Signed(text) /\ Head(text) = "-" THEN -n ELSE n
TextParsed(text, range) ==
    [ok |-> Places(text) > 0 /\ TextValue(text) \in range, value |-> TextValue(text)]
TextLine(text, n) ==
    Token(text, IF n > 0 /\ text[n] = "\r" THEN n - 1 ELSE n)

TextAnswers(text) ==
    LET cr == Before(text, <<"\r", "\n">>)
        nl == Before(text, <<"\n">>)
        start == Prefix(text, Blanks)
    IN  [peek     |-> Left(0, text, Starts(text, <<"1", "\r">>)),
         peekAny  |-> Left(0, text, text # <<>> /\ Head(text) \in {"\n", "-"}),
         until    |-> Left(Prefix(text, Characters \ {"\r", "-"}), text, Token(text, Prefix(text, Characters \ {"\r", "-"}))),
         while    |-> Left(Prefix(text, {"1", "\r"}), text, Token(text, Prefix(text, {"1", "\r"}))),
         bytes    |-> Left(cr, text, Token(text, cr)),
         skip     |-> Left(IF Starts(text, <<"1", "\n">>) THEN 2 ELSE 0, text, Starts(text, <<"1", "\n">>)),
         chr      |-> Left(nl + 1, text, Token(text, nl)),
         line     |-> Left(nl + 1, text, TextLine(text, nl)),
         str      |-> Left(cr + 2, text, Token(text, cr)),
         skipAny  |-> Left(Prefix(text, {" ", "\n"}), text, Prefix(text, {" ", "\n"}) > 0),
         int      |-> TextNumber(text, start, DigitChars \cup {"+", "-"},
                                 LAMBDA t : TextParsed(t, -IntMax - 1 .. IntMax)),
         unsigned |-> TextNumber(text, start, DigitChars \cup {"+"},
                                 LAMBDA t : TextParsed(t, 0 .. 2 * IntMax + 1)),
         double   |-> TextNumber(text, start, DigitChars \cup {"+", "-", ".", "E", "e"},
                                 LAMBDA t : [ok |-> TRUE, value |-> t]),
         slurp    |-> Left(0, text, 0),
         close    |-> Left(Len(text), text, 0)]

\* The reader cannot tell how its input arrived: every operation answers, and
\* leaves, what it would if the whole text lay before it, wherever the reads
\* cut it, also within a delimiter, a number or a line's end, and whatever
\* the buffer gave up of what was consumed (instream.c).
StreamsReadWhole ==
    xout.state = "closed" =>
        LET answers == Answers(xin)
        IN  [op \in DOMAIN answers |-> [rest |-> Rest(answers[op].x), got |-> answers[op].got]]
              = TextAnswers(Rest(xin))

\* The numbers the reader finds are those that were printed, the smallest and
\* the largest included, if nothing was lost on the way and nothing but blanks
\* was printed between them; and the text of a number, with its end, fits the
\* buffer it is built in (print_int_FildeshO, parse_int_FildeshX).
RECURSIVE IntsIn(_)
IntsIn(r) == IF r.got.ok THEN <<r.got.value>> \o IntsIn(ParseInt(r.x)) ELSE <<>>
StreamsParseBack ==
    LET ints == SelectSeq(xout.items, LAMBDA item : item.op = "int")
    IN  /\ \A i \in DOMAIN ints : Len(EncodeInt(ints[i].n)) < IntSizeMax
        /\ \A i \in DOMAIN xout.items : xout.items[i].op = "size" => Len(EncodeSize(xout.items[i].n)) < SizeSizeMax
        /\ xout.state = "closed" /\ xout.numbers /\ xout.lost = <<>> /\ Rest(xin) = said =>
             IntsIn(ParseInt(xin)) = [i \in DOMAIN ints |-> ints[i].n]
=============================================================================
