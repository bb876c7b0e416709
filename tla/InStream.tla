------------------------------ MODULE InStream ------------------------------
(***************************************************************************)
(* The buffered input streams (instream.c).  A stream x holds the buffer   *)
(* x.at, of which the first x.off characters are consumed, the logarithm   *)
(* x.lg of how much consumed text it keeps (0: all of it), and what its    *)
(* reads are going to return, piece by piece (x.reads; a read after them   *)
(* returns 0).  An operation is an operator that gives the stream after it *)
(* and the answer: [x, got].                                               *)
(***************************************************************************)
EXTENDS Numbers
CONSTANT NumMax                  \* the longest text of a number: sizeof(buf)-1
Blanks == {" ", "\t", "\n", "\r"}

Read(x) ==
    IF x.reads = <<>> THEN x
    ELSE [x EXCEPT !.at = @ \o Head(x.reads), !.reads = Tail(@)]
Ended(x) == x.reads = <<>>

FlushX(x) == [x EXCEPT !.at = SubSeq(@, x.off + 1, Len(@)), !.off = 0]
MaybeFlushX(x) ==
    IF x.lg = 0 \/ (x.off < Len(x.at) /\ x.off < 2 ^ x.lg) THEN x ELSE FlushX(x)

Answer(x, got) == [x |-> x, got |-> got]
Absent == [there |-> FALSE, text |-> <<>>]
Present(text) == [there |-> TRUE, text |-> text]

RECURSIVE ReadAll(_)
ReadAll(x) == IF Ended(x) THEN x ELSE ReadAll(Read(x))
Slurp(x) == Answer([ReadAll(MaybeFlushX(x)) EXCEPT !.lg = 0], 0)
RECURSIVE WaitClose(_)
WaitClose(x) ==
    IF Ended(x) THEN Answer([x EXCEPT !.at = <<>>, !.off = 0], 0)
    ELSE WaitClose(Read([x EXCEPT !.at = <<>>, !.off = 0]))

(***************************************************************************)
(* Looking for the end of a token.  The search goes on in what the next    *)
(* read adds: everything before it was searched.                           *)
(***************************************************************************)
NextStop(text, off, stops) ==
    Min({i \in off .. Len(text) - 1 : text[i + 1] \in stops} \cup {Len(text)})
NextMatch(text, off, s) ==
    Min({i \in off .. Len(text) - Len(s) : SubSeq(text, i + 1, i + Len(s)) = s} \cup {Len(text)})

\* The place where a search ended, or the next read if it found nothing.
Sought(x, found, again) == IF found < Len(x.at) \/ Ended(x) THEN [x EXCEPT !.off = found] ELSE again

RECURSIVE Seek(_, _)
Seek(x, stops) ==
    Sought(x, NextStop(x.at, x.off, stops),
           Seek(Read([x EXCEPT !.off = Len(x.at)]), stops))
RECURSIVE SeekPast(_, _)
SeekPast(x, span) ==
    Sought(x, NextStop(x.at, x.off, {x.at[i] : i \in DOMAIN x.at} \ span),
           SeekPast(Read([x EXCEPT !.off = Len(x.at)]), span))

\* A match may begin in the last characters that were read, so that many
\* are searched again.
RECURSIVE SeekBytes(_, _)
SeekBytes(x, s) ==
    Sought(x, NextMatch(x.at, x.off, s),
           SeekBytes(Read([x EXCEPT !.off = Len(x.at) + 1 - Len(s)]), s))

\* Reads until n characters are there to be compared.
RECURSIVE Fill(_, _)
Fill(x, n) == IF Len(x.at) - x.off >= n \/ Ended(x) THEN x ELSE Fill(Read(x), n)

\* What was passed over on the way from the stream before to the stream x;
\* there is none at the end of the stream.
SliceFrom(before, x) ==
    Answer(x, IF before.off = Len(x.at) THEN Absent ELSE Present(SubSeq(x.at, before.off + 1, x.off)))

UntilIn(x, stops) == SliceFrom(x, Seek(x, stops))
WhileIn(x, span) == SliceFrom(x, SeekPast(x, span))
UntilBytesIn(x, s) == SliceFrom(x, SeekBytes(Fill(x, Len(s)), s))

UntilChars(x, stops) == UntilIn(MaybeFlushX(x), stops)
WhileChars(x, span) == WhileIn(MaybeFlushX(x), span)
UntilBytes(x, s) == UntilBytesIn(MaybeFlushX(x), s)

(***************************************************************************)
(* Peeking, skipping and cutting tokens off.                               *)
(***************************************************************************)
Peeked(x, s) == Answer(x, Len(x.at) - x.off >= Len(s) /\ SubSeq(x.at, x.off + 1, x.off + Len(s)) = s)
\* Mutant of PeekBytes: only what was read already is looked at.
PeekRead(x, s) == Peeked(x, s)
PeekBytes(x, s) == Peeked(Fill(x, Len(s)), s)
PeekedAny(x, needles) == Answer(x, x.off < Len(x.at) /\ x.at[x.off + 1] \in needles)
PeekChars(x, needles) == PeekedAny(Fill(x, 1), needles)

Skipped(r, n) ==
    IF r.got THEN Answer(MaybeFlushX([r.x EXCEPT !.off = @ + n]), TRUE) ELSE r
SkipBytes(x, s) == Skipped(PeekBytes(x, s), Len(s))

\* Past the n characters of a delimiter, if the token ended at one.
PastDelim(r, n) == IF r.x.off < Len(r.x.at) THEN Answer([r.x EXCEPT !.off = @ + n], r.got) ELSE r
SliceChr(x, delim) == PastDelim(UntilChars(x, {delim}), 1)
SliceStr(x, delim) == PastDelim(UntilBytes(x, delim), Len(delim))

WithoutReturn(text) ==
    IF text # <<>> /\ text[Len(text)] = "\r" THEN SubSeq(text, 1, Len(text) - 1) ELSE text
Lined(r) == Answer(r.x, [r.got EXCEPT !.text = WithoutReturn(@)])
SliceLine(x) == Lined(SliceChr(x, "\n"))

AfterSkip(r) == Answer(MaybeFlushX(r.x), r.got.text # <<>>)
SkipChars(x, span) == AfterSkip(WhileChars(x, span))

\* A number: blanks, then the longest text of characters a number can have.
NumberText(x, span) == WhileChars(SkipChars(x, Blanks).x, span)
Number(r, parsed) ==
    Answer(r.x, IF r.got.text = <<>> \/ Len(r.got.text) > NumMax
                THEN [ok |-> FALSE, value |-> 0] ELSE parsed)
ParseInt(x) ==
    LET r == NumberText(x, DigitChars \cup {"+", "-"})
    IN  Number(r, ParseIntText(r.got.text))
ParseUnsigned(x) ==
    LET r == NumberText(x, DigitChars \cup {"+"})
    IN  Number(r, ParseUnsignedText(r.got.text))
\* The answer is the text that strtod() is asked to read.
ParseDouble(x) ==
    LET r == NumberText(x, DigitChars \cup {"+", "-", ".", "E", "e"})
    IN  Number(r, [ok |-> TRUE, value |-> r.got.text])
=============================================================================
