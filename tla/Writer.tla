------------------------------- MODULE Writer -------------------------------
(***************************************************************************)
(* A writer that prints items to an output stream.  A flush is a loop of   *)
(* writes, each of which is a step and takes any part of what is offered,  *)
(* or nothing when it fails.                                               *)
(***************************************************************************)
EXTENDS OutStream
CONSTANTS Characters,            \* what texts are made of
          StreamStarts           \* the situations a behaviour starts from
VARIABLES xout,                  \* the output stream, and what is to be printed
          sink,                  \* the pieces written so far
          said                   \* history: the text printed so far
writerVars == <<xout, sink, said>>

\* A start: the items, in order, the flush logarithms of the two streams,
\* whether writes may fail, and whether the items are numbers and blanks.
Items == [op : {"text", "repeat", "int", "size", "flush"}, text : Seq(Characters), n : Int, c : Characters]
ASSUME CharactersAssumption == DigitChars \cup {"-"} \subseteq Characters
ASSUME StreamsAssumption ==
    \A s \in StreamStarts :
        /\ s.items \in Seq(Items) /\ s.outLg \in Nat /\ s.inLg \in Nat /\ s.fails \in BOOLEAN /\ s.numbers \in BOOLEAN
        /\ \A i \in DOMAIN s.items : s.items[i].op \in {"repeat", "size"} => s.items[i].n >= 0

EmptyO == [at |-> <<>>, off |-> 0, lg |-> 0]

WriterIdle ==
    /\ xout = [state |-> "none", o |-> EmptyO, items |-> <<>>, next |-> 1, inLg |-> 0, fails |-> FALSE,
               numbers |-> FALSE, lost |-> <<>>]
    /\ sink = <<>> /\ said = <<>>

WriterInit ==
    \E s \in StreamStarts :
        /\ xout = [state |-> "open", o |-> [EmptyO EXCEPT !.lg = s.outLg], items |-> s.items, next |-> 1,
                   inLg |-> s.inLg, fails |-> s.fails, numbers |-> s.numbers, lost |-> <<>>]
        /\ sink = <<>> /\ said = <<>>

PutItem(o, item) ==
    CASE item.op = "text"   -> PutBytes(o, item.text)
      [] item.op = "repeat" -> RepeatByte(o, item.c, item.n)
      [] item.op = "int"    -> PrintInt(o, item.n)
      [] item.op = "size"   -> PrintSize(o, item.n)
      [] item.op = "flush"  -> o

PutOut(o, item) ==
    /\ said' = said \o PutItem(EmptyO, item).at
    /\ xout' = [xout EXCEPT !.o = o, !.next = @ + 1,
                            !.state = IF item.op = "flush" \/ Due(o) THEN "flushing" ELSE @]
    /\ UNCHANGED sink

PutNext ==
    /\ xout.state = "open" /\ xout.next <= Len(xout.items)
    /\ PutOut(PutItem(xout.o, xout.items[xout.next]), xout.items[xout.next])

\* close_FildeshO() flushes first.
BeginClose ==
    /\ xout.state = "open" /\ xout.next > Len(xout.items)
    /\ xout' = [xout EXCEPT !.state = "closing"]
    /\ UNCHANGED <<sink, said>>

WriteOut ==
    /\ xout.state \in {"flushing", "closing"}
    /\ \E n \in 1 .. Len(Pending(xout.o)) :
         /\ xout' = [xout EXCEPT !.o = Wrote(@, n)]
         /\ sink' = Append(sink, Piece(xout.o, n))
    /\ UNCHANGED said

\* The loop ends: nothing is left, or a write has failed.
Flushed == Pending(xout.o) = <<>> \/ xout.fails

EndFlush ==
    /\ xout.state = "flushing" /\ Flushed
    /\ xout' = [xout EXCEPT !.state = "open", !.o = LeftOver(@)]
    /\ UNCHANGED <<sink, said>>

\* What the last flush cannot write is lost.
EndClose ==
    /\ xout.state = "closing" /\ Flushed
    /\ xout' = [xout EXCEPT !.state = "closed", !.o = EmptyO, !.lost = LeftOver(xout.o).at]
    /\ UNCHANGED <<sink, said>>

WriterNext == PutNext \/ BeginClose \/ WriteOut \/ EndFlush \/ EndClose
WriterSpec == WriterInit /\ [][WriterNext]_writerVars

\* Nothing that was printed is dropped, doubled or put in another order by
\* short writes and by writes that fail and are tried again: what was written,
\* then what waits, then what the last flush lost is what was printed
\* (flush_FildeshO, close_FildeshO).
StreamsKeepOrder == FlattenSeq(sink) \o Pending(xout.o) \o xout.lost = said
=============================================================================
