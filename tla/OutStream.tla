------------------------------ MODULE OutStream ------------------------------
(***************************************************************************)
(* The buffered output streams (outstream.c, outfile.c).  A stream o holds *)
(* the text o.at, of which the first o.off characters are written, and the *)
(* logarithm o.lg of how much it gathers (0: it is written at the end).    *)
(***************************************************************************)
EXTENDS Numbers

Pending(o) == SubSeq(o.at, o.off + 1, Len(o.at))

\* One call of write(), of which n characters are taken.
Piece(o, n) == SubSeq(o.at, o.off + 1, o.off + n)
Wrote(o, n) == [o EXCEPT !.off = @ + n]

\* Mutant of LeftOver: what a failed write leaves is forgotten.
Forgotten(o) == [o EXCEPT !.at = <<>>, !.off = 0]
\* What a flush does after its writes: what is left moves to the front.
LeftOver(o) == [o EXCEPT !.at = Pending(o), !.off = 0]

\* Whether an operation flushes at its end.
Due(o) == o.lg > 0 /\ (o.off = Len(o.at) \/ Len(o.at) >= 2 ^ o.lg)

PutBytes(o, text) == [o EXCEPT !.at = @ \o text]
RepeatByte(o, c, n) == PutBytes(o, [i \in 1 .. n |-> c])
PrintInt(o, q) == PutBytes(o, EncodeInt(q))
PrintSize(o, q) == PutBytes(o, EncodeSize(q))
=============================================================================
