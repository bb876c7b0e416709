------------------------------- MODULE Mascii -------------------------------
(***************************************************************************)
(* Looking for any of a set of ASCII characters sixteen at a time          *)
(* (mascii.c).  The set is a table of sixteen bytes, one bit for each      *)
(* character; a byte is a number where it is shifted and a set of bits     *)
(* where it is masked.  A reader cuts a text at the characters of the set. *)
(***************************************************************************)
EXTENDS Integers, Sequences, FiniteSetsExt
CONSTANT MasciiStarts            \* the texts, as a behaviour starts with them
VARIABLE scan                    \* the text, its address, and what of it is read
masciiVars == <<scan>>

Lanes == 0 .. 15

\* A start: the bytes of the text, its address, the needles and whether they
\* are the characters looked for or those that are not (charnot).
ASSUME MasciiAssumption ==
    MasciiStarts \subseteq [text : Seq(0 .. 255), address : Nat, needles : SUBSET (0 .. 127), inverted : BOOLEAN]

Charset(needles) == [i \in Lanes |-> {b \in 0 .. 7 : 8 * i + b \in needles}]
Charnot(needles) == [i \in Lanes |-> {b \in 0 .. 7 : 8 * i + b \notin needles}]
InTable(table, c) == c % 8 \in table[(c \div 8) % 16] /\ c < 128

\* The lanes of a block of sixteen bytes, each one the index of a lane of a.
Shuffle(a, block) == [i \in Lanes |-> a[block[i] % 16]]
\* A shift of four lanes at once by three bits: the low bits of each lane
\* enter the top of the lane before it.
ShardIndex(block) ==
    [i \in Lanes |-> block[i] \div 8 + (IF i % 4 = 3 THEN 0 ELSE 32 * (block[i + 1] % 8))]
ShardMask(block) == Shuffle([i \in Lanes |-> {i % 8}], block)
Masked(a, b) == [i \in Lanes |-> a[i] \cap b[i]]
\* Mutant of Span0Ascii: bytes beyond ASCII are taken for others.
Span0Any(bits, block) == Min({i \in Lanes : bits[i] # {}} \cup {16})
\* The first lane with a bit that is set and an ASCII byte, 16 if none.
Span0Ascii(bits, block) == Min({i \in Lanes : bits[i] # {} /\ block[i] < 128} \cup {16})
Get16(table, block) ==
    Span0Ascii(Masked(Shuffle(table, ShardIndex(block)), ShardMask(block)), block)

\* The bytes of text from the place from, as a block.
BlockAt(text, from) == [i \in Lanes |-> text[from + i + 1]]

Aligned(address) == ((address + 15) \div 16) * 16
\* The place of the first block: the bytes before it are looked at one by one.
Ahead(address, n) == Min({n, Aligned(address) - address})
Blocks(address, n) == (n - Ahead(address, n)) \div 16

ScalarIn(table, text, places) == {i \in places : InTable(table, text[i + 1])}
BlocksIn(table, text, ahead, count) ==
    {ahead + 16 * k + Get16(table, BlockAt(text, ahead + 16 * k)) :
        k \in {k \in 0 .. count - 1 : Get16(table, BlockAt(text, ahead + 16 * k)) < 16}}

\* find_FildeshMascii(): before the blocks, in the blocks, after the blocks.
FindFrom(table, text, ahead, count) ==
    Min(ScalarIn(table, text, 0 .. ahead - 1)
        \cup BlocksIn(table, text, ahead, count)
        \cup ScalarIn(table, text, ahead + 16 * count .. Len(text) - 1)
        \cup {Len(text)})
Find(table, text, address) ==
    FindFrom(table, text, Ahead(address, Len(text)), Blocks(address, Len(text)))
Span(table, text) ==
    Min({i \in 0 .. Len(text) - 1 : ~InTable(table, text[i + 1])} \cup {Len(text)})

MasciiIdle == scan = [text |-> <<>>, address |-> 0, needles |-> {}, inverted |-> FALSE]
MasciiInit == scan \in MasciiStarts
Table == IF scan.inverted THEN Charnot(scan.needles) ELSE Charset(scan.needles)
MasciiNext ==
    LET end == Find(Table, scan.text, scan.address)
    IN  /\ end < Len(scan.text)
        /\ scan' = [scan EXCEPT !.text = SubSeq(@, end + 2, Len(@)), !.address = @ + end + 1]
MasciiSpec == MasciiInit /\ [][MasciiNext]_masciiVars

(***************************************************************************)
(* Properties.                                                             *)
(***************************************************************************)
Wanted(c) == c < 128 /\ (c \in scan.needles) # scan.inverted

\* The first character of the set is found wherever the text lies in memory
\* and wherever in a block the character is, and no byte beyond ASCII is taken
\* for one; the opposite search ends where the set does (find_FildeshMascii,
\* span_FildeshMascii, charset and charnot).
MasciiFindsFirst ==
    LET n == Len(scan.text)
        first(P(_)) == Min({i \in 0 .. n - 1 : P(scan.text[i + 1])} \cup {n})
    IN  /\ Find(Table, scan.text, scan.address) = first(Wanted)
        /\ Span(Table, scan.text) = first(LAMBDA c : ~Wanted(c))
=============================================================================
