------------------------------ MODULE Numbers ------------------------------
(***************************************************************************)
(* Numbers as text (string.c): how the streams print them and read them    *)
(* back.  A character is a string of one; a text is a sequence of them.    *)
(***************************************************************************)
EXTENDS Integers, SequencesExt
CONSTANT Bits                    \* the width of an int and of a size
ASSUME NumbersAssumption == Bits \in 4 .. 30 /\ 2 ^ (Bits - 1) \in Nat \ {0} /\ 2 ^ Bits \in Nat \ {0}

Digits == <<"0", "1", "2", "3", "4", "5", "6", "7", "8", "9">>
DigitChars == {Digits[i] : i \in 1 .. 10}
DigitValue == [c \in DigitChars |-> (CHOOSE i \in 1 .. 10 : Digits[i] = c) - 1]

IntMax == 2 ^ (Bits - 1) - 1
IntSizeMax == 1 + Bits \div 3 + 1
SizeSizeMax == Bits \div 3 + 1

Powers == <<1, 10, 100, 1000, 10000, 100000, 1000000, 10000000, 100000000, 1000000000>>
DigitCount(n) == Min({k \in 1 .. 9 : n < Powers[k + 1]} \cup {10})
DigitsOf(n) ==
    [i \in 1 .. DigitCount(n) |-> Digits[((n \div Powers[DigitCount(n) + 1 - i]) % 10) + 1]]

\* Mutant of EncodeInt: the magnitude is an int.
EncodeSigned(q) ==
    (IF q < 0 THEN <<"-">> ELSE <<>>) \o DigitsOf((IF q < 0 THEN -q ELSE q) % (2 ^ (Bits - 1)))
\* The magnitude is an unsigned: the smallest int has one.
EncodeInt(q) ==
    (IF q < 0 THEN <<"-">> ELSE <<>>) \o DigitsOf((IF q < 0 THEN -q ELSE q) % (2 ^ Bits))
EncodeSize(q) == DigitsOf(q)

ValueOf(digits) == FoldLeft(LAMBDA value, c : 10 * value + DigitValue[c], 0, digits)

\* strtol(): a sign, and as many digits as follow it.
Strtol(text) ==
    LET first  == IF text # <<>> /\ Head(text) \in {"+", "-"} THEN 2 ELSE 1
        last   == Max({i \in first - 1 .. Len(text) : \A j \in first .. i : text[j] \in DigitChars})
        digits == SubSeq(text, first, last)
    IN  [some  |-> digits # <<>>,
         value |-> IF first = 2 /\ Head(text) = "-" THEN -ValueOf(digits) ELSE ValueOf(digits)]

ParsedIn(v, range) == [ok |-> v.some /\ v.value \in range, value |-> v.value]
ParseIntText(text) == ParsedIn(Strtol(text), -IntMax - 1 .. IntMax)
ParseUnsignedText(text) == ParsedIn(Strtol(text), 0 .. 2 * IntMax + 1)
=============================================================================
