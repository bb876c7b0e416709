----------------------------- MODULE MCLibrary -----------------------------
(***************************************************************************)
(* The parts of the library, each on its own: a behaviour picks one of     *)
(* them at its start, and the others stay as they are.                     *)
(***************************************************************************)
EXTENDS Kv, Streams, Args, Mascii, Alloc, Sxproto

(***************************************************************************)
(* Maps: a few keys in any order, and enough keys for the rarer shapes of  *)
(* the trees, which are stored in order first.                             *)
(***************************************************************************)
Maps(table, keys, bigs) == [kind |-> table, keys |-> keys, bigs |-> bigs, first |-> <<>>, moves |-> -1]
Upward == [i \in 1 .. 10 |-> i]
Downward == [i \in 1 .. 10 |-> 11 - i]
KvCases ==
    {Maps("list", 4, 1 .. 5), Maps("bstree", 4, {1}), Maps("rbtree", 5, {1}), Maps("brbtree", 5, 1 .. 6)}
    \cup {[Maps("rbtree", 10, {1}) EXCEPT !.first = f, !.moves = 3] : f \in {Upward, Downward}}
    \cup {[Maps("brbtree", 11, {12}) EXCEPT !.first = f] : f \in {<<2, 4, 6, 8, 10>>, <<10, 8, 6, 4, 2>>}}

(***************************************************************************)
(* Streams: texts with line ends of both kinds and halves of them, with    *)
(* numbers and parts of numbers, and the numbers at the ends of the range. *)
(***************************************************************************)
StreamCharacters == DigitChars \cup Blanks \cup {"+", "-", ".", "e", "E", "?"}
Item(op, text, n, c) == [op |-> op, text |-> text, n |-> n, c |-> c]
Says(t) == Item("text", t, 0, "1")
Says1(op, n) == Item(op, <<>>, n, "1")
Situation(items, outLg, inLg, fails, numbers) ==
    [items |-> items, outLg |-> outLg, inLg |-> inLg, fails |-> fails, numbers |-> numbers]
StreamTexts ==
    {<<"1", "\r", "\n", "1", "\r">>, <<"\r", "\r", "\n", "-", "1", "\n">>, <<" ", "-", "1", "-", "1", "\r">>,
     <<"1", "\r", "1", "\n", "e", "+">>, <<>>}
StreamCases ==
    {Situation(<<Says(t)>>, 0, lg, FALSE, FALSE) : t \in StreamTexts, lg \in {0, 1, 2}}
    \cup {Situation(<<Says(<<"1", "1", "1", "1", "1", " ">>)>>, 0, 1, FALSE, FALSE)}
    \cup {Situation(<<Says1("int", a), Says(<<" ">>), Says1("int", 255 + a)>>, lg, 1, FALSE, TRUE) :
            a \in {-256, 0}, lg \in {0, 2}}
    \cup {Situation(<<Says(<<"1", "\r">>), Item("repeat", <<>>, 2, "\n"), Says1("flush", 0), Says1("size", 511)>>,
                    lg, 0, TRUE, FALSE) : lg \in {0, 2}}

(***************************************************************************)
(* Arguments, and the texts that are searched.                             *)
(***************************************************************************)
ArgNames == {"-", "/dev/stdout", "/dev/stderr", "/dev/null", "/dev/fd/0", "/dev/fd/5"}
ArgCases ==
    {[argv |-> <<a, b>>, thread |-> thread, held |-> IF thread THEN streams ELSE {}, opened |-> {0, 1, 2, 5}] :
        a \in ArgNames, b \in {"-", "/dev/stdin", "/dev/urandom"}, thread \in BOOLEAN,
        streams \in {{}, {<<"in", 0>>, <<"out", 0>>}, {<<"in", 2>>, <<"out", 0>>}}}

Letters(n, ends, other) ==
    [i \in 1 .. n |-> IF i \in ends THEN 10 ELSE IF i = other THEN 138 ELSE IF i % 3 = 0 THEN 127 ELSE 97]
Others(n, low, high) == [i \in 1 .. n |-> IF i = high THEN 200 ELSE IF i = low THEN 5 ELSE 97]
MasciiCases ==
    {[text |-> Letters(n, {i, i + 2}, other), address |-> a, needles |-> {10, 44, 111}, inverted |-> FALSE] :
        n \in {3, 17, 36}, a \in {0, 1, 15}, other \in {2, 18}, i \in {1, 2, 3, 14, 16, 17, 31, 34}}
    \cup {[text |-> Others(n, low, high), address |-> a, needles |-> {97}, inverted |-> TRUE] :
        n \in {17, 34}, low \in {1, 19, 33}, high \in {3, 20, 34}, a \in {0, 7}}

(***************************************************************************)
(* Texts of sxproto: every kind of field with every kind of content, at    *)
(* every kind of top, and fields that a later field continues.             *)
(***************************************************************************)
Word(c) == Bare(<<c>>)
InParens(s) == <<Open>> \o s \o <<Close>>
One == Word("1")
Half == Bare(<<"-", "0", ".", "5", "0", "e", "2">>)
Truth == Bare(<<"+", "true">>)
Phrase == Quoted(<<"x", " ", "y">>)
ScalarContents ==
    {<<>>, <<Word("x"), Word("y")>>, <<One>>, <<One, Half>>, <<Half, One>>, <<Truth, Word("0")>>,
     <<Quoted(<<"1">>)>>, <<EmptyMark>>, <<Phrase, Word("z")>>, <<EmptyMark, Word("x"), Word("y")>>}
NodeContents ==
    {<<DictMark>>, <<DictMark, Open, DictMark, Open, Word("a"), One, Close, Close>>, InParens(<<Word("a")>>),
     InParens(<<Word("a"), One>>) \o InParens(<<Word("b"), EmptyMark>>),
     InParens(<<EmptyMark, Word("x"), Phrase>>) \o <<Word("y")>>,
     InParens(<<Word("a"), Half>>) \o InParens(<<Word("b"), One>>),
     InParens(<<Open, Word("a"), Word("b"), Close, ListMark, One>>),
     InParens(<<Open, Word("a"), Close, One>>), InParens(<<EmptyMark, NestMark>>), InParens(<<NestMark, Word("x")>>),
     InParens(<<Word("a"), EmptyMark, Word("x"), Word("y")>>), InParens(<<Word("a"), Phrase>>) \o <<Word("x")>>,
     InParens(<<Word("a"), ListMark, One>>), InParens(<<Word("a"), DictMark>>), InParens(<<Word("a"), NestMark, Word("x")>>)}
FieldContents == ScalarContents \cup NodeContents
FieldStarts ==
    {<<Word("a")>>, <<Word("a"), ListMark>>, <<Word("a"), DictMark>>, <<Word("a"), NestMark>>,
     <<Open, Word("a"), Close>>, <<Open, Word("a"), Word("b"), Close>>, <<Open, Word("a"), Word("b"), Close, DictMark>>,
     <<Phrase>>}
TopMarks == {<<>>, <<NestMark>>, <<ListMark>>, <<DictMark>>}
FreeTexts ==
    {mark \o InParens(start \o content) : start \in FieldStarts, content \in FieldContents, mark \in TopMarks}
    \cup {mark \o content : mark \in TopMarks, content \in FieldContents}
    \cup {InParens(<<Word("a"), ListMark>> \o first) \o InParens(<<Word("a"), ListMark>> \o second) :
             first \in FieldContents, second \in {<<One>>, <<Phrase, Word("z")>>, <<DictMark>>, InParens(<<Word("a"), One>>)}}
    \cup {InParens(<<Word("a"), ListMark>> \o content) \o InParens(<<Word("b")>> \o content) : content \in {<<Truth>>, <<Word("x"), Word("y")>>}}
    \cup {InParens(<<Word("a"), ListMark, Truth, Word("0")>>) \o InParens(<<Word("b"), Bare(<<"+", "false">>)>>)}

\* Texts that need quotes, escapes of every kind, and words that only begin
\* with a truth value.
LineEnd == <<"x", "\r", "\n", "y">>
AllEscapes == <<"\"", "\\", "t", "n", "v", "f">>
QuotedTexts ==
    {Quoted(<<"\\", "n", "\\", "\\">>), Quoted(FlattenSeq([i \in 1 .. 6 |-> <<"\\", AllEscapes[i]>>])),
     Quoted(<<"x", "\\", "r", " ", "y">>), Quoted(<<"\\", "r">>), Quoted(LineEnd), Quoted(<<"x", "\\">> \o Tail(LineEnd)),
     Quoted(<<"x", "\\", "\n", "y">>), Quoted(<<"\"", "x">>), Quoted(<<"x", "\t", "y", " ", "z">>), Quoted(<<"x", " ", "(">>),
     Quoted(<<";", "\\", "n">>), Quoted(<<"x", "\\", "q">>), Quoted(<<"x", "\\", "\r">>), Bare(<<"x", "\\", "n">>),
     Bare(<<"+", "true", "x">>), Bare(<<"+", "false", "1">>), Bare(<<"+", "x">>)}
EscapedTexts ==
    {mark \o InParens(start \o <<text>>) : mark \in TopMarks, start \in {<<Word("a")>>, <<Word("a"), ListMark>>}, text \in QuotedTexts}
    \cup {mark \o InParens(<<text, One>>) : mark \in TopMarks, text \in QuotedTexts}
    \cup {InParens(<<Quoted(<<"a", "\\", "r">>), One>>) \o InParens(<<Word("a"), One>>), InParens(<<Word("a"), Truth, Truth>>),
          InParens(<<Word("a"), ListMark, Bare(<<"+", "true", "1">>), Bare(<<"+", "true", "+", "false">>)>>),
          InParens(<<Word("a"), ListMark>> \o InParens(<<EmptyMark, Quoted(<<"\\", "n">>), Word("y")>>))}

BrokenTexts ==
    {<<Open, Word("a")>>, <<Open, Word("a"), One>>, <<Open, Word("a"), ListMark, One>>, InParens(<<Word("a"), One>>) \o <<Close>>,
     <<ListMark, Open, EmptyMark, Word("x")>>, InParens(<<Word("a"), NestMark>> \o InParens(<<Word("b"), EmptyMark, Word("x"), DictMark>>))}

\* A schema with a field of every kind; "j" is another name of "i", and "w" of
\* the loneof "u".
Takes(name, what, of, subs) == [name |-> <<name>>, kind |-> what, of |-> of, subs |-> subs]
Is(name, what) == Takes(name, what, "unknown", 0)
Holds(name, what) == Takes(name, what, "unknown", 2)
Schemas ==
    <<<<Is("i", "int"), Is("j", "unknown"), Is("f", "float"), Takes("b", "array", "bool", 0),
        Takes("d", "dict", "int", 0), Is("l", "dict"), Holds("m", "message"), Holds("k", "array"), Holds("e", "dict"),
        Holds("u", "loneof"), Is("w", "unknown"), Holds("v", "manyof"), Is("n", "nest"), Is("r", "message")>>,
      <<Is("x", "string"), Takes("y", "array", "float", 0), Is("m", "message")>>>>
TopSchema == [name |-> <<>>, kind |-> "message", of |-> "unknown", subs |-> 1]
TypedStarts ==
    {<<Word(c)>> : c \in {"i", "j", "f", "b", "m", "k", "u", "v", "n", "r", "q", "d", "w"}}
    \cup {<<Open, Word(c), Close>> : c \in {"i", "b", "v", "u", "k", "m"}}
    \cup {<<Open, Word(u), Word(c), Close>> : u \in {"u", "w"}, c \in {"x", "m"}} \cup {<<Open, Word("u"), Word("y"), Close, ListMark>>}
    \cup {<<Word(c), ListMark>> : c \in {"b", "k", "v"}} \cup {<<Word(c), DictMark>> : c \in {"d", "l", "e"}}
    \cup {<<Word("n"), NestMark>>}
TypedContents ==
    {<<>>, <<One>>, <<One, Half>>, <<Word("x")>>, <<Truth, Word("0")>>, InParens(<<Word("x"), Word("x")>>),
     InParens(<<Word("x"), One>>), InParens(<<Word("y"), ListMark, One>>), InParens(<<Open, Word("y"), Close, Half>>),
     InParens(<<DictMark>> \o InParens(<<Word("x"), Word("x")>>)), <<DictMark>>, InParens(<<Word("j"), One>>),
     InParens(<<Word("m")>> \o InParens(<<Word("x"), Word("y")>>)), InParens(<<Word("a")>> \o InParens(<<Word("x"), Word("y")>>)),
     InParens(<<Word("a"), One>>), InParens(<<Open, Word("x"), Word("y"), Close, One>>)}
SxprotoCases ==
    {[text |-> t, schema |-> NoSchema] : t \in FreeTexts \cup EscapedTexts \cup BrokenTexts}
    \cup {[text |-> InParens(start \o content), schema |-> TopSchema] : start \in TypedStarts, content \in TypedContents}

(***************************************************************************)
(* One part at a time.                                                     *)
(***************************************************************************)
MCInit ==
    \/ KvInit /\ StreamsIdle /\ ArgsIdle /\ MasciiIdle /\ AllocIdle /\ SxprotoIdle
    \/ KvIdle /\ StreamsInit /\ ArgsIdle /\ MasciiIdle /\ AllocIdle /\ SxprotoIdle
    \/ KvIdle /\ StreamsIdle /\ ArgsInit /\ MasciiIdle /\ AllocIdle /\ SxprotoIdle
    \/ KvIdle /\ StreamsIdle /\ ArgsIdle /\ MasciiInit /\ AllocIdle /\ SxprotoIdle
    \/ KvIdle /\ StreamsIdle /\ ArgsIdle /\ MasciiIdle /\ AllocInit /\ SxprotoIdle
    \/ KvIdle /\ StreamsIdle /\ ArgsIdle /\ MasciiIdle /\ AllocIdle /\ SxprotoInit
MCNext ==
    \/ KvNext /\ UNCHANGED <<streamVars, argVars, masciiVars, allocVars, sxprotoVars>>
    \/ StreamsNext /\ UNCHANGED <<kvVars, argVars, masciiVars, allocVars, sxprotoVars>>
    \/ argv # <<>> /\ ArgsNext /\ UNCHANGED <<kvVars, streamVars, masciiVars, allocVars, sxprotoVars>>
    \/ MasciiNext /\ UNCHANGED <<kvVars, streamVars, argVars, allocVars, sxprotoVars>>
    \/ AllocNext /\ UNCHANGED <<kvVars, streamVars, argVars, masciiVars, sxprotoVars>>
    \/ SxprotoNext /\ UNCHANGED <<kvVars, streamVars, argVars, masciiVars, allocVars>>
MCSpec == MCInit /\ [][MCNext]_<<kvVars, streamVars, argVars, masciiVars, allocVars, sxprotoVars>>
=============================================================================
