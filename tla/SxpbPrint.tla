------------------------------ MODULE SxpbPrint ------------------------------
(***************************************************************************)
(* A value tree as text: the s-expressions of print/sxpb.c and the JSON of *)
(* print/json.c.  A text is the sequence of its tokens, with blanks where  *)
(* the printer writes them: marks, bare words (names, bare strings,        *)
(* numbers, booleans) and quoted strings, which hold what stands between   *)
(* the quotes.                                                             *)
(***************************************************************************)
EXTENDS Sxpb, Numbers

Mark(s) == [is |-> "mark", text |-> <<s>>]
Bare(s) == [is |-> "bare", text |-> s]
Quoted(s) == [is |-> "quoted", text |-> s]
Open == Mark("(")
Close == Mark(")")
DictMark == Mark("()")
ListMark == Mark("(())")
NestMark == Mark("('')")
EmptyMark == Quoted(<<>>)

(***************************************************************************)
(* What may stand bare (syntax.h).                                         *)
(***************************************************************************)
VerticalTab == "vertical tab"
Delimiters == {" ", "\t", "\n", VerticalTab, "\f", "\r", "\"", "(", ")", ";"}
Signs == {"+", "-", "."}
SpecialPrefix(s) ==
    /\ s # <<>>
    /\ \/ Head(s) = "+"
       \/ /\ Head(s) \in {"-", "."}
          /\ Len(s) > 1 /\ s[2] \in Signs \ {Head(s)}
BarePrefix(s) ==
    /\ s # <<>>
    /\ IF Head(s) \in {"-", "."}
       THEN Len(s) = 1 \/ s[2] = Head(s) \/ s[2] \notin DigitChars \cup Signs \cup Delimiters
       ELSE Head(s) \notin DigitChars \cup {"+"} \cup Delimiters
BareAtom(s) == BarePrefix(s) /\ ToSet(s) \cap Delimiters = {}

\* What print_quoted_sxpb_str_FildeshO() puts between the quotes.
Escape(c) ==
    CASE c \in {"\"", "\\"} -> <<"\\", c>> [] c = "\n" -> <<"\\", "n">> [] OTHER -> <<c>>
\* Mutant of Escaped: a backslash is written as it is.
EscapedQuotes(s) == FlattenSeq([i \in DOMAIN s |-> IF s[i] = "\\" THEN <<s[i]>> ELSE Escape(s[i])])
Escaped(s) == FlattenSeq([i \in DOMAIN s |-> Escape(s[i])])

Atom(s) == <<IF BareAtom(s) THEN Bare(s) ELSE Quoted(Escaped(s))>>

\* A string of several bare words, which a nest writes after "".
WordStart(s, i) == s[i] # " " /\ (i = 1 \/ s[i - 1] = " ")
NestWords(s) ==
    /\ ToSet(s) \cap Delimiters = {" "} /\ Head(s) # " " /\ Last(s) # " "
    /\ \A i \in 1 .. Len(s) :
         /\ WordStart(s, i) => BarePrefix(SubSeq(s, i, Len(s)))
         /\ s[i] = " " => s[i + 1] # " "
Words(s) ==
    LET starts == {i \in 1 .. Len(s) : WordStart(s, i)}
        end(i) == Min({j \in i + 1 .. Len(s) + 1 : j = Len(s) + 1 \/ s[j] = " "})
        from[i \in 1 .. Len(s) + 1] ==
            IF i > Len(s) THEN <<>>
            ELSE IF i \in starts THEN <<Bare(SubSeq(s, i, end(i) - 1))>> \o from[i + 1] ELSE from[i + 1]
    IN  from[1]

(***************************************************************************)
(* print_sxpb_FildeshO().                                                  *)
(***************************************************************************)
LiteralText(e) ==
    IF e.kind = "string" THEN Atom(e.text)
    ELSE <<Bare(IF e.kind # "bool" /\ e.text # <<>> /\ Head(e.text) = "+" THEN Tail(e.text) ELSE e.text)>>

NameOf(vs, id) == IF vs[id].kind \in Scalars THEN NoName ELSE vs[id].text

\* The text of the elements of a node is that of each, in order.
AllText(vs, ids, Text(_)) ==
    LET from[i \in 1 .. Len(ids) + 1] == IF i > Len(ids) THEN <<>> ELSE Text(ids[i]) \o from[i + 1]
    IN  from[1]

Sign(kind) ==
    CASE kind = "array" -> <<ListMark>> [] kind = "dict" -> <<DictMark>>
      [] kind = "nest" -> <<NestMark>>  [] OTHER -> <<>>

RECURSIVE Entry(_, _, _)
Entries(vs, id) == AllText(vs, Kids(vs, id), LAMBDA k : Entry(vs, id, k))
Body(vs, id) ==
    IF vs[id].kind \in Literals THEN LiteralText(LiteralAt(vs, id))
    ELSE Sign(vs[id].kind) \o Entries(vs, id)

FieldNamed(vs, id, name) ==
    CASE vs[id].kind = "loneof" ->
           <<Open, Open>> \o Atom(name) \o Atom(vs[vs[id].elem].text) \o <<Close>> \o Body(vs, vs[id].elem) \o <<Close>>
      [] vs[id].kind = "manyof" -> <<Open, Open>> \o Atom(name) \o <<Close>> \o Body(vs, id) \o <<Close>>
      [] OTHER -> <<Open>> \o Atom(name) \o Body(vs, id) \o <<Close>>

ArrayEntry(vs, id) ==
    IF vs[id].kind # "message" THEN LiteralText(LiteralAt(vs, id))
    ELSE IF vs[id].elem = 0 THEN <<DictMark>>
    ELSE <<Open, DictMark>> \o Entries(vs, id) \o <<Close>>

\* At the top, an anonymous first element is given the name "value".
ManyofEntry(vs, cons, id) ==
    IF NameOf(vs, id) \in {NoName, <<>>}
    THEN IF cons = 1 /\ vs[1].elem = id
         THEN <<Open, Bare(<<"value">>)>> \o Body(vs, id) \o <<Close>>
         ELSE IF vs[id].kind \in Scalars \cup {"message"} THEN ArrayEntry(vs, id)
              ELSE FieldNamed(vs, id, <<>>)
    ELSE FieldNamed(vs, id, vs[id].text)

\* The single string of a subnest follows "" when it is several words.  It is
\* looked up with LiteralAt(), which also enters a single subnest.
OnlyWords(vs, id) ==
    /\ Len(Kids(vs, id)) = 1
    /\ LiteralAt(vs, vs[id].elem).kind = "string"
    /\ NestWords(LiteralAt(vs, vs[id].elem).text)
NestEntry(vs, id) ==
    IF vs[id].kind # "nest"
    THEN IF LiteralAt(vs, id).text = <<>> THEN <<Open, EmptyMark, EmptyMark, Close>> ELSE LiteralText(LiteralAt(vs, id))
    ELSE IF vs[id].text = <<>> THEN <<Open, EmptyMark, NestMark>> \o Entries(vs, id) \o <<Close>>
    ELSE IF OnlyWords(vs, id)
         THEN <<Open>> \o Atom(vs[id].text) \o <<EmptyMark>> \o Words(LiteralAt(vs, vs[id].elem).text) \o <<Close>>
    ELSE <<Open>> \o Atom(vs[id].text) \o Entries(vs, id) \o <<Close>>

Entry(vs, cons, id) ==
    CASE vs[cons].kind = "array"  -> ArrayEntry(vs, id)
      [] vs[cons].kind = "manyof" -> ManyofEntry(vs, cons, id)
      [] vs[cons].kind = "nest"   -> NestEntry(vs, id)
      [] OTHER -> FieldNamed(vs, id, vs[id].text)

PrintSxpb(vs) ==
    (IF vs[1].kind = "manyof" THEN <<ListMark>> ELSE Sign(vs[1].kind)) \o Entries(vs, 1)

(***************************************************************************)
(* print_json_FildeshO(), with less punctuation and no indentation.        *)
(***************************************************************************)
\* A float is written with its dot, which its text must have: of a whole
\* number, what follows the text in memory would be read (print/value.c).
JsonScalar(e) ==
    <<e.kind>> \o (IF e.kind = "float" /\ ~(Len(e.text) > 2 /\ e.text[3] = ".") THEN <<"undefined">> ELSE e.text)

RECURSIVE Json(_, _)
JsonNamed(vs, name, id) == name \o <<":">> \o Json(vs, id)
JsonKid(vs, cons, id) ==
    CASE vs[cons].kind = "manyof" ->
           JsonNamed(vs, IF vs[id].kind \in Scalars THEN <<"value">> ELSE vs[id].text, id)
      [] vs[cons].kind = "array" \/ vs[id].kind \in Scalars -> Json(vs, id)
      [] OTHER -> JsonNamed(vs, vs[id].text, id)
Json(vs, id) ==
    IF vs[id].kind \in Literals THEN JsonScalar(LiteralAt(vs, id))
    ELSE <<IF vs[id].kind \in DictLike THEN "{" ELSE "[">>
           \o AllText(vs, Kids(vs, id), LAMBDA k : JsonKid(vs, id, k) \o <<",">>) \o <<"}">>
=============================================================================
