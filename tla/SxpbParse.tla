------------------------------ MODULE SxpbParse ------------------------------
(***************************************************************************)
(* Reading an s-expression into a value tree, with or without a schema     *)
(* (parse_sxpb.c, schema.c).  What is read, and where, is decided by       *)
(* operators on the tokens to come; Sxproto takes one step per element.    *)
(***************************************************************************)
EXTENDS SxpbPrint
CONSTANT SchemaLists             \* the lists of fields that schemas refer to

(***************************************************************************)
(* Schemas.  A field has a name, a kind, the kind of its elements or       *)
(* "unknown", and the number of its list of subfields or 0.  A field of    *)
(* unknown kind is an alias of the last one before it that has a kind; a   *)
(* message or a manyof without a list has that of its parent.              *)
(***************************************************************************)
NoSchema == [name |-> <<>>, kind |-> "none", of |-> "unknown", subs |-> 0]
ASSUME SchemaAssumption ==
    \A n \in DOMAIN SchemaLists : SchemaLists[n] # <<>> /\ SchemaLists[n][1].kind # "unknown"

Declared(list, name) ==
    LET hits == {i \in DOMAIN list : list[i].name = name}
    IN  IF hits = {} THEN NoSchema
        ELSE list[Max({i \in 1 .. Min(hits) : list[i].kind # "unknown"})]
Inherits(field, parent) ==
    IF field.kind \in {"message", "manyof"} /\ field.subs = 0 THEN [field EXCEPT !.subs = parent.subs] ELSE field
Subfield(schema, name) ==
    IF schema.subs = 0 THEN NoSchema ELSE Inherits(Declared(SchemaLists[schema.subs], name), schema)

(***************************************************************************)
(* Numbers are brought into one form: a sign, no leading zeroes, and with  *)
(* a fraction or an exponent, one digit before the dot and no trailing     *)
(* zeroes (parse_number_FildeshSxpbInfo).                                  *)
(***************************************************************************)
RunEnd(t, i, S) == Max({j \in i - 1 .. Len(t) : \A k \in i .. j : t[k] \in S})
Leading(d) == SubSeq(d, RunEnd(d, 1, {"0"}) + 1, Len(d))
Trailing(d) == SubSeq(d, 1, Max({0} \cup {i \in DOMAIN d : d[i] # "0"}))
Scientific(sign, digits, exponent) ==
    <<sign, Head(digits), ".">> \o Trailing(Tail(digits)) \o <<"e", IF exponent < 0 THEN "-" ELSE "+">>
    \o DigitsOf(IF exponent < 0 THEN -exponent ELSE exponent)

NoNumber == [ok |-> FALSE, text |-> <<>>, rest |-> <<>>]
NumberEnding(t, sign, digits, fractional, places, c, exponent) ==
    IF ~exponent.ok THEN NoNumber
    ELSE [ok |-> TRUE, rest |-> SubSeq(t, c + 1, Len(t)),
          text |-> CASE digits = <<>> -> <<sign, "0">>
                     [] digits # <<>> /\ ~fractional -> <<sign>> \o digits
                     [] OTHER -> Scientific(sign, digits, exponent.value - places + Len(digits) - 1)]
NumberFrom(t, sign, first, a, b) ==
    IF a < first /\ b < a + 2 THEN NoNumber
    ELSE IF b < Len(t) /\ t[b + 1] \in {"e", "E"}
         THEN LET c == RunEnd(t, b + 2, DigitChars \cup {"+", "-"})
              IN  NumberEnding(t, sign, Leading(SubSeq(t, first, a) \o SubSeq(t, a + 2, b)), TRUE,
                               IF b > a THEN b - a - 1 ELSE 0, c, ParseIntText(SubSeq(t, b + 2, c)))
         ELSE NumberEnding(t, sign, Leading(SubSeq(t, first, a) \o SubSeq(t, a + 2, b)), b > a,
                           IF b > a THEN b - a - 1 ELSE 0, b, [ok |-> TRUE, value |-> 0])
ParseNumber(t) ==
    LET first == IF Head(t) \in {"+", "-"} THEN 2 ELSE 1
        a     == RunEnd(t, first, DigitChars)
        b     == IF a < Len(t) /\ t[a + 1] = "." THEN RunEnd(t, a + 2, DigitChars) ELSE a
    IN  NumberFrom(t, IF Head(t) = "-" THEN "-" ELSE "+", first, a, b)

(***************************************************************************)
(* What a quoted string stands for: escapes are replaced, an escaped end   *)
(* of line and every carriage return as such are left out, and any other   *)
(* escape is an error.  A quote without a backslash stands for itself,     *)
(* which is possible between three quotes.                                 *)
(***************************************************************************)
EscapeOf == [t |-> "\t", n |-> "\n", v |-> VerticalTab, f |-> "\f", r |-> "\r"]
NoText == [ok |-> FALSE, text |-> <<>>]
With(c, r) == [r EXCEPT !.text = <<c>> \o @]
Unescaped(w) ==
    LET at(i) == IF i <= Len(w) THEN w[i] ELSE "end"
        \* The rest of the text after a backslash at i - 1.
        after(i, from) ==
            CASE at(i) \in {"\"", "\\"} -> With(at(i), from[i + 1])
              [] at(i) \in DOMAIN EscapeOf -> With(EscapeOf[at(i)], from[i + 1])
              [] at(i) = "\n" -> from[i + 1]
              [] at(i) = "\r" /\ at(i + 1) = "\n" -> from[i + 2]
              [] OTHER -> NoText
        from[i \in 1 .. Len(w) + 1] ==
            CASE at(i) = "end" -> [ok |-> TRUE, text |-> <<>>]
              [] at(i) = "\\" -> after(i + 1, from)
              [] at(i) = "\r" -> from[i + 1]
              [] OTHER -> With(at(i), from[i + 1])
    IN  from[1]
TextOf(tok) == IF tok.is = "quoted" THEN Unescaped(tok.text) ELSE [ok |-> TRUE, text |-> tok.text]

(***************************************************************************)
(* Strings: bare words and quoted strings up to a mark are joined, two     *)
(* words in a row by a blank.                                              *)
(***************************************************************************)
Nothing == Mark("end")
Tok(toks, i) == IF i <= Len(toks) THEN toks[i] ELSE Nothing
Joined(toks, n) ==
    LET upTo[i \in 0 .. n] ==
            IF i = 0 THEN <<>>
            ELSE upTo[i - 1] \o (IF i > 1 /\ toks[i].is = "bare" /\ toks[i - 1].is = "bare" THEN <<" ">> ELSE <<>>)
                 \o TextOf(toks[i]).text
    IN  upTo[n]
StringTo(toks, n) ==
    [ok |-> Tok(toks, n + 1) \in {Close, Nothing} /\ \A i \in 1 .. n : TextOf(toks[i]).ok,
     text |-> Joined(toks, n), rest |-> SubSeq(toks, n + 1, Len(toks))]
StringContent(toks) == StringTo(toks, Max({n \in 0 .. Len(toks) : \A i \in 1 .. n : toks[i].is # "mark"}))

(***************************************************************************)
(* The head of a field, after its opening parenthesis: its name, the name  *)
(* chosen in a loneof, how deep its discriminator nests, and its kind.     *)
(***************************************************************************)
GoodName(tok, parent) ==
    IF tok.is = "quoted" THEN TextOf(tok).ok
    ELSE IF parent = "nest" THEN ~SpecialPrefix(tok.text) ELSE BarePrefix(tok.text)
ParseName(toks, parent) ==
    IF Tok(toks, 1).is = "mark" THEN [ok |-> TRUE, text |-> <<>>, rest |-> toks]
    ELSE [ok |-> GoodName(toks[1], parent), text |-> TextOf(toks[1]).text, rest |-> Tail(toks)]

OnArrayContent(toks) ==
    \/ Tok(toks, 1) \notin {Open, DictMark, ListMark, NestMark}
    \/ Tok(toks, 1) # Open
    \/ Tok(toks, 2) \in {DictMark, EmptyMark}

Discriminator(n) ==
    CASE Tok(n.rest, 1) = DictMark -> [depth |-> IF n.text = <<>> THEN 0 ELSE 5, rest |-> Tail(n.rest)]
      [] Tok(n.rest, 1) = ListMark ->
           [depth |-> IF n.text = <<>> \/ OnArrayContent(Tail(n.rest)) THEN 1 ELSE 2, rest |-> Tail(n.rest)]
      [] Tok(n.rest, 1) = NestMark -> [depth |-> 4, rest |-> Tail(n.rest)]
      [] OTHER -> [depth |-> 0, rest |-> n.rest]

KindOfDepth == <<"array", "manyof", "none", "nest", "dict">>
OnFields(toks) == Tok(toks, 1) # Nothing /\ Tok(toks, 1).is = "mark"
PlainKind(name, d, parent) ==
    CASE d.depth # 0 -> KindOfDepth[d.depth]
      [] d.depth = 0 /\ name # <<>> /\ parent = "nest" -> "nest"
      [] OTHER -> IF name = <<>> \/ OnFields(d.rest) THEN "message" ELSE "literal"
\* The elements of a manyof are taken for those of a message in a loneof.
PickedKind(d) ==
    IF d.depth \in {1, 4, 5} THEN KindOfDepth[d.depth]
    ELSE IF OnFields(d.rest) THEN "message" ELSE "literal"

NoField == [ok |-> FALSE, name |-> <<>>, pick |-> NoName, depth |-> 0, kind |-> "unknown", rest |-> <<>>]
Field(name, pick, d, kind) ==
    [ok |-> TRUE, name |-> name, pick |-> pick, depth |-> d.depth, kind |-> kind, rest |-> d.rest]
Plain(n, d, parent) ==
    IF ~n.ok \/ (n.text = <<>> /\ d.depth = 0 /\ parent \in {"message", "dict"}) THEN NoField
    ELSE Field(n.text, NoName, d, PlainKind(n.text, d, parent))
Picked(n, m, d) == Field(n.text, m.text, d, PickedKind(d))
Picking(n, m) ==
    IF ~m.ok \/ m.text = <<>> \/ Tok(m.rest, 1) # Close THEN NoField
    ELSE Picked(n, m, Discriminator([m EXCEPT !.rest = Tail(@)]))
Grouped(n) ==
    IF ~n.ok \/ n.text = <<>> THEN NoField
    ELSE IF Tok(n.rest, 1) = Close
         THEN Field(n.text, NoName, [depth |-> 2, rest |-> Tail(n.rest)], "manyof")
         ELSE Picking(n, ParseName(n.rest, "loneof"))
Named1(n, parent) == Plain(n, Discriminator(n), parent)
Headed(toks, parent) ==
    CASE Tok(toks, 1) = NestMark ->
           IF parent # "nest" \/ Tok(toks, 2) = Close THEN NoField
           ELSE Field(<<>>, NoName, [depth |-> 4, rest |-> Tail(toks)], "nest")
      [] Tok(toks, 1) = ListMark -> NoField
      [] Tok(toks, 1) = Open -> Grouped(ParseName(Tail(toks), parent))
      [] OTHER -> Named1(ParseName(toks, parent), parent)

\* Nests hold nests and strings; dicts hold no lists and no dicts.
Held(f, parent) ==
    CASE parent = "nest" -> f.kind = "nest" /\ f.pick = NoName
      [] parent = "dict" -> f.kind \notin Repeated \/ f.pick # NoName
      [] OTHER -> TRUE
FieldHead(toks, parent) == LET f == Headed(toks, parent) IN IF Held(f, parent) THEN f ELSE NoField

(***************************************************************************)
(* What the schema says of a field.                                        *)
(***************************************************************************)
Told(ok, kind, elem, field) == [ok |-> ok, kind |-> kind, elem |-> elem, field |-> field]
Allowed(field, own, kind, parent) ==
    CASE field.kind = "message" -> Told(kind \in {"manyof", "message"}, "message", "unknown", field)
      [] field.kind = "dict" /\ parent = "dict" ->
           IF field.subs # 0 THEN Told(kind = "message", kind, "unknown", field)
           ELSE Told(field.of = "unknown" \/ kind = "literal", kind, field.of, field)
      [] field.kind = "dict" /\ parent # "dict" ->
           Told(kind = "dict", kind, "unknown", IF field.subs = 0 /\ field.of = "unknown" THEN NoSchema ELSE field)
      [] field.kind \in {"array", "manyof"} /\ own -> Told(kind = "message", kind, "unknown", field)
      [] field.kind = "array" /\ ~own ->
           Told(kind \in {"manyof", "array"}, "array", IF field.subs # 0 THEN "message" ELSE field.of, field)
      [] field.kind = "nest" -> Told(kind = "nest", kind, "unknown", NoSchema)
      [] field.kind = "manyof" /\ ~own -> Told(TRUE, "manyof", "unknown", field)
      [] field.kind = "none" -> Told(FALSE, kind, "unknown", field)
      [] OTHER -> Told(kind \in {"manyof", "literal"}, "literal", field.kind, field)

\* The schema of the field's parent, which is the loneof's own if one is chosen.
ParentSchema(schema, f) == IF f.pick = NoName THEN schema ELSE Subfield(schema, f.name)
OwnSchema(schema, f, parent) ==
    f.pick = NoName /\ ((f.depth = 0 /\ f.name = <<>>) \/ (parent = "dict" /\ schema.kind = "dict"))
FieldSchema(schema, f, parent) ==
    IF OwnSchema(schema, f, parent) THEN schema
    ELSE Subfield(schema, IF f.pick = NoName THEN f.name ELSE f.pick)
\* An assertion fails if there are no subfields to look in.
NoSubfields(schema, f, parent) == schema.kind # "none" /\ schema.subs = 0 /\ ~OwnSchema(schema, f, parent)
Checked(schema, f, parent) ==
    IF schema.kind = "none" THEN Told(FALSE, f.kind, "unknown", NoSchema)
    ELSE Allowed(FieldSchema(schema, f, parent), OwnSchema(schema, f, parent), f.kind, parent)
Schemed(schema, f, parent) ==
    IF schema.kind = "none" THEN Told(TRUE, f.kind, "unknown", NoSchema)
    ELSE Checked(ParentSchema(schema, f), f, parent)
\* With a schema, an alias is replaced by the name it stands for.
NameIn(schema, f, parent) ==
    IF schema.kind = "none" \/ OwnSchema(schema, f, parent)
    THEN IF f.pick = NoName THEN f.name ELSE f.pick
    ELSE FieldSchema(ParentSchema(schema, f), f, parent).name

(***************************************************************************)
(* Kinds of elements.                                                      *)
(***************************************************************************)
\* The kind of the elements so far, and what becomes of one more.
Reconciled(elem, kind, text, schemaOn) ==
    CASE elem = "unknown" -> [ok |-> TRUE, elem |-> kind, kind |-> kind, text |-> text]
      [] elem = "float" /\ kind = "int" -> [ok |-> TRUE, elem |-> elem, kind |-> kind, text |-> text]
      [] elem = "int" /\ kind = "float" -> [ok |-> ~schemaOn, elem |-> kind, kind |-> kind, text |-> text]
      [] elem = "bool" /\ kind = "int" ->
           [ok |-> text \in {<<"+", "0">>, <<"+", "1">>}, elem |-> elem, kind |-> elem,
            text |-> <<"+", IF text = <<"+", "1">> THEN "true" ELSE "false">>]
      [] OTHER -> [ok |-> elem = kind, elem |-> elem, kind |-> kind, text |-> text]

Numeric(c) == c \in DigitChars \cup Signs
IsString(tok, elem, parent) ==
    \/ tok.is = "quoted" \/ elem = "string" \/ parent = "nest"
    \/ ~Numeric(Head(tok.text))
    \/ /\ Head(tok.text) \in {"-", "."}
       /\ Len(tok.text) = 1 \/ ~Numeric(tok.text[2]) \/ tok.text[2] = Head(tok.text)
IsNumber(tok) ==
    Head(tok.text) \in DigitChars \/ (Len(tok.text) > 1 /\ tok.text[2] \in DigitChars \cup {"."})

\* One element that is not a field: its kind, its text, the tokens after it.
Literal(ok, kind, text, rest) == [ok |-> ok, kind |-> kind, text |-> text, rest |-> rest]
Leftover(text, toks) == (IF text = <<>> THEN <<>> ELSE <<Bare(text)>>) \o toks
OfNumber(n, toks) ==
    Literal(n.ok, IF Len(n.text) > 2 /\ n.text[3] = "." THEN "float" ELSE "int", n.text, Leftover(n.rest, toks))
OfString(s) == Literal(s.ok, "string", s.text, s.rest)
\* Of a word, only +true or +false at its beginning is taken.
OfBool(tok, toks) ==
    Literal(\E b \in {"true", "false"} : IsPrefix(<<"+", b>>, tok.text),
            "bool", SubSeq(tok.text, 1, 2), Leftover(Tail(Tail(tok.text)), toks))
LiteralFrom(toks, elem, parent) ==
    CASE IsString(toks[1], elem, parent) ->
           IF parent = "literal" THEN OfString(StringContent(toks))
           ELSE Literal(TextOf(toks[1]).ok, "string", TextOf(toks[1]).text, Tail(toks))
      [] ~IsString(toks[1], elem, parent) /\ IsNumber(toks[1]) -> OfNumber(ParseNumber(toks[1].text), Tail(toks))
      [] OTHER -> OfBool(toks[1], Tail(toks))

(***************************************************************************)
(* insert_next_FildeshSxpb().  An array or a manyof of a message may be    *)
(* continued by a later field; any other name occurs once.                 *)
(***************************************************************************)
Inserted(ok, vs, id) == [ok |-> ok, vs |-> vs, id |-> id]
Unique(e, kind) ==
    CASE e.vs[e.id].kind = kind /\ kind \in {"array", "manyof"} -> Inserted(TRUE, e.vs, e.id)
      [] e.vs[e.id].kind = "unknown" -> Inserted(TRUE, [e.vs EXCEPT ![e.id].kind = kind], e.id)
      [] OTHER -> Inserted(FALSE, e.vs, e.id)
Insert(vs, cons, kind, text) ==
    CASE vs[cons].kind = "array" /\ text # <<>> /\ kind \notin Scalars \cup {"nest"} -> Inserted(FALSE, vs, 0)
      [] vs[cons].kind \in {"message", "dict"} -> Unique(EnsureField(vs, cons, text), kind)
      [] OTHER -> Inserted(TRUE, InsertLast(vs, cons, text, kind), Len(vs) + 1)
InsertBelow(outer, kind, text) ==
    IF outer.ok THEN Insert(outer.vs, outer.id, kind, text) ELSE outer
InsertField(vs, cons, f, kind, name) ==
    IF f.pick = NoName THEN Insert(vs, cons, kind, name)
    ELSE InsertBelow(Insert(vs, cons, "loneof", f.name), kind, name)
=============================================================================
