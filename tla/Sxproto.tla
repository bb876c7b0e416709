------------------------------- MODULE Sxproto -------------------------------
(***************************************************************************)
(* Text is read into a value tree, one element a step (parse_sxpb.c).      *)
(* What was read may be printed and read again, or its fields copied into  *)
(* a message of another tree.                                              *)
(***************************************************************************)
EXTENDS SxpbParse
CONSTANTS SxprotoStarts,         \* texts, each with a schema or NoSchema
          EditsMax               \* how often the message is changed
ASSUME SxprotoAssumption == EditsMax \in Nat
VARIABLES tree,                  \* the nodes
          frames,                \* the fields whose content is being read, innermost last
          ahead,                 \* the tokens to come
          sx,                    \* the stage, the schema, the number of changes made
          source,                \* the tree that was printed or is copied from
          holds                   \* history: what the changed message should hold
sxprotoVars == <<tree, frames, ahead, sx, source, holds>>

SxprotoIdle ==
    /\ tree = OpenSxpb /\ frames = <<>> /\ ahead = <<>> /\ source = OpenSxpb /\ holds = <<>>
    /\ sx = [stage |-> "none", schema |-> NoSchema, edits |-> 0]

\* elem: the kind of the elements so far; disc: the discriminator of a nest
\* was read; some: there was an element.
Frame(cons, elem, disc, schema) ==
    [cons |-> cons, elem |-> elem, disc |-> disc, some |-> FALSE, schema |-> schema]

\* The discriminator at the start of a text gives the kind of the top.
TopKind(text) ==
    CASE Tok(text, 1) = ListMark -> IF OnArrayContent(Tail(text)) THEN "array" ELSE "manyof"
      [] Tok(text, 1) = DictMark -> "dict"
      [] Tok(text, 1) = NestMark -> "nest"
      [] OTHER -> "message"
TopTree(text) == [OpenSxpb EXCEPT ![1].kind = TopKind(text)]
TopFrames(text, schema) ==
    <<Frame(1, "unknown", TopKind(text) = "nest", IF TopKind(text) = "dict" THEN NoSchema ELSE schema)>>
AfterTop(text) == IF TopKind(text) = "message" THEN text ELSE Tail(text)

SxprotoInit ==
    \E s \in SxprotoStarts :
        /\ tree = TopTree(s.text) /\ ahead = AfterTop(s.text) /\ frames = TopFrames(s.text, s.schema)
        /\ sx = [stage |-> "reading", schema |-> s.schema, edits |-> 0]
        /\ source = OpenSxpb /\ holds = <<>>

(***************************************************************************)
(* parse_field_content_FildeshSxpbInfo().                                  *)
(***************************************************************************)
Reading == sx.stage \in {"reading", "rereading"}
Inner == Last(frames)
InnerKind == tree[Inner.cons].kind
SchemaOn == Inner.schema.kind # "none"

Ends(stage) == /\ sx' = [sx EXCEPT !.stage = stage] /\ frames' = <<>> /\ ahead' = <<>>
RefuseText == Ends(IF sx.stage = "reading" THEN "refused" ELSE "lost") /\ tree' = OpenSxpb
Goes(ok, vs, inner, rest) ==
    IF ok THEN tree' = vs /\ frames' = Front(frames) \o inner /\ ahead' = rest /\ UNCHANGED sx
    ELSE RefuseText
HasOne(frame, elem) == [frame EXCEPT !.elem = elem, !.some = TRUE]

Finish ==
    /\ ahead = <<>> /\ Len(frames) = 1
    /\ Ends(IF sx.stage = "reading" THEN "read" ELSE "reread") /\ UNCHANGED tree
Unfinished ==
    /\ \/ ahead = <<>> /\ Len(frames) > 1
       \/ Tok(ahead, 1) = Close /\ Len(frames) = 1
    /\ RefuseText

\* The values of a dict must be of one kind; a whole number becomes a float
\* or a truth value if the dict holds those.
DictKind(e, r) == IF e # 0 /\ r.elem = "float" /\ r.kind = "int" THEN "float" ELSE r.kind
DictEnded(vs, e, r) ==
    [ok |-> r.ok, elem |-> r.elem,
     vs |-> IF e = 0 \/ vs[e].kind = DictKind(e, r) THEN vs
            ELSE [vs EXCEPT ![e].kind = DictKind(e, r), ![e].text = r.text]]
DictValue(vs, elem, k, schemaOn) ==
    IF vs[k].kind # "literal" THEN DictEnded(vs, 0, Reconciled(elem, vs[k].kind, <<>>, schemaOn))
    ELSE DictEnded(vs, vs[k].elem, Reconciled(elem, LiteralAt(vs, k).kind, LiteralAt(vs, k).text, schemaOn))
\* What the parent makes of its new element.
ElementEnded(vs, p, k) ==
    CASE vs[p.cons].kind = "manyof" /\ NameOf(vs, k) \in {NoName, <<>>} ->
           [ok |-> p.elem \in {"unknown", vs[k].kind}, elem |-> vs[k].kind, vs |-> vs]
      [] vs[p.cons].kind = "dict" -> DictValue(vs, p.elem, k, p.schema.kind # "none")
      [] OTHER -> [ok |-> TRUE, elem |-> p.elem, vs |-> vs]
Closes(p, e) ==
    IF e.ok THEN /\ tree' = e.vs /\ frames' = Front(Front(frames)) \o <<HasOne(p, e.elem)>>
                 /\ ahead' = Tail(ahead) /\ UNCHANGED sx
    ELSE RefuseText
CloseField ==
    /\ Tok(ahead, 1) = Close /\ Len(frames) > 1
    /\ Closes(Last(Front(frames)), ElementEnded(tree, Last(Front(frames)), LastKid(tree, Last(Front(frames)).cons)))

OnOpen == Tok(ahead, 1) \in {Open, DictMark, ListMark, NestMark}
OnString ==
    /\ Tok(ahead, 1) = Open /\ Tok(ahead, 2) = EmptyMark
    /\ InnerKind \in {"array", "manyof"} \/ (InnerKind = "nest" /\ Tok(ahead, 3) # NestMark)
OnNestString ==
    /\ InnerKind = "nest" /\ ~Inner.disc /\ ~Inner.some
    /\ Tok(ahead, 1) = EmptyMark /\ Tok(ahead, 2) # Close

\* ("" words) is a string among the elements of a list.
OpenString(s) ==
    Goes(/\ InnerKind = "nest" \/ Inner.elem \in {"unknown", "string"}
         /\ s.ok /\ Tok(s.rest, 1) = Close,
         InsertLast(tree, Inner.cons, s.text, "string"), <<HasOne(Inner, "string")>>, Tail(s.rest))
ReadString == OnOpen /\ OnString /\ OpenString(StringContent(Tail(ahead)))

\* A subnest (name "" words) has one string.
NestString(s) ==
    Goes(s.ok, InsertLast(tree, Inner.cons, s.text, "string"), <<HasOne(Inner, Inner.elem)>>, s.rest)
ReadNestString == OnNestString /\ NestString(StringContent(Tail(ahead)))

\* The marks as the parser meets them, after the opening parenthesis.
Entered(toks) ==
    CASE Head(toks) = DictMark -> <<Close>> \o Tail(toks)
      [] Head(toks) = ListMark -> <<DictMark, Close>> \o Tail(toks)
      [] Head(toks) = NestMark -> <<EmptyMark, Close>> \o Tail(toks)
      [] OTHER -> Tail(toks)
MayOpen ==
    CASE InnerKind = "array" -> Head(ahead) \notin {ListMark, NestMark} /\ Inner.elem \in {"unknown", "message"}
      [] InnerKind = "manyof" -> Head(ahead) \notin {ListMark, NestMark}
      [] OTHER -> TRUE
OpenerFrame == IF InnerKind = "array" THEN [Inner EXCEPT !.elem = "message"] ELSE Inner

OpenField(f, told, to) ==
    Goes(told.ok /\ to.ok, to.vs,
         <<OpenerFrame, Frame(to.id, told.elem, f.kind = "nest" /\ f.depth = 4, told.field)>>, f.rest)
FieldFound(f) ==
    OpenField(f, Schemed(Inner.schema, f, InnerKind),
              InsertField(tree, Inner.cons, f, Schemed(Inner.schema, f, InnerKind).kind,
                          NameIn(Inner.schema, f, InnerKind)))
\* Assertions fail: where fields are looked up among none, and at a field
\* within a literal, which only a schema can have made of a manyof.
Misused(f) ==
    \/ NoSubfields(Inner.schema, f, InnerKind)
    \/ /\ f.pick # NoName /\ SchemaOn /\ Insert(tree, Inner.cons, "loneof", f.name).ok
       /\ NoSubfields(Subfield(Inner.schema, f.name), f, InnerKind)
OpensField(f) ==
    CASE ~f.ok -> RefuseText
      [] f.ok /\ Misused(f) -> Ends("aborted") /\ UNCHANGED tree
      [] OTHER -> FieldFound(f)
ReadField ==
    /\ OnOpen /\ ~OnString
    /\ CASE InnerKind = "literal" /\ Inner.some -> RefuseText
         [] InnerKind = "literal" /\ ~Inner.some -> Ends("aborted") /\ UNCHANGED tree
         [] OTHER -> IF MayOpen THEN OpensField(FieldHead(Entered(ahead), InnerKind)) ELSE RefuseText

HoldsLiterals == InnerKind \notin {"message", "dict"} /\ ~(InnerKind = "literal" /\ Inner.some)
PutLiteral(l, r) ==
    Goes(l.ok /\ r.ok, InsertLast(tree, Inner.cons, r.text, r.elem), <<HasOne(Inner, r.elem)>>, l.rest)
TakeLiteral(l) == PutLiteral(l, Reconciled(Inner.elem, l.kind, l.text, SchemaOn))
ReadLiteral ==
    /\ ahead # <<>> /\ ~OnOpen /\ Head(ahead) # Close /\ ~OnNestString
    /\ IF HoldsLiterals THEN TakeLiteral(LiteralFrom(ahead, Inner.elem, InnerKind)) ELSE RefuseText

ReadSxpb ==
    /\ Reading /\ UNCHANGED <<source, holds>>
    /\ Finish \/ Unfinished \/ CloseField \/ ReadString \/ ReadNestString \/ ReadField \/ ReadLiteral

(***************************************************************************)
(* What was read is printed, and the output is read.                       *)
(***************************************************************************)
\* An array that holds a nest cannot be printed (an assertion fails).
Printable(vs) ==
    \A id \in DOMAIN vs : vs[id].kind = "array" =>
        \A k \in ToSet(Kids(vs, id)) : vs[k].kind \in Literals \cup {"message"}
Reprint(text) ==
    /\ tree' = TopTree(text) /\ ahead' = AfterTop(text) /\ frames' = TopFrames(text, sx.schema)
    /\ sx' = [sx EXCEPT !.stage = "rereading"]
PrintOut ==
    /\ sx.stage = "read" /\ Printable(tree)
    /\ source' = tree /\ UNCHANGED holds
    /\ Reprint(PrintSxpb(tree))

(***************************************************************************)
(* A message of another tree is changed: node 2, called "z".               *)
(***************************************************************************)
EditNames == {<<"p">>, <<"q">>}
Edit ==
    /\ sx.stage = "read"
    /\ sx' = [sx EXCEPT !.stage = "editing"]
    /\ source' = tree /\ tree' = EnsureSubfield(OpenSxpb, 1, <<"z">>, "message").vs
    /\ UNCHANGED <<frames, ahead, holds>>

Does(vs, now) ==
    /\ tree' = vs /\ holds' = now
    /\ sx' = [sx EXCEPT !.edits = @ + 1] /\ UNCHANGED <<frames, ahead, source>>
Aborts == Ends("aborted") /\ UNCHANGED <<tree, source, holds>>
PlaceOf(name) == SelectInSeq(holds, LAMBDA e : e.name = name)
Held1(name, json, sure) == [name |-> name, json |-> json, sure |-> sure]
Holding(name, json, sure) ==
    IF PlaceOf(name) = 0 THEN Append(holds, Held1(name, json, sure))
    ELSE [holds EXCEPT ![PlaceOf(name)] = Held1(name, json, sure)]

\* The source nodes in use, and what of them is copied as it is: an anonymous
\* scalar of a manyof gets its own text as its name.
NodesBelow(vs, id) ==
    LET from[i \in 0 .. Len(vs)] ==
            IF i = 0 THEN {} ELSE {i} \cup from[vs[i].elem] \cup from[vs[i].next]
    IN  from[vs[id].elem]
Nameless(vs, id) ==
    \E m \in NodesBelow(vs, id) \cup {id} :
        vs[m].kind = "manyof" /\ \E k \in ToSet(Kids(vs, m)) : vs[k].kind \in Scalars

\* A field becomes of the kind of the source, whatever it was.  Over elements
\* of another kind, a literal cannot be assigned (an assertion fails); over
\* elements of its own kind, it becomes the first of them.
Assignable(id, s) ==
    source[s].kind # "literal" \/ tree[id].elem = 0 \/ tree[tree[id].elem].kind = LiteralAt(source, s).kind
AssignTo(name, s) ==
    Does(AssignValueAt(tree, 2, name, source, s), Holding(name, Json(source, s), ~Nameless(source, s)))
AssignSubfield ==
    \E name \in EditNames, s \in {k \in NodesBelow(source, 1) : source[k].kind \notin Scalars} :
        IF \A id \in ToSet(Named(tree, 2, name)) : Assignable(id, s) THEN AssignTo(name, s) ELSE Aborts

\* That a field already there is of the kind asked for is asserted.
Ensurable(id, kind) ==
    tree[id].kind = kind \/ (tree[id].kind = "literal" /\ LiteralAt(tree, id).kind = kind)
EnsureIn(name, kind, e) ==
    Does(e.vs, IF PlaceOf(name) = 0 THEN Holding(name, Json(e.vs, e.id), TRUE) ELSE holds)
EnsureField1 ==
    \E name \in EditNames, kind \in {"message", "array", "bool"} :
        IF \A id \in ToSet(Named(tree, 2, name)) : Ensurable(id, kind)
        THEN EnsureIn(name, kind, EnsureSubfield(tree, 2, name, kind)) ELSE Aborts

\* An element is appended to an array that has been made.
AppendTo(i, id, s) ==
    Does(AppendAt(tree, id, NoName, source, s),
         [holds EXCEPT ![i].json = Front(@) \o Json(source, s) \o <<",", "}">>, ![i].sure = @ /\ ~Nameless(source, s)])
AppendElementTo ==
    \E i \in DOMAIN holds, s \in {k \in NodesBelow(source, 1) : source[k].kind \in Scalars \cup {"message"}} :
        /\ tree[Kids(tree, 2)[i]].kind = "array"
        /\ AppendTo(i, Kids(tree, 2)[i], s)

RemoveSubfield ==
    \E i \in DOMAIN holds : Does(RemoveElement(tree, 2, Kids(tree, 2)[i]), SubSeq(holds, 1, i - 1) \o SubSeq(holds, i + 1, Len(holds)))

Change ==
    /\ sx.stage = "editing" /\ sx.edits < EditsMax
    /\ AssignSubfield \/ EnsureField1 \/ AppendElementTo \/ RemoveSubfield

SxprotoNext == ReadSxpb \/ PrintOut \/ Edit \/ Change

(***************************************************************************)
(* Properties.                                                             *)
(***************************************************************************)
\* Where the printer and the parser are known to differ: a subnest whose only
\* element is a subnest that begins with several words; an array or a manyof
\* that a later field continues with elements of another kind; a literal
\* without a value, which a schema makes of an empty manyof; and carriage
\* returns, which are read as escapes, printed as they are and then ignored.
Empty(vs, id) == vs[id].kind = "literal" /\ vs[id].elem = 0
LostNest(vs) ==
    \E id \in DOMAIN vs : /\ vs[id].kind = "nest" /\ id # 1 /\ OnlyWords(vs, id)
                          /\ vs[vs[id].elem].kind = "nest"
Anonymous(vs, id) ==
    {k \in ToSet(Kids(vs, id)) : vs[id].kind = "array" \/ NameOf(vs, k) \in {NoName, <<>>}}
MixedList(vs) ==
    \E id \in DOMAIN vs : /\ vs[id].kind \in {"array", "manyof"}
                          /\ Cardinality({vs[k].kind : k \in Anonymous(vs, id)}) > 1
Hollow(vs) == \E id \in DOMAIN vs : Empty(vs, id)
ReturnInName(vs) == \E id \in DOMAIN vs : vs[id].kind \notin Scalars /\ "\r" \in ToSet(vs[id].text)
Whole(vs) == ~LostNest(vs) /\ ~MixedList(vs) /\ ~Hollow(vs) /\ ~ReturnInName(vs)
WithoutReturns(vs) ==
    [id \in DOMAIN vs |-> [vs[id] EXCEPT !.text = SelectSeq(@, LAMBDA c : c # "\r")]]

\* A tree that was read is printed as a text that is read into a tree that
\* means the same: names and strings are quoted and escaped where they must
\* be, numbers keep their value, and every discriminator that is needed is
\* written (print_sxpb_FildeshO, slurp_sxpb_close_FildeshX).  Of strings, only
\* carriage returns are lost.
SxpbRoundTrip ==
    /\ sx.stage = "lost" => ~Whole(source)
    /\ sx.stage = "reread" /\ Whole(source) => Json(tree, 1) = Json(WithoutReturns(source), 1)

\* What a schema asks of the elements of a node.
RECURSIVE Suits(_, _, _)
SuitsScalar(vs, id, kind) == Empty(vs, id) \/ (vs[id].kind = "literal" /\ vs[vs[id].elem].kind = kind)
SuitsNamed(vs, id, field) == (field.name = vs[id].text \/ field.kind = "loneof") /\ Suits(vs, id, field)
SuitsAll(vs, id, schema) == \A k \in ToSet(Kids(vs, id)) : SuitsNamed(vs, k, Subfield(schema, vs[k].text))
Suits(vs, id, field) ==
    CASE field.kind \in Scalars -> SuitsScalar(vs, id, field.kind)
      [] field.kind = "message" -> vs[id].kind = "message" /\ SuitsAll(vs, id, field)
      [] field.kind = "loneof" -> Empty(vs, id) \/ (vs[id].kind = "loneof" /\ SuitsAll(vs, id, field))
      [] field.kind = "array" ->
           /\ vs[id].kind = "array"
           /\ \A k \in ToSet(Kids(vs, id)) :
                IF field.subs = 0 THEN vs[k].kind = field.of ELSE vs[k].kind = "message" /\ SuitsAll(vs, k, field)
      [] field.kind = "dict" ->
           /\ vs[id].kind = "dict"
           /\ \A k \in ToSet(Kids(vs, id)) :
                IF field.subs = 0 THEN field.of = "unknown" \/ SuitsScalar(vs, k, field.of) ELSE vs[k].kind = "message" /\ SuitsAll(vs, k, field)
      [] field.kind = "manyof" ->
           /\ vs[id].kind = "manyof"
           /\ \A k \in ToSet(Kids(vs, id)) :
                vs[k].kind \in Scalars \/ (IF vs[k].text = <<>> THEN SuitsAll(vs, k, field)
                                           ELSE Suits(vs, k, Subfield(field, vs[k].text)))
      [] field.kind = "nest" -> vs[id].kind = "nest"
      [] OTHER -> FALSE


\* The changed message holds what was put there, in the order in which the
\* names came, whatever is assigned over, of the same kind or of another,
\* appended, removed or read of other nodes on the way, as long as no
\* assertion fails (assign_at_FildeshSxpb and what it calls).
SxpbEditsHold ==
    sx.stage = "editing" =>
        /\ [i \in DOMAIN holds |-> holds[i].name] = [i \in DOMAIN Kids(tree, 2) |-> tree[Kids(tree, 2)[i]].text]
        /\ \A i \in DOMAIN holds : holds[i].sure => Json(tree, Kids(tree, 2)[i]) = holds[i].json
=============================================================================
