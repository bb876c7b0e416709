-------------------------------- MODULE Sxpb --------------------------------
(***************************************************************************)
(* The value trees of sxproto (value.c, sxpb.c): an array of nodes, each   *)
(* with the index of its first element and of the next node in its list.   *)
(* Nodes are only ever added at the end, and the first is the top.  A text *)
(* is a sequence of strings, one per character, except that true and false *)
(* count as one.  Index 0 stands for the null id.                          *)
(***************************************************************************)
EXTENDS Integers, SequencesExt, FiniteSetsExt

Scalars == {"string", "bool", "int", "float"}
Literals == Scalars \cup {"literal"}
DictLike == {"message", "dict", "loneof"}
Repeated == {"array", "dict", "manyof", "nest"}

DefaultText == [string |-> <<>>, bool |-> <<"+", "false">>, int |-> <<"+", "0">>,
                float |-> <<"+", "0", ".", "e", "+", "0">>]

OpenSxpb == <<[text |-> <<>>, kind |-> "message", elem |-> 0, next |-> 0]>>

InsertFirst(vs, id, text, kind) ==
    Append([vs EXCEPT ![id].elem = Len(vs) + 1],
           [text |-> text, kind |-> kind, elem |-> 0, next |-> vs[id].elem])
InsertNext(vs, id, text, kind) ==
    Append([vs EXCEPT ![id].next = Len(vs) + 1],
           [text |-> text, kind |-> kind, elem |-> 0, next |-> vs[id].next])

\* The elements of a node, in order.
Kids(vs, id) ==
    LET from[i \in 0 .. Len(vs)] == IF i = 0 THEN <<>> ELSE <<i>> \o from[vs[i].next]
    IN  from[vs[id].elem]
LastKid(vs, id) == IF vs[id].elem = 0 THEN 0 ELSE Last(Kids(vs, id))

InsertLast(vs, id, text, kind) ==
    IF vs[id].elem = 0 THEN InsertFirst(vs, id, text, kind)
    ELSE InsertNext(vs, LastKid(vs, id), text, kind)

Named(vs, id, name) == SelectSeq(Kids(vs, id), LAMBDA k : vs[k].text = name)

\* The nodes and the index of the subfield of that name, which is added to
\* the end, of unknown kind, if there is none.
EnsureField(vs, id, name) ==
    IF Named(vs, id, name) # <<>>
    THEN [vs |-> vs, id |-> Head(Named(vs, id, name))]
    ELSE [vs |-> InsertLast(vs, id, name, "unknown"), id |-> Len(vs) + 1]

WithKind(e, kind) ==
    IF e.vs[e.id].kind # "unknown" THEN e
    ELSE IF kind \in Scalars
         THEN [e EXCEPT !.vs = InsertFirst([@ EXCEPT ![e.id].kind = "literal"], e.id, DefaultText[kind], kind)]
         ELSE [e EXCEPT !.vs[e.id].kind = kind]
EnsureSubfield(vs, id, name, kind) == WithKind(EnsureField(vs, id, name), kind)

LiteralAt(vs, id) == vs[IF vs[id].elem # 0 THEN vs[id].elem ELSE id]

RemoveElement(vs, cons, elem) ==
    IF vs[cons].elem = elem THEN [vs EXCEPT ![cons].elem = vs[elem].next]
    ELSE LET p == CHOOSE k \in ToSet(Kids(vs, cons)) : vs[k].next = elem
         IN  [vs EXCEPT ![p].next = vs[elem].next]

AssignLiteral(vs, id, e) ==
    IF vs[id].kind # "literal" THEN [vs EXCEPT ![id].text = e.text]
    ELSE IF vs[id].elem = 0 THEN InsertFirst(vs, id, e.text, e.kind)
    ELSE [vs EXCEPT ![vs[id].elem].text = e.text]

NoName == <<"no name">>

\* Where an element is appended: in a message, below the named submessage;
\* in a nest, the name is the text of the element; in a manyof, the name of
\* the field.  A scalar with a name has a node for the name above its own.
AppendElement(vs, id, name, kind) ==
    CASE name # NoName /\ vs[id].kind \in DictLike ->
           LET e == EnsureSubfield(vs, id, name, "message")
           IN  InsertLast(e.vs, e.id, IF kind \in Scalars THEN DefaultText[kind] ELSE <<>>, kind)
      [] name # NoName /\ vs[id].kind = "manyof" /\ kind \in Scalars ->
           LET named == InsertLast(vs, id, name, "literal")
           IN  InsertFirst(named, Len(named), DefaultText[kind], kind)
      [] OTHER ->
           InsertLast(vs, id, IF name # NoName THEN name
                              ELSE IF kind \in Scalars THEN DefaultText[kind] ELSE <<>>, kind)
AppendedId(vs, id, name, kind) ==
    Len(vs) + (IF name # NoName /\ vs[id].kind \in DictLike /\ Named(vs, id, name) = <<>> THEN 2 ELSE 1)

\* Mutant of Cleared: the elements stay.
NotCleared(vs, id) == vs
Cleared(vs, id) == [vs EXCEPT ![id].elem = 0]

RECURSIVE AssignValueAt(_, _, _, _, _)
AppendAt(vs, id, name, src, s) ==
    AssignValueAt(AppendElement(vs, id, name, src[s].kind), AppendedId(vs, id, name, src[s].kind), NoName, src, s)
CopyKids(vs, id, src, s) ==
    FoldLeft(LAMBDA to, k : IF src[s].kind \in DictLike THEN AssignValueAt(to, id, src[k].text, src, k)
                            ELSE AppendAt(to, id, IF src[s].kind = "array" THEN NoName ELSE src[k].text, src, k),
             Cleared(vs, id), Kids(src, s))
AssignInto(vs, id, src, s) ==
    IF src[s].kind \in Literals THEN AssignLiteral(vs, id, LiteralAt(src, s)) ELSE CopyKids(vs, id, src, s)
AssignField(e, src, s) == AssignInto([e.vs EXCEPT ![e.id].kind = src[s].kind], e.id, src, s)
AssignValueAt(vs, id, name, src, s) ==
    IF name = NoName THEN AssignInto(vs, id, src, s) ELSE AssignField(EnsureField(vs, id, name), src, s)
=============================================================================
