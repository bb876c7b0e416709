------------------------------- MODULE KvTree -------------------------------
(***************************************************************************)
(* The search tree maps: bstree.[ch] (plain) and rbtree.c (red-black, the  *)
(* default kind) of src/src/lib/kv.  The root is always at index 0, so an  *)
(* operation that makes another node the root swaps the two nodes'         *)
(* contents, and every index it holds has to follow.                       *)
(***************************************************************************)
EXTENDS Kve

Joint(m, x)    == m.at[x].joint
Split(m, y, s) == m.at[y].kid[s]
IsRoot(m, x)   == Joint(m, x) = Nil
IsRed(m, x)    == m.at[x].red
IsLeaf(m, x)   == Broad(m.at[x]) \/ m.at[x].kid = DefaultKVE.kid

AssignJoint(m, x, y) == [m EXCEPT !.at[x].joint = y]
MaybeAssignJoint(m, x, y) == IF x = Nil THEN m ELSE AssignJoint(m, x, y)
AssignSplit(m, y, s, x) == [m EXCEPT !.at[y].kid[s] = x]
MaybeAssignSplit(m, y, s, x) == IF y = Nil THEN m ELSE AssignSplit(m, y, s, x)
Join(m, y, s, x) == MaybeAssignJoint(AssignSplit(m, y, s, x), x, y)
Color(m, x, red) == [m EXCEPT !.at[x].red = red]
Put(m, x, e) == [m EXCEPT !.at[x] = e]
SwapNodes(m, x, y) == [m EXCEPT !.at[x] = m.at[y], !.at[y] = m.at[x]]

SideOf(m, x) ==
    IF Joint(m, x) # Nil /\ Split(m, Joint(m, x), 1) = x THEN 1 ELSE 0

\* x takes the place of y, which is left unconnected.  If y was the root they
\* swap contents; the result names where each of them is now.
SubJoin(m, y, x) ==
    LET b  == Joint(m, y)
        m1 == AssignJoint([m EXCEPT !.at[y].joint = Nil, !.at[y].kid = DefaultKVE.kid], x, b)
    IN  IF b = Nil
        THEN [m |-> SwapNodes(m1, y, x), y |-> x, x |-> y]
        ELSE [m |-> AssignSplit(m1, b, IF Split(m1, b, 1) = y THEN 1 ELSE 0, x), y |-> y, x |-> x]

\* The child of y on side s is told where y is now.
Adopt(m, y, s) == MaybeAssignJoint(m, Split(m, y, s), y)

\* Rotate a above its joint b; the result names where a is now: if b was the
\* root they swap contents.
RotateAbove(m, a, b, side) ==
    LET oside   == 1 - side
        y       == Split(m, a, oside)
        swapped == SwapNodes(AssignJoint(m, a, Nil), a, b)
        above   == Join(m, Joint(m, b), SideOf(m, b), a)
    IN  IF IsRoot(m, b)
        THEN [a |-> b,
              m |-> Join(Join(Adopt(Adopt(swapped, b, side), a, oside), b, oside, a), a, side, y)]
        ELSE [a |-> a, m |-> Join(Join(above, a, oside, b), b, side, y)]
RotateUp(m, a) == RotateAbove(m, a, Joint(m, a), SideOf(m, a))
RotateAgain(r) == RotateUp(r.m, r.a)

(***************************************************************************)
(* Iteration (children before their joint) and lookup.                     *)
(***************************************************************************)
RECURSIVE FirstFrom(_, _)
FirstFrom(m, x) ==
    IF Broad(m.at[x]) THEN 2 * x
      ELSE IF Split(m, x, 0) # Nil THEN FirstFrom(m, Split(m, x, 0))
      ELSE IF Split(m, x, 1) # Nil THEN FirstFrom(m, Split(m, x, 1))
      ELSE 2 * x

TreeFirst(m) == IF m.free = 0 THEN Nil ELSE FirstFrom(m, 0)

\* Mutant of TreeNext: the side it comes from is not looked at.
TreeNextAgain(m, id) ==
    LET y == Joint(m, id \div 2)
    IN  IF id % 2 = 0 /\ Broad(m.at[id \div 2]) THEN id + 1
          ELSE IF y = Nil THEN Nil
          ELSE IF Split(m, y, 1) # Nil THEN FirstFrom(m, Split(m, y, 1)) ELSE 2 * y
TreeNext(m, id) ==
    LET x == id \div 2
        y == Joint(m, x)
    IN  IF id % 2 = 0 /\ Broad(m.at[x]) THEN id + 1
          ELSE IF y = Nil THEN Nil
          ELSE IF Split(m, y, 0) = x /\ Split(m, y, 1) # Nil THEN FirstFrom(m, Split(m, y, 1))
          ELSE 2 * y

RECURSIVE TreeFind(_, _, _)
TreeFind(m, k, y) ==
    IF y = Nil THEN Nil
    ELSE LET e == m.at[y]
         IN  IF k = e.k THEN 2 * y
               ELSE IF Broad(e) THEN IF k > e.k /\ k = e.sk THEN 2 * y + 1 ELSE Nil
               ELSE TreeFind(m, k, Split(m, y, IF k < e.k THEN 0 ELSE 1))

TreeLookup(m, k) == TreeFind(m, k, IF m.free > 0 THEN 0 ELSE Nil)

\* Where the walk down for key k ends: at the node that holds it or, on some
\* side of the last node, at nothing.
RECURSIVE Descend(_, _, _, _, _)
Descend(m, k, a, side, y) ==
    IF y = Nil \/ m.at[y].k = k THEN [a |-> a, side |-> side, y |-> y]
    ELSE LET s == IF k < m.at[y].k THEN 0 ELSE 1
         IN  Descend(m, k, y, s, Split(m, y, s))

BstEnsure(m, k) ==
    LET d == Descend(m, k, Nil, 0, IF m.free > 0 THEN 0 ELSE Nil)
        n == EmptyAdd(m)
        m1 == Put(n.m, n.x, [PopulateEmpty(n.m.at[n.x], k) EXCEPT !.joint = d.a])
    IN  IF d.y # Nil THEN [id |-> 2 * d.y, m |-> m]
        ELSE [id |-> 2 * n.x, m |-> MaybeAssignSplit(m1, d.a, d.side, n.x)]

(***************************************************************************)
(* Removal.  The result names the removed node y, whose connections tell   *)
(* the red-black tree where a level changed, and the node z that replaced  *)
(* it, or Nil.                                                             *)
(***************************************************************************)
\* y has no children, or one (x), which takes its place.
PremoveOne(m, y, side) ==
    LET x  == Split(m, y, side)
        s  == SubJoin(m, y, x)
        m1 == Adopt(Adopt(s.m, s.x, 0), s.x, 1)
    IN  IF x = Nil
        THEN [m |-> MaybeAssignSplit(m, Joint(m, y), SideOf(m, y), Nil), y |-> y, z |-> Nil]
        ELSE [m |-> AssignSplit(m1, s.y, SideOf(m, y), s.x), y |-> s.y, z |-> s.x]

\* The child of y on the given side has no inner child: it moves up.
PremoveChild(m, y, side) ==
    LET b  == Split(m, y, side)
        m1 == AssignJoint(AssignSplit(m, b, 1 - side, Split(m, y, 1 - side)), b, Joint(m, y))
        m2 == SwapNodes(m1, y, b)                \* b is now at y, and y at b
        m3 == MaybeAssignJoint(m2, Split(m2, y, side), y)
        m4 == AssignSplit(AssignJoint(m3, b, y), b, side, Split(m3, y, side))
    IN  [m |-> AssignSplit(m4, b, 1 - side, Nil), y |-> b, z |-> y]

RECURSIVE Rightmost(_, _)
Rightmost(m, x) == IF Split(m, x, 1) = Nil THEN x ELSE Rightmost(m, Split(m, x, 1))

\* The entry next below y, deeper down, moves up.
PremoveDeep(m, y) ==
    LET x   == Rightmost(m, Split(m, y, 0))
        b   == Joint(m, x)
        m1  == AssignJoint(Join(m, b, 1, Split(m, x, 0)), x, Joint(m, y))
        top == IsRoot(m, y)
        y1  == IF top THEN x ELSE y
        x1  == IF top THEN y ELSE x
        m2  == IF top THEN SwapNodes(m1, y, x)
               ELSE AssignSplit(m1, Joint(m, y), SideOf(m, y), x)
        m3  == Join(Join(m2, x1, 0, Split(m2, y1, 0)), x1, 1, Split(m2, y1, 1))
        m4  == AssignSplit(AssignJoint(m3, y1, b), y1, 0, Nil)
    IN  [m |-> AssignSplit(m4, y1, 1, Split(m4, b, 1)), y |-> y1, z |-> x1]

BstPremove(m, y) ==
    LET kid(s) == Split(m, y, s)
    IN  IF kid(1) = Nil THEN PremoveOne(m, y, 0)
          ELSE IF kid(0) = Nil THEN PremoveOne(m, y, 1)
          ELSE IF Split(m, kid(0), 1) = Nil THEN PremoveChild(m, y, 0)
          ELSE IF Split(m, kid(1), 0) = Nil THEN PremoveChild(m, y, 1)
          ELSE PremoveDeep(m, y)

BstRemove(m, id) == LET p == BstPremove(m, id \div 2) IN Reclaim(p.m, p.y)

(***************************************************************************)
(* Red-black repair.                                                       *)
(***************************************************************************)
\* x is red and so may be its joint; ins is the index of the node just added
\* and is followed through the rotations.
RECURSIVE FixupInsert(_, _, _)
FixupInsert(m, x, ins) ==
    LET b == Joint(m, x)
        \* after a rotation r that brought node y up
        next(r, y) == FixupInsert(r.m, r.a, IF ins = y THEN r.a ELSE ins)
    IN  IF b = Nil THEN [x |-> ins, m |-> Color(m, x, FALSE)]
          ELSE IF ~IsRed(m, b) THEN [x |-> ins, m |-> m]
          ELSE IF SideOf(m, x) = SideOf(m, b) THEN next(RotateUp(Color(m, x, FALSE), b), b)
          ELSE next(RotateAgain(RotateUp(Color(m, b, FALSE), x)), x)

IdOf(f) == [id |-> 2 * f.x, m |-> f.m]
\* Mutant of FixupNew: a new node is red, whatever its joint is.
FixupLeft(n, x) == IdOf([x |-> x, m |-> Color(n.m, x, TRUE)])
FixupNew(n, x) == IdOf(FixupInsert(Color(n.m, x, TRUE), x, x))
RbEnsured(m, n) == IF n.m.free = m.free THEN n ELSE FixupNew(n, n.id \div 2)
RbEnsure(m, k) == RbEnsured(m, BstEnsure(m, k))

\* The given side of y's joint is short of a black node; y is black and may be
\* the removed node standing for an empty subtree.
RECURSIVE FillGap(_, _, _)
FillGap(m, y, side) ==
    IF IsRoot(m, y) THEN m
    ELSE LET b == Joint(m, y)
             a == Split(m, b, 1 - side)
             w == Split(m, a, 1 - side)
             x == Split(m, a, side)
             bb == IF IsRed(m, b) THEN b ELSE x
             \* after a has gone up, y's joint is b, wherever b is now
             below(r, b2) == IF Split(r.m, b2, side) = Nil THEN AssignJoint(r.m, y, b2) ELSE r.m
             lower(r) == below(r, Split(r.m, r.a, side))
         IN  IF x # Nil /\ IsRed(m, x) THEN RotateAgain(RotateUp(Color(m, bb, FALSE), x)).m
               ELSE IF IsRed(m, b) THEN RotateUp(m, a).m
               ELSE IF IsRed(m, a) THEN
                    FillGap(lower(RotateUp(Color(Color(m, a, FALSE), b, TRUE), a)), y, side)
               ELSE IF w # Nil /\ IsRed(m, w) THEN RotateUp(Color(m, w, FALSE), a).m
               ELSE FillGap(Color(m, a, TRUE), b, SideOf(m, b))

FixupRemove(m, y, side) ==
    IF IsRed(m, y) THEN Color(m, y, FALSE) ELSE FillGap(m, y, side)

\* y has been disconnected and had, or now has, the color of its place.
Rebalance(m, y) ==
    LET kid(s) == Split(m, y, s)
        gap    == IF Split(m, Joint(m, y), 1) = Nil THEN 1 ELSE 0
    IN  IF IsRed(m, y) THEN m
          ELSE IF kid(0) # Nil THEN FixupRemove(m, kid(0), 0)
          ELSE IF kid(1) # Nil THEN FixupRemove(m, kid(1), 1)
          ELSE IF ~IsRoot(m, y) THEN FixupRemove(m, y, gap)
          ELSE m

\* y and the node z that replaced it swap colors.
SwapColors(m, y, z) ==
    IF z = Nil THEN m ELSE Color(Color(m, y, IsRed(m, z)), z, IsRed(m, y))

RbDetached(p) == Reclaim(Rebalance(SwapColors(p.m, p.y, p.z), p.y), p.y)
RbRemove(m, id) == RbDetached(BstPremove(m, id \div 2))
=============================================================================
