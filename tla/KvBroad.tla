------------------------------- MODULE KvBroad -------------------------------
(***************************************************************************)
(* The broad-leaf red-black tree of src/src/lib/kv/brbtree.c: a red-black  *)
(* tree whose black subtrees of two or three entries keep a pair of them   *)
(* in one node, unless their keys are too long.  Entries that do not fit   *)
(* a full subtree are shifted into its sibling.  Nothing can be removed.   *)
(* The operators have the names of the functions they stand for.           *)
(***************************************************************************)
EXTENDS KvTree

Small(m, k) == k < m.big
Copy(m, x, e) == [m EXCEPT !.at[x] = CopyKv(@, e)]
FuseAt(m, x, side, e) == [m EXCEPT !.at[x] = Fuse(@, side, e)]
Join2(m, y, x0, x1) == Join(Join(m, y, 0, x0), y, 1, x1)

DetectD2Subtree(m, b) ==
    Broad(m.at[b]) \/ (~Broad(m.at[Split(m, b, 1)]) /\ Split(m, b, 0) = Nil)

\* The walk to the node where key k is or belongs: an even id is the entry,
\* an odd one twice the node plus one.
RECURSIVE BroadDescend(_, _, _)
BroadDescend(m, k, y) ==
    LET kid == Split(m, y, IF k < m.at[y].k THEN 0 ELSE 1)
    IN  IF IsLeaf(m, y) THEN 2 * y + 1
          ELSE IF k = m.at[y].k THEN 2 * y
          ELSE IF kid = Nil THEN 2 * y + 1
          ELSE BroadDescend(m, k, kid)

LookupForEnsure(m, k) == IF m.free = 0 THEN Nil ELSE BroadDescend(m, k, 0)

\* k is known to be below y.
LookupFrom(m, y, k) ==
    LET id == BroadDescend(m, k, y)
    IN  IF id % 2 = 1 /\ IsLeaf(m, id \div 2) /\ CmpKVE(k, m.at[id \div 2]) = 0 THEN id - 1 ELSE id

(***************************************************************************)
(* Trees and subtrees of one and two entries.                              *)
(***************************************************************************)
RedRight(s) == [id |-> 2 * s.x, m |-> Color(Join(s.m, s.x, 1, s.y), s.y, TRUE)]

Insert0Root1(m, y, e) ==
    LET n == EmptyAdd(m)
    IN  IF Fits(m, m.at[y], e.k) THEN [id |-> 2 * y, m |-> FuseAt(m, y, 0, e)]
        ELSE RedRight(SubJoin(Put(n.m, n.x, e), y, n.x))

Insert1Root1(m, y, e) ==
    LET n == EmptyAdd(m)
    IN  IF Fits(m, m.at[y], e.k) THEN [id |-> 2 * y + 1, m |-> FuseAt(m, y, 1, e)]
        ELSE [id |-> 2 * n.x, m |-> Color(Join(Put(n.m, n.x, e), y, 1, n.x), n.x, TRUE)]

Insert0D2BBlack(m, y, e) ==
    LET n == EmptyAdd(m) IN RedRight(SubJoin(Copy(n.m, n.x, e), y, n.x))

Insert0D2SBlack(m, y, e) ==
    LET n == EmptyAdd(m)
    IN  [id |-> 2 * n.x, m |-> Join(Color(Copy(n.m, n.x, e), n.x, TRUE), y, 0, n.x)]

\* The broad leaf y is taken apart: its second entry goes to a new child.
TakeApart(m, y) ==
    LET n  == EmptyAdd(m)
        m1 == Put(Put(n.m, n.x, Promote(m.at[y])), y, EraseSplit(m.at[y]))
    IN  [x |-> n.x, m |-> Color(Join(m1, y, 1, n.x), n.x, TRUE)]

Insert1D2BBlack(m, y, e) ==
    LET t == TakeApart(m, y) IN [id |-> 2 * t.x, m |-> FuseAt(t.m, t.x, 0, e)]

\* What replaced s.y becomes the black joint of s.y and x.
BlackAbove(s, x) ==
    LET m1 == Color(Join2(s.m, s.x, s.y, x), s.x, FALSE)
    IN  [id |-> 2 * s.x, m |-> Color(Color(m1, s.y, TRUE), x, TRUE)]

Insert1D2SRed(m, y, e) ==
    LET n == EmptyAdd(m) IN BlackAbove(SubJoin(Copy(n.m, n.x, e), Joint(m, y), n.x), y)

Insert2D2BBlack(m, y, e) ==
    LET t  == TakeApart(m, y)
        n  == EmptyAdd(m)
        nw == EmptyAdd(n.m)
        m1 == Put(Copy(nw.m, n.x, e), nw.x, EraseSplit(m.at[y]))
        m2 == Join2(Put(m1, y, Promote(m.at[y])), y, nw.x, n.x)
    IN  IF Small(m, e.k) THEN [id |-> 2 * t.x + 1, m |-> FuseAt(t.m, t.x, 1, e)]
        ELSE [id |-> 2 * n.x, m |-> Color(Color(m2, nw.x, TRUE), n.x, TRUE)]

Insert2D2SRed(m, y, e) ==
    LET n == EmptyAdd(m)
    IN  [BlackAbove(SubJoin(Copy(n.m, n.x, e), Joint(m, y), y), n.x) EXCEPT !.id = 2 * n.x]

(***************************************************************************)
(* Trees of three and four entries: an entry below all others.             *)
(***************************************************************************)
Insert0Root3SBlack(m, b, e) ==
    LET n == EmptyAdd(m)
        m1 == Join(Put(n.m, n.x, m.at[b]), n.x, 1, Split(m, b, 1))
    IN  [id |-> 2 * b, m |-> Join(Put(m1, b, e), b, 1, n.x)]

Insert0Root3SRed(m, y, e) ==
    LET a == Joint(m, y)
        n == EmptyAdd(m)
        m1 == Join2(Put(n.m, n.x, m.at[a]), n.x, Split(m, a, 0), Split(m, a, 1))
    IN  [id |-> 2 * a, m |-> Join(AssignSplit(Copy(m1, a, e), a, 0, Nil), a, 1, n.x)]

Insert0Root4(m, b, e) ==
    LET y  == Split(m, b, 1)
        z  == Split(m, y, 1)
        x  == Split(m, y, 0)
        \* y becomes the root: b's entry moves to y's index and is fused.
        m1 == Join2(AssignJoint(SwapNodes(m, b, y), b, Nil), b, y, z)
        \* or x does, with b's entry as the red child of a new node
        m2 == SwapNodes(AssignSplit(m, y, 0, Nil), b, x)
        n  == EmptyAdd(m2)
        m3 == AssignJoint(Color(Put(n.m, n.x, e), b, FALSE), b, Nil)
        m4 == Color(Join2(m3, b, n.x, y), x, TRUE)
        m5 == AssignSplit(AssignSplit(Join(m4, n.x, 1, x), x, 0, Nil), x, 1, Nil)
    IN  IF x = Nil THEN [id |-> 2 * y, m |-> Color(FuseAt(m1, y, 0, e), z, FALSE)]
        ELSE [id |-> 2 * n.x, m |-> m5]

(***************************************************************************)
(* Shifting left: e enters a subtree of three entries and g, its lowest,   *)
(* leaves.  S: three nodes; R: two, of which the red one is broad.         *)
(***************************************************************************)
Lshins1D3SRed(m, y, e) == [g |-> m.at[y], m |-> Copy(m, y, e)]

Lshins2D3SRed(m, y, e) ==
    LET b == Joint(m, y)
        l == Lshins1D3SRed(m, Split(m, b, 0), m.at[b])
    IN  [l EXCEPT !.m = Copy(@, b, e)]

Lshins3D3SRed(m, y, e) ==
    LET l == Lshins2D3SRed(m, y, m.at[y]) IN [l EXCEPT !.m = Copy(@, y, e)]

Lshins1D3RRed(m, y, e) == LET b == Joint(m, y) IN [g |-> m.at[b], m |-> Copy(m, b, e)]

Lshins2D3RRed(m, y, e) ==
    LET l == Lshins1D3RRed(m, y, m.at[y]) IN [l EXCEPT !.m = Copy(@, y, e)]

Lshins3D3RRed(m, y, e) ==
    LET l  == Lshins1D3RRed(m, y, m.at[y])
        m1 == [l.m EXCEPT !.at[y] = Promote(@)]
    IN  [l EXCEPT !.m = IF Small(m, e.k) THEN FuseAt(m1, y, 1, e) ELSE Insert2D2SRed(m1, y, e).m]

\* The lowest entry leaves a subtree of three.
LshD3(m, b) ==
    LET x == Split(m, b, 0)
        y == Split(m, b, 1)
        m1 == Put(m, b, [m.at[y] EXCEPT !.joint = Joint(m, b), !.red = FALSE])
    IN  IF x = Nil THEN [g |-> m.at[b], m |-> Reclaim(m1, y)]
        ELSE [g |-> m.at[x], m |-> Reclaim(AssignSplit(m, b, 0, Nil), x)]

(***************************************************************************)
(* Shifting right: the highest entry leaves.                               *)
(***************************************************************************)
Rshins2D3SRed(m, y, e) ==
    LET m1 == Copy(m, y, e)
        b  == Joint(m, y)
        x  == Split(m, b, 0)
        m2 == Copy(FuseAt(m1, y, 0, m1.at[b]), b, m1.at[x])
    IN  [g |-> m.at[y],
         m |-> IF Small(m, e.k) THEN Reclaim(AssignSplit(m2, b, 0, Nil), x) ELSE m1]

Rshins1D3SRed(m, y, e) ==
    LET b == Joint(m, y)
        z == Split(m, b, 1)
        r == Rshins2D3SRed(m, z, m.at[b])
    IN  [r EXCEPT !.m = Copy(@, IF Split(@, b, 0) = Nil THEN z ELSE b, e)]

Rshins0D3SRed(m, y, e) ==
    LET b == Joint(m, y)
        r == Rshins1D3SRed(m, y, m.at[y])
    IN  [r EXCEPT !.m = LET x == Split(@, b, 0) IN Copy(@, IF x = Nil THEN b ELSE x, e)]

RshinsRRed(m, y, e, side) ==
    [g |-> Promote(m.at[y]), m |-> Put(m, y, Fuse(EraseSplit(m.at[y]), side, e))]
Rshins2D3RRed(m, y, e) == RshinsRRed(m, y, e, 1)
Rshins1D3RRed(m, y, e) == RshinsRRed(m, y, e, 0)

Rshins0D3SBlack(m, b, e) ==
    LET r == Rshins1D3RRed(m, Split(m, b, 1), m.at[b]) IN [r EXCEPT !.m = Copy(@, b, e)]

\* The highest entry leaves a subtree of three.
RshD3(m, b) ==
    LET x == Split(m, b, 0)
        y == Split(m, b, 1)
        m1 == Put(m, y, EraseSplit(m.at[y]))
        m2 == Copy(Copy(m, y, m.at[b]), b, m.at[x])
    IN  IF Broad(m.at[y]) THEN
               [g |-> Promote(m.at[y]), m |-> Reclaim(FuseAt(m1, b, 1, m1.at[y]), y)]
          ELSE IF Small(m, m.at[b].k) THEN
               [g |-> m.at[y], m |-> Reclaim(FuseAt(m, b, 0, m.at[x]), x)]
          ELSE
               [g |-> m.at[y], m |-> Reclaim(AssignSplit(m2, b, 0, Nil), x)]

\* Enter e into the full subtree of b, at node y, and shift an entry out
\* towards b's sibling: to the left if b is a right child.
ShiftIn(m, y, si, e, b, bSide) ==
    LET out == [g |-> e, m |-> m]          \* e itself is the outermost entry
        left == bSide = 1
    IN  IF ~IsRed(m, y) THEN IF left THEN out ELSE Rshins0D3SBlack(m, y, e)
          ELSE IF IsRed(m, y) /\ Broad(m.at[y]) THEN
               IF si < 0 THEN IF left THEN Lshins1D3RRed(m, y, e) ELSE Rshins1D3RRed(m, y, e)
                 ELSE IF si = 1 THEN IF left THEN Lshins2D3RRed(m, y, e) ELSE Rshins2D3RRed(m, y, e)
                 ELSE IF left THEN Lshins3D3RRed(m, y, e) ELSE out
          ELSE
               IF Split(m, b, 0) = y /\ si < 0 THEN IF left THEN out ELSE Rshins0D3SRed(m, y, e)
                 ELSE IF Split(m, b, 0) = y THEN IF left THEN Lshins1D3SRed(m, y, e) ELSE Rshins1D3SRed(m, y, e)
                 ELSE IF si < 0 THEN IF left THEN Lshins2D3SRed(m, y, e) ELSE Rshins2D3SRed(m, y, e)
                 ELSE IF left THEN Lshins3D3SRed(m, y, e) ELSE out

\* Both siblings are full: a gives up a level and its two subtrees and a new
\* one, at y, have two entries each, below a and a new red node b.
GiveRight(m, a, y, l) == [y |-> y, r |-> RshD3(Copy(l.m, a, l.g), Split(l.m, a, 0))]
GiveUp(m, a, n) == GiveRight(m, a, n.x, LshD3(Copy(n.m, n.x, n.m.at[a]), Split(n.m, a, 1)))
RedBelow(n, a, y, g) ==
    LET b  == n.x
        m1 == Join(Copy(n.m, b, g), b, 0, Split(n.m, a, 0))
    IN  [b |-> b, y |-> y, m |-> Join(Color(Join(m1, a, 0, b), b, TRUE), b, 1, y)]
WithRedBelow(up, a) == RedBelow(EmptyAdd(up.r.m), a, up.y, up.r.g)
EnterBelow(t, g, bSide) ==
    [b |-> t.b, m |-> IF bSide = 0 THEN Insert0Root1(t.m, t.y, g).m ELSE Insert1Root1(t.m, t.y, g).m]
ThreeSubtrees(m, a, g, bSide) == EnterBelow(WithRedBelow(GiveUp(m, a, EmptyAdd(m)), a), g, bSide)

\* The answer names k's entry, which is somewhere below top by now.
Found(m, top, k) == [id |-> LookupFrom(m, top, k), m |-> m]
FixedUp(t, id) == [FixupInsert(t.m, t.b, id \div 2) EXCEPT !.x = 2 * @ + (id % 2)]
Repaired(f) == [id |-> f.x, m |-> f.m]

\* g has left a tree of three, at b.
Root3(m, b, g) ==
    IF Split(m, b, 0) = Nil THEN Insert0Root3SBlack(m, b, g)
    ELSE Insert0Root3SRed(m, Split(m, b, 0), g)

\* h enters the sibling, a subtree of two.
EnterD2(m, sib, bSide, h) ==
    IF Broad(m.at[sib])
    THEN IF bSide = 0 THEN Insert0D2BBlack(m, sib, h) ELSE Insert2D2BBlack(m, sib, h)
    ELSE IF bSide = 0 THEN Insert0D2SBlack(m, sib, h) ELSE Insert2D2SRed(m, Split(m, sib, 1), h)

\* The node of a red sibling that is nearest to b.
Nearest(m, sib, bSide) ==
    LET y == Split(m, sib, bSide)
    IN  IF ~IsLeaf(m, y) /\ Split(m, y, bSide) # Nil THEN Split(m, y, bSide) ELSE y

\* k's entry is in the full subtree that b was the top of, and g has been
\* shifted out.  It replaces the entry h of a, the joint that b had, and h
\* enters b's sibling.
RECURSIVE BroadInsert(_, _, _, _)
Shifted(m, g, a, b, bSide, k) ==
    LET m1   == Copy(m, a, g)
        sib  == Split(m, a, 1 - bSide)
        in   == Nearest(m, sib, bSide)
        inSi == IF bSide = 0 THEN -1 ELSE IF Broad(m.at[in]) THEN 3 ELSE 1
        last(t) == Repaired(FixedUp(t, LookupFrom(t.m, a, k)))
    IN  IF a = Nil THEN Found(Root3(m, b, g).m, b, k)
          ELSE IF Split(m, a, 0) = Nil THEN Found(Insert0Root4(m1, a, m.at[a]).m, a, k)
          ELSE IF IsRed(m, sib) THEN Found(BroadInsert(m1, in, inSi, m.at[a]).m, a, k)
          ELSE IF DetectD2Subtree(m, sib) THEN Found(EnterD2(m1, sib, bSide, m.at[a]).m, a, k)
          ELSE last(ThreeSubtrees(m, a, g, bSide))
AfterShift(s, a, b, bSide, k) == Shifted(s.m, s.g, a, b, bSide, k)

BroadInsert(m, y, si, e) ==
    LET red   == IsRed(m, y)
        b     == IF red THEN Joint(m, y) ELSE y
        z     == Split(m, y, 1)
        bSide == IF IsRoot(m, b) THEN 1 ELSE SideOf(m, b)
    IN  IF red /\ ~Broad(m.at[y]) /\ Split(m, b, 0) = Nil THEN
               IF si < 0 THEN Insert1D2SRed(m, y, e) ELSE Insert2D2SRed(m, y, e)
          ELSE IF ~red /\ Broad(m.at[y]) THEN
               (IF si < 0 THEN Insert0D2BBlack(m, y, e)
                  ELSE IF si = 1 THEN Insert1D2BBlack(m, y, e)
                  ELSE Insert2D2BBlack(m, y, e))
          ELSE IF ~red /\ IsLeaf(m, y) THEN
               IF si < 0 THEN Insert0Root1(m, y, e) ELSE Insert1Root1(m, y, e)
          ELSE IF ~red /\ ~IsRed(m, z) THEN Insert0Root4(m, y, e)
          ELSE IF ~red /\ ~Broad(m.at[z]) THEN Insert0D2SBlack(m, y, e)
          ELSE AfterShift(ShiftIn(m, y, si, e, b, bSide), Joint(m, b), b, bSide, e.k)

BroadEnsure(m, k) ==
    LET e  == PopulateEmpty(DefaultKVE, k)
        id == LookupForEnsure(m, k)
        y  == id \div 2
        si == IF IsLeaf(m, y) THEN CmpKVE(k, m.at[y]) ELSE -1
        alone(n) == [id |-> 2 * n.x, m |-> Copy(n.m, n.x, e)]
    IN  IF id = Nil THEN alone(EmptyAdd(m))
          ELSE IF id % 2 = 0 THEN [id |-> id, m |-> m]
          ELSE IF si = 0 THEN [id |-> 2 * y, m |-> m]
          ELSE IF si = 2 THEN [id |-> 2 * y + 1, m |-> m]
          ELSE BroadInsert(m, y, si, e)
=============================================================================
