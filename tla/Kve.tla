-------------------------------- MODULE Kve --------------------------------
(***************************************************************************)
(* The nodes of the key-value maps (src/src/lib/kv/kve.[ch]) and the       *)
(* accessors that are common to all kinds of map (kv.c).                   *)
(*                                                                         *)
(* A node holds one entry, or two when it is a broad leaf: the second      *)
(* entry is then stored where the indices of the children would be.  Keys  *)
(* are positive numbers in their order, 0 stands for "no key"; the keys    *)
(* from m.big on are too long to share a node.  A value is a number and    *)
(* a bit that tells whether it is stored in place or referred to; 0 is the *)
(* null reference of an entry that nothing was assigned to yet.            *)
(*                                                                         *)
(* A map is a record: the nodes at, the head free of the list of free      *)
(* nodes, threaded through their joints, and the allocation lg.            *)
(***************************************************************************)
EXTENDS Integers, Arrays

Nil == -1                        \* FildeshKV_NULL_INDEX and FildeshKV_NULL_ID

DefaultKVE ==
    [joint |-> Nil, red |-> FALSE, kid |-> [s \in 0 .. 1 |-> Nil],
     k |-> 0, v |-> 0, refers |-> FALSE, sk |-> 0, sv |-> 0, srefers |-> FALSE]

EmptyMap(big) == [at |-> <<>>, free |-> 0, lg |-> 0, big |-> big]

Broad(e) == e.sk # 0             \* splitkexists_FildeshKVE

(***************************************************************************)
(* Filling, splitting and joining the two halves of a node.                *)
(***************************************************************************)
PopulateEmpty(e, k) == [e EXCEPT !.k = k, !.v = 0, !.refers = TRUE, !.sk = 0]

Fits(m, e, k) == e.k < m.big /\ k < m.big

PopulateSplit(e, k) == [e EXCEPT !.sk = k, !.sv = 0, !.srefers = TRUE]

CopyKv(dst, src) == [dst EXCEPT !.k = src.k, !.v = src.v, !.refers = src.refers]

EraseSplit(e) == [e EXCEPT !.sk = 0, !.kid = DefaultKVE.kid]

\* Mutant of Promote: the first entry's way of referring is kept.
PromoteReferring(e) == EraseSplit([e EXCEPT !.k = e.sk, !.v = e.sv])
Promote(e) ==
    EraseSplit([e EXCEPT !.k = e.sk, !.v = e.sv, !.refers = e.srefers])

\* src joins dst on the given side: on side 0 dst's entry moves to the right.
Fuse(dst, side, src) ==
    LET left  == IF side = 0 THEN src ELSE dst
        right == IF side = 0 THEN dst ELSE src
    IN  [CopyKv(dst, left) EXCEPT !.sk = right.k, !.sv = right.v, !.srefers = right.refers]

\* Where key k lies with respect to node g: below, at, between, at the second
\* entry, or above.
CmpKVE(k, g) ==
    IF k < g.k THEN -1
      ELSE IF k = g.k THEN 0
      ELSE IF Broad(g) /\ k = g.sk THEN 2
      ELSE IF Broad(g) /\ k > g.sk THEN 3
      ELSE 1

(***************************************************************************)
(* Entries are named by ids: twice the index, plus one for the second.     *)
(***************************************************************************)
KeyAt(m, id) ==
    LET e == m.at[id \div 2] IN IF id % 2 = 0 THEN e.k ELSE e.sk

ValueAt(m, id) ==
    LET e == m.at[id \div 2]
    IN  IF id % 2 = 0 THEN <<e.refers, e.v>> ELSE <<e.srefers, e.sv>>

AssignAt(m, id, refers, v) ==
    LET i == id \div 2
    IN  IF id % 2 = 0
        THEN [m EXCEPT !.at[i].refers = refers, !.at[i].v = v]
        ELSE [m EXCEPT !.at[i].srefers = refers, !.at[i].sv = v]

(***************************************************************************)
(* The free list.                                                          *)
(***************************************************************************)
MaybeGrow(m) ==
    LET count == SizeOfLgcount(m.lg)
        lg    == Grow([count |-> count, lg |-> m.lg], 1).lg
    IN  IF m.free < count THEN m
        ELSE [m EXCEPT !.lg = lg,
                       !.at = [i \in 0 .. SizeOfLgcount(lg) - 1 |->
                                  IF i < count THEN m.at[i]
                                  ELSE [DefaultKVE EXCEPT !.joint = i + 1]]]

\* Take a node off the free list; x is its index.
TakeFree(m) ==
    [x |-> m.free,
     m |-> [m EXCEPT !.free = m.at[m.free].joint, !.at[m.free] = DefaultKVE]]
EmptyAdd(m) == TakeFree(MaybeGrow(m))

\* Mutant of Reclaim: the list of free nodes is not continued.
ReclaimLast(m, di) == [m EXCEPT !.at[di] = DefaultKVE, !.free = di]
Reclaim(m, di) ==
    [m EXCEPT !.at[di] = [DefaultKVE EXCEPT !.joint = m.free], !.free = di]
=============================================================================
