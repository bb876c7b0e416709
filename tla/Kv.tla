--------------------------------- MODULE Kv ---------------------------------
(***************************************************************************)
(* A key-value map of fildesh under any sequence of the operations its     *)
(* users call (fildesh.h): ensure a key and assign its value, look a key   *)
(* up and remove it.  kind is the map's table of functions: the list, the  *)
(* search tree, the red-black tree (the default) or the broad-leaf tree.   *)
(***************************************************************************)
EXTENDS KvBroad, KvList, Sequences
CONSTANT KvStarts                \* the situations a behaviour starts from
VARIABLES kind, map,
          dict,                  \* history: what the user stored, by key
          user                   \* what the user may still do
kvVars == <<kind, map, dict, user>>

\* A start: a kind, how many keys are used with it, from which on (some value
\* of bigs) they are too long to share a node, the keys stored first, in that
\* order, and how many operations follow (-1: no bound).
ASSUME KvStartsAssumption ==
    \A s \in KvStarts :
        /\ s.kind \in {"list", "bstree", "rbtree", "brbtree"}
        /\ s.keys \in Nat \ {0} /\ s.bigs \subseteq Nat \ {0} /\ s.moves \in Nat \cup {-1}
        /\ \A i \in DOMAIN s.first : s.first[i] \in 1 .. s.keys

\* A value and whether it is referred to or stored in place.  Key 1 can be
\* assigned both ways, so that assigning it again changes something.
KvValues(k) == (IF k = 1 THEN BOOLEAN ELSE {k % 2 = 0}) \X {k}

First(d, m) == IF d = "list" THEN ListFirst(m) ELSE TreeFirst(m)
NextAt(d, m, id) == IF d = "list" THEN ListNext(m, id) ELSE TreeNext(m, id)
Lookup(d, m, k) == IF d = "list" THEN ListLookup(m, k) ELSE TreeLookup(m, k)
Ensure(d, m, k) ==
    CASE d = "list"    -> ListEnsure(m, k)
      [] d = "bstree"  -> BstEnsure(m, k)
      [] d = "rbtree"  -> RbEnsure(m, k)
      [] d = "brbtree" -> BroadEnsure(m, k)
RemoveIn(d, m, id) ==
    CASE d = "list"    -> ListRemove(m, id)
      [] d = "bstree"  -> BstRemove(m, id)
      [] d = "rbtree"  -> RbRemove(m, id)

AssignFound(r, value) == AssignAt(r.m, r.id, value[1], value[2])
\* ensure_FildeshKV(), then an assignment through the id it returned.
SetIn(d, m, k, value) ==
    AssignFound(Ensure(d, m, k), value)

KvIdle == kind = "none" /\ map = EmptyMap(1) /\ dict = <<>> /\ user = [keys |-> 0, first |-> <<>>, moves |-> 0]

KvInit ==
    \E s \in KvStarts :
        \E big \in s.bigs :
            /\ kind = s.kind
            /\ map = EmptyMap(big)
            /\ dict = [k \in {} |-> <<FALSE, 0>>]
            /\ user = [keys |-> s.keys, first |-> s.first, moves |-> s.moves]

KvSet(k, value) ==
    /\ map' = SetIn(kind, map, k, value)
    /\ dict' = [j \in DOMAIN dict \cup {k} |-> IF j = k THEN value ELSE dict[j]]

\* lookup_FildeshKV(), then a removal through the id it returned.
KvRemove(k) ==
    /\ kind # "brbtree"          \* remove_FildeshKV_BRBTREE is not implemented
    /\ Lookup(kind, map, k) # Nil
    /\ map' = RemoveIn(kind, map, Lookup(kind, map, k))
    /\ dict' = [j \in DOMAIN dict \ {k} |-> dict[j]]

KvNext ==
    /\ UNCHANGED kind
    /\ \/ /\ user.first # <<>>
          /\ user' = [user EXCEPT !.first = Tail(@)]
          /\ KvSet(Head(user.first), <<Head(user.first) % 2 = 0, Head(user.first)>>)
       \/ /\ user.first = <<>> /\ user.moves # 0
          /\ user' = [user EXCEPT !.moves = IF @ > 0 THEN @ - 1 ELSE @]
          /\ \E k \in 1 .. user.keys : KvRemove(k) \/ \E value \in KvValues(k) : KvSet(k, value)

(***************************************************************************)
(* Properties.                                                             *)
(***************************************************************************)
Nodes(m) == DOMAIN m.at

\* The ids in the order a loop over first and next meets them, cut short if
\* the loop does not end.
RECURSIVE IdsFrom(_, _, _)
IdsFrom(m, id, bound) ==
    IF id = Nil \/ bound = 0 THEN <<>> ELSE <<id>> \o IdsFrom(m, NextAt(kind, m, id), bound - 1)
Ids(m) == IdsFrom(m, First(kind, m), 2 * Cardinality(Nodes(m)) + 1)

Used(m) == {Ids(m)[i] \div 2 : i \in 1 .. Len(Ids(m))}

RECURSIVE FreeFrom(_, _, _)
FreeFrom(m, i, bound) ==
    IF i \notin Nodes(m) \/ bound = 0 THEN <<>> ELSE <<i>> \o FreeFrom(m, m.at[i].joint, bound - 1)
FreeNodes(m) == FreeFrom(m, m.free, Cardinality(Nodes(m)) + 1)

IsSetOf(s, S) == Len(s) = Cardinality(S) /\ {s[i] : i \in 1 .. Len(s)} = S

\* The map is the dictionary its user built: looking a key up finds its entry,
\* with the value last assigned, exactly when the key was stored and not
\* removed since (ensure and remove of the four kinds).
KvHoldsDict ==
    \A k \in 1 .. user.keys :
        LET id == Lookup(kind, map, k)
        IN  IF k \in DOMAIN dict THEN id # Nil /\ ValueAt(map, id) = dict[k] ELSE id = Nil

\* A loop over first and next visits every entry exactly once (first_id and
\* next_id of the list and the trees).
KvVisitsOnce ==
    LET ids == Ids(map)
    IN  IsSetOf([i \in 1 .. Len(ids) |-> KeyAt(map, ids[i])], DOMAIN dict)

\* Removing and adding hand no node out twice and lose none: the free list
\* holds every node outside the structure exactly once, and blank
\* (maybe_grow_FildeshKV_SINGLE_LIST, reclaim_element_FildeshKV_SINGLE_LIST).
\* The broad tree is held to that only if its keys are all short or all long:
\* with both, rsh_d3 (brbtree.c:374) loses the node its result was in.
KvNodesKept ==
    LET free == FreeNodes(map)
        held == {free[i] : i \in 1 .. Len(free)}
    IN  /\ Cardinality(held) = Len(free) /\ held \cap Used(map) = {}
        /\ \A i \in held : [map.at[i] EXCEPT !.joint = Nil] = DefaultKVE
        /\ map.free \in 0 .. Cardinality(Nodes(map))
        /\ (kind = "brbtree" => map.big \notin 2 .. user.keys) => held = Nodes(map) \ Used(map)

RECURSIVE BlackDepth(_, _)
BlackDepth(m, x) ==
    IF x = Nil THEN 0 ELSE (IF IsRed(m, x) THEN 0 ELSE 1) + BlackDepth(m, Joint(m, x))

\* The root is black, no red node has a red joint, and every leaf has as many
\* black nodes above it as any other (the broad tree of four is exempt).
Balanced ==
    LET used   == Used(map)
        leaves == {x \in used : IsLeaf(map, x)}
    IN  kind \in {"rbtree", "brbtree"} /\ (kind = "brbtree" => Cardinality(DOMAIN dict) # 4) =>
          /\ \A x \in used : IsRed(map, x) => ~IsRoot(map, x) /\ ~IsRed(map, Joint(map, x))
          /\ Cardinality({BlackDepth(map, x) : x \in leaves}) <= 1

\* Short keys save a quarter of the nodes, and only they share one.
Compact ==
    LET n    == Cardinality(DOMAIN dict)
        used == Cardinality(Used(map))
    IN  /\ kind = "brbtree" /\ n > 1 /\ (\A k \in DOMAIN dict : k < map.big) =>
             4 * used < 3 * n \/ (n = 4 /\ 4 * used = 3 * n)
        /\ \A x \in Nodes(map) : Broad(map.at[x]) =>
             map.at[x].k < map.big /\ map.at[x].sk < map.big

\* The red-black trees stay red-black through every rotation and colouring,
\* and the broad one keeps its promise of size: what rbtree_validation.c and
\* brbtree_validation.c assert.
KvShaped == Balanced /\ Compact
=============================================================================
