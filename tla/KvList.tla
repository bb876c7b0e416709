------------------------------- MODULE KvList -------------------------------
(***************************************************************************)
(* The singly linked list map of src/src/lib/kv/single_list.c.  Node 0 is  *)
(* always the first; joints link each node to the next.                    *)
(***************************************************************************)
EXTENDS Kve

ListFirst(m) == IF m.free = 0 THEN Nil ELSE 0

ListNext(m, id) ==
    LET e == m.at[id \div 2]
    IN  IF id % 2 = 0 /\ Broad(e) THEN id + 1
        ELSE IF e.joint = Nil THEN Nil ELSE 2 * e.joint

RECURSIVE ListScan(_, _, _)
ListScan(m, k, i) ==
    IF i = Nil THEN Nil
      ELSE IF m.at[i].k = k THEN 2 * i
      ELSE IF m.at[i].sk = k THEN 2 * i + 1
      ELSE ListScan(m, k, m.at[i].joint)

ListLookup(m, k) == ListScan(m, k, ListFirst(m))

\* A new entry shares the first node if it can.  Otherwise a new first node
\* takes index 0 and the previous one moves to the node that was free.
ListAdd(m, k) ==
    IF m.free > 0 /\ ~Broad(m.at[0]) /\ Fits(m, m.at[0], k)
    THEN [id |-> 1, m |-> [m EXCEPT !.at[0] = PopulateSplit(@, k)]]
    ELSE LET g == MaybeGrow(m)
             i == g.free
             e == [DefaultKVE EXCEPT !.joint = IF i = 0 THEN Nil ELSE i]
         IN  [id |-> 0,
              m  |-> [g EXCEPT !.free = g.at[i].joint,
                               !.at = [@ EXCEPT ![i] = g.at[0], ![0] = PopulateEmpty(e, k)]]]

ListEnsure(m, k) ==
    LET id == ListLookup(m, k) IN IF id # Nil THEN [id |-> id, m |-> m] ELSE ListAdd(m, k)

\* Removing an entry never needs the node before it, which a singly linked
\* list cannot find: the next node moves into its place, or, at the end of
\* the list, the second node does.
ListRemove(m, id) ==
    LET ei   == id \div 2
        e    == m.at[ei]
        di   == e.joint
        i    == m.at[0].joint
        j    == m.at[i].joint
        last(x) == [m EXCEPT !.at[x].joint = Nil]
    IN  IF id % 2 = 1 THEN [m EXCEPT !.at[ei] = EraseSplit(e)]
          ELSE IF Broad(e) THEN [m EXCEPT !.at[ei] = Promote(e)]
          ELSE IF di # Nil THEN Reclaim([m EXCEPT !.at[ei] = m.at[di]], di)
          ELSE IF ei = 0 THEN Reclaim(m, 0)
          ELSE IF ei = i THEN Reclaim(last(0), ei)
          ELSE IF ei = j THEN Reclaim(last(i), ei)
          ELSE
               Reclaim([m EXCEPT !.at[0].joint = j, !.at[ei] = [m.at[i] EXCEPT !.joint = Nil]], i)
=============================================================================
