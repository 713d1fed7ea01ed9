------------------------------ MODULE ListSeq ------------------------------
(***************************************************************************)
(* What include/list.h promises its callers: each list in use is a         *)
(* sequence of distinct items, no item is in two lists, and an operation   *)
(* inserts one item at a place or removes one, leaving the order of the    *)
(* others alone.  DListRefine shows that the pointer structure of DList    *)
(* implements this specification.                                          *)
(***************************************************************************)
EXTENDS Sequences, SequencesExt, Integers

CONSTANTS Heads, Items, NULL

VARIABLE list    \* list[h] is NULL until h is initialised, then a sequence

InUse == {h \in Heads : list[h] # NULL}
Linked == UNION {ToSet(list[h]) : h \in InUse}

Init == list = [h \in Heads |-> NULL]

Open(h) ==
    /\ h \notin InUse
    /\ list' = [list EXCEPT ![h] = <<>>]

\* list_add_head, list_add_tail and list_add_after/_before of a linked item:
\* any of the Len + 1 places.
Insert(h, i, k) ==
    /\ h \in InUse
    /\ i \notin Linked
    /\ list' = [list EXCEPT ![h] = InsertAt(@, k, i)]

Take(h, k) ==
    /\ h \in InUse
    /\ list' = [list EXCEPT ![h] = RemoveAt(@, k)]

Next ==
    \/ \E h \in Heads : Open(h)
    \/ \E h \in InUse, i \in Items : \E k \in 1..(Len(list[h]) + 1) : Insert(h, i, k)
    \/ \E h \in InUse : \E k \in 1..Len(list[h]) : Take(h, k)

Spec == Init /\ [][Next]_list
=============================================================================
