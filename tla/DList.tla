------------------------------- MODULE DList -------------------------------
(***************************************************************************)
(* The intrusive circular list of include/list.h, at the level of its two  *)
(* pointers.  A node is either the head of a list or the node embedded in  *)
(* an item; both are `struct list_node', and list.h does not tell them     *)
(* apart, so neither do the link operators below.                          *)
(*                                                                         *)
(* `ring' is a history variable: the head whose ring a node is linked in.  *)
(* The code does not keep it; the callers' discipline (link only a         *)
(* detached node, unlink only an item, operate only on a linked list) and  *)
(* the invariants are stated with it.                                      *)
(***************************************************************************)
CONSTANTS Heads,      \* list heads embedded in cells, slabs, sections
          Items,      \* nodes embedded in item descriptors
          NULL,       \* the null pointer
          HeadInit    \* how heads are made: see Init

ASSUME NodesAssumption ==
    /\ Heads \cap Items = {}
    /\ NULL \notin Heads \cup Items

ASSUME HeadInitAssumption ==
    HeadInit \in {"list_initialize", "init_list_node"}

Node == Heads \cup Items
Pointer == Node \cup {NULL}

VARIABLES next, prev,   \* the two fields of every struct list_node
          ring,         \* history: the head of the ring a node is linked in
          fault         \* a null pointer has been dereferenced

vars == <<next, prev, ring, fault>>

TypeOK ==
    /\ next \in [Node -> Pointer]
    /\ prev \in [Node -> Pointer]
    /\ ring \in [Node -> Heads \cup {NULL}]
    /\ fault \in BOOLEAN

(***************************************************************************)
(* Observers.                                                              *)
(***************************************************************************)
list_in_list(n) == ~(prev[n] = NULL /\ next[n] = NULL)
list_is_empty(h) == next[h] = h
list_peek_head(h) == IF next[h] # h THEN next[h] ELSE NULL
list_peek_tail(h) == IF prev[h] # h THEN prev[h] ELSE NULL
list_next(h, i) == IF next[i] # h THEN next[i] ELSE NULL
list_prev(h, i) == IF prev[i] # h THEN prev[i] ELSE NULL
list_is_head(h, i) == next[h] = i

\* Mutant: the test of list_is_head.
list_is_tail_Head(h, i) == next[h] = i

list_is_tail(h, i) == prev[h] = i
list_peek_next_no_check(h, i) == IF i = prev[h] THEN NULL ELSE next[i]
list_peek_prev_no_check(h, i) == IF i = next[h] THEN NULL ELSE prev[i]
list_peek_next(h, i) == IF i # NULL THEN list_peek_next_no_check(h, i) ELSE NULL
list_peek_prev(h, i) == IF i # NULL THEN list_peek_prev_no_check(h, i) ELSE NULL

\* The wrapping successor skips the head: after the last item comes the first.
list_next_wrap(h, i) ==
    IF next[i] # h THEN next[i]
    ELSE IF next[next[i]] # h THEN next[next[i]] ELSE NULL
list_prev_wrap(h, i) ==
    IF prev[i] # h THEN prev[i]
    ELSE IF prev[prev[i]] # h THEN prev[prev[i]] ELSE NULL

(***************************************************************************)
(* A freshly allocated node is cleared by init_list_node.  The library     *)
(* never calls list_initialize on a head, only init_list_node:             *)
(* HeadInit = "init_list_node" is that program; "list_initialize" is the   *)
(* program in which every head is given to list_initialize before its      *)
(* first use, the discipline list.h is written for.                        *)
(***************************************************************************)
init_list_node == NULL

Init ==
    /\ next = [n \in Node |-> init_list_node]
    /\ prev = [n \in Node |-> init_list_node]
    /\ ring = [n \in Node |-> NULL]
    /\ fault = FALSE

\* Mutant: the list is not led to its new node.
LinkAfter_OneSided(list, item) ==
    /\ next' = [next EXCEPT ![item] = next[list]]
    /\ prev' = [prev EXCEPT ![item] = list, ![next[list]] = item]

\* What the assignments of a link operator do to the fields.  `item' gets its
\* own links first, as in the code, so that a self link is read back changed.
LinkAfter(list, item) ==
    /\ next' = [next EXCEPT ![item] = next[list], ![list] = item]
    /\ prev' = [prev EXCEPT ![item] = list, ![next[list]] = item]

\* Mutant: the old last node keeps its successor.
LinkBefore_SkipsLast(list, item) ==
    /\ prev' = [prev EXCEPT ![item] = prev[list], ![list] = item]
    /\ next' = [next EXCEPT ![item] = list]

LinkBefore(list, item) ==
    /\ prev' = [prev EXCEPT ![item] = prev[list], ![list] = item]
    /\ next' = [next EXCEPT ![item] = list, ![prev[list]] = item]

\* Mutant: the node before keeps its successor.
Unlink_Dangling(item) ==
    /\ prev' = [prev EXCEPT ![next[item]] = prev[item], ![item] = NULL]
    /\ next' = [next EXCEPT ![item] = NULL]

Unlink(item) ==
    /\ prev' = [prev EXCEPT ![next[item]] = prev[item], ![item] = NULL]
    /\ next' = [next EXCEPT ![prev[item]] = next[item], ![item] = NULL]

NullDeref == fault' = TRUE /\ UNCHANGED <<next, prev, ring>>

\* Mutant: the head is cleared, as init_list_node clears it.
list_initialize_Cleared(h) ==
    /\ ~fault
    /\ HeadInit = "list_initialize"
    /\ ring[h] = NULL
    /\ next' = [next EXCEPT ![h] = NULL]
    /\ prev' = [prev EXCEPT ![h] = NULL]
    /\ ring' = [ring EXCEPT ![h] = h]
    /\ UNCHANGED fault

\* list_initialize of a head that is not in use.
list_initialize(h) ==
    /\ ~fault
    /\ HeadInit = "list_initialize"
    /\ ring[h] = NULL
    /\ next' = [next EXCEPT ![h] = h]
    /\ prev' = [prev EXCEPT ![h] = h]
    /\ ring' = [ring EXCEPT ![h] = h]
    /\ UNCHANGED fault

\* A caller links detached items only, at a node of a list that is in use:
\* its head, or (list_add_after, list_add_before) an item linked in it.
\* Of a program that never initialises a head, every head is in use.
CanLink(list, item) ==
    /\ ~fault
    /\ ring[item] = NULL
    /\ ring[list] # NULL \/ (list \in Heads /\ HeadInit = "init_list_node")

list_add_head(list, item) ==
    /\ CanLink(list, item)
    /\ IF next[list] = NULL
       THEN NullDeref
       ELSE /\ LinkAfter(list, item)
            /\ ring' = [ring EXCEPT ![item] = ring[list]]
            /\ UNCHANGED fault

list_add_tail(list, item) ==
    /\ CanLink(list, item)
    /\ IF prev[list] = NULL
       THEN NullDeref
       ELSE /\ LinkBefore(list, item)
            /\ ring' = [ring EXCEPT ![item] = ring[list]]
            /\ UNCHANGED fault

\* list_delete and list_del differ only in the order of the two writes.
list_delete(item) ==
    /\ ~fault
    /\ ring[item] # NULL
    /\ IF next[item] = NULL \/ prev[item] = NULL
       THEN NullDeref
       ELSE /\ Unlink(item)
            /\ ring' = [ring EXCEPT ![item] = NULL]
            /\ UNCHANGED fault

\* list_remove_head and list_remove_tail do nothing to an empty list; the
\* list must be in use.  The removed node is list_peek_head(h).
list_remove_head(h) ==
    /\ ring[h] # NULL
    /\ ~list_is_empty(h)
    /\ list_delete(next[h])

list_remove_tail(h) ==
    /\ ring[h] # NULL
    /\ prev[h] # h
    /\ list_delete(prev[h])

Next ==
    \/ \E h \in Heads : list_initialize(h)
    \/ \E l \in Node, i \in Items : list_add_head(l, i) \/ list_add_tail(l, i)
    \/ \E i \in Items : list_delete(i)
    \/ \E h \in Heads : list_remove_head(h) \/ list_remove_tail(h)

Spec == Init /\ [][Next]_vars

(***************************************************************************)
(* Properties.                                                             *)
(***************************************************************************)

\* Every node is either linked on both sides or on neither; the two pointers
\* are inverse to each other around a ring; and a node's neighbours are in
\* its own list.  list_delete and list_remove_head/_tail write through both
\* neighbours without looking at them, and list_in_list is the test that
\* free_group_migration (tensor.c:510) trusts before it unlinks a buddy.
LinkedBothWays ==
    \A n \in Node :
        IF ring[n] = NULL
        THEN next[n] = NULL /\ prev[n] = NULL
        ELSE /\ next[n] \in Node /\ prev[n] \in Node
             /\ prev[next[n]] = n
             /\ next[prev[n]] = n
             /\ ring[next[n]] = ring[n]
             /\ ring[prev[n]] = ring[n]

\* A head stays in its own ring for ever.
HeadsHome ==
    \A h \in Heads : ring[h] \in {h, NULL}

\* An item is never linked in the ring of a head that is not in use.
RingInUse ==
    \A n \in Node : ring[n] # NULL => ring[ring[n]] = ring[n]

DListInv == TypeOK /\ LinkedBothWays /\ HeadsHome /\ RingInUse

\* The observers answer for the list as a whole although each looks at one or
\* two pointers: an empty list has no items in its ring, the peeks return items
\* of that ring, and the last item is the one whose successor is the head.
ObserversAgree ==
    \A h \in Heads : ring[h] # NULL =>
        /\ list_is_empty(h) <=> (list_peek_tail(h) = NULL)
        /\ list_is_empty(h) <=> (\A i \in Items : ring[i] # h)
        /\ ~list_is_empty(h) => /\ list_peek_head(h) \in Items
                                /\ list_peek_tail(h) \in Items
        /\ \A i \in Items : ring[i] = h =>
              /\ list_is_tail(h, i) <=> (list_next(h, i) = NULL)
              /\ list_is_head(h, i) <=> (list_prev(h, i) = NULL)
              /\ list_peek_next(h, i) = list_next(h, i)
              /\ list_peek_prev(h, i) = list_prev(h, i)
              /\ list_next_wrap(h, i) \in Items
              /\ list_prev_wrap(h, list_next_wrap(h, i)) = i

\* No operator dereferences a null pointer.
NoNullDeref == ~fault

=============================================================================
