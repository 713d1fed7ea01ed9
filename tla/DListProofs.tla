---------------------------- MODULE DListProofs ----------------------------
(***************************************************************************)
(* DListInv is an inductive invariant of DList for every set of heads and  *)
(* items, and what follows from it: the observers answer for the whole     *)
(* list, and no operator dereferences a null pointer once heads are        *)
(* initialised by list_initialize.                                         *)
(* Then the walks: the pointers implement the sequences of ListSeq, and    *)
(* every traversal macro meets the items of its list once each.            *)
(***************************************************************************)
EXTENDS ListTraverse, FiniteSetTheorems, WellFoundedInduction, TLAPS

USE NodesAssumption DEF Node, Pointer

\* A link operator that does not fault keeps every ring closed; stated once
\* for the three shapes of pointer update.
LEMMA LinkAfterInv ==
    ASSUME DListInv, NEW list \in Node, NEW item \in Items,
           ring[item] = NULL, ring[list] # NULL, UNCHANGED fault,
           LinkAfter(list, item),
           ring' = [ring EXCEPT ![item] = ring[list]]
    PROVE  DListInv'
<1>1. /\ next[list] \in Node /\ next[list] # item /\ list # item
      /\ next[item] = NULL /\ prev[item] = NULL
  BY DEF DListInv, TypeOK, LinkedBothWays
<1>2. TypeOK'
  BY <1>1 DEF DListInv, TypeOK, LinkAfter
<1>3. LinkedBothWays'
  BY <1>1, <1>2 DEF DListInv, TypeOK, LinkedBothWays, LinkAfter
<1>4. HeadsHome' /\ RingInUse'
  BY <1>1, <1>2 DEF DListInv, TypeOK, HeadsHome, RingInUse
<1>5. QED
  BY <1>2, <1>3, <1>4 DEF DListInv

LEMMA LinkBeforeInv ==
    ASSUME DListInv, NEW list \in Node, NEW item \in Items,
           ring[item] = NULL, ring[list] # NULL, UNCHANGED fault,
           LinkBefore(list, item),
           ring' = [ring EXCEPT ![item] = ring[list]]
    PROVE  DListInv'
<1>1. /\ prev[list] \in Node /\ prev[list] # item /\ list # item
      /\ next[item] = NULL /\ prev[item] = NULL
  BY DEF DListInv, TypeOK, LinkedBothWays
<1>2. TypeOK'
  BY <1>1 DEF DListInv, TypeOK, LinkBefore
<1>3. LinkedBothWays'
  BY <1>1, <1>2 DEF DListInv, TypeOK, LinkedBothWays, LinkBefore
<1>4. HeadsHome' /\ RingInUse'
  BY <1>1, <1>2 DEF DListInv, TypeOK, HeadsHome, RingInUse
<1>5. QED
  BY <1>2, <1>3, <1>4 DEF DListInv

LEMMA UnlinkInv ==
    ASSUME DListInv, NEW item \in Items,
           ring[item] # NULL, UNCHANGED fault,
           Unlink(item),
           ring' = [ring EXCEPT ![item] = NULL]
    PROVE  DListInv'
<1>1. next[item] \in Node /\ prev[item] \in Node
  BY DEF DListInv, TypeOK, LinkedBothWays
<1>2. TypeOK'
  BY <1>1 DEF DListInv, TypeOK, Unlink
<1>3. LinkedBothWays'
  BY <1>1, <1>2 DEF DListInv, TypeOK, LinkedBothWays, Unlink
<1>4. HeadsHome' /\ RingInUse'
  BY <1>1, <1>2 DEF DListInv, TypeOK, HeadsHome, RingInUse
<1>5. QED
  BY <1>2, <1>3, <1>4 DEF DListInv

\* The invariant survives a null dereference too: nothing has been written.
LEMMA FaultInv ==
    ASSUME DListInv, NullDeref
    PROVE  DListInv'
  BY DEF DListInv, NullDeref, TypeOK, LinkedBothWays, HeadsHome, RingInUse

LEMMA InitializeInv ==
    ASSUME DListInv, NEW h \in Heads, list_initialize(h)
    PROVE  DListInv'
<1>1. next[h] = NULL /\ prev[h] = NULL /\ h \in Node
  BY DEF DListInv, LinkedBothWays, list_initialize
<1>2. TypeOK'
  BY <1>1 DEF DListInv, TypeOK, list_initialize
<1>3. LinkedBothWays'
  BY <1>1, <1>2 DEF DListInv, TypeOK, LinkedBothWays, list_initialize
<1>4. HeadsHome' /\ RingInUse'
  BY <1>1, <1>2 DEF DListInv, TypeOK, HeadsHome, RingInUse, list_initialize
<1>5. QED
  BY <1>2, <1>3, <1>4 DEF DListInv

\* Unlinking an item does not fault: it is linked on both sides.
LEMMA DeleteInv ==
    ASSUME DListInv, NEW item \in Items, list_delete(item)
    PROVE  DListInv' /\ UNCHANGED fault
<1>1. next[item] \in Node /\ prev[item] \in Node /\ ring[item] # NULL
  BY DEF DListInv, LinkedBothWays, list_delete
<1>2. Unlink(item) /\ ring' = [ring EXCEPT ![item] = NULL] /\ UNCHANGED fault
  BY <1>1 DEF list_delete
<1>3. QED
  BY <1>1, <1>2, UnlinkInv

\* list_remove_head and list_remove_tail of a head in use unlink a node of its
\* ring; this node could only be a head if it were the list's own.
LEMMA RemoveUnlinksItem ==
    ASSUME DListInv, NEW h \in Heads, ring[h] # NULL
    PROVE  /\ ~list_is_empty(h) => next[h] \in Items
           /\ prev[h] # h => prev[h] \in Items
  BY DEF DListInv, TypeOK, LinkedBothWays, HeadsHome, list_is_empty

THEOREM DListInvInductive == DListInv /\ [Next]_vars => DListInv'
<1> SUFFICES ASSUME DListInv, [Next]_vars PROVE DListInv'
  OBVIOUS
<1>1. ASSUME NEW h \in Heads, list_initialize(h) PROVE DListInv'
  BY <1>1, InitializeInv
<1>2. ASSUME NEW l \in Node, NEW i \in Items, list_add_head(l, i) PROVE DListInv'
  <2>1. CASE next[l] = NULL
    BY <1>2, <2>1, FaultInv DEF list_add_head
  <2>2. CASE next[l] # NULL
    <3>1. ring[l] # NULL
      BY <2>2 DEF DListInv, LinkedBothWays
    <3>2. QED
      BY <1>2, <2>2, <3>1, LinkAfterInv DEF list_add_head, CanLink
  <2>3. QED
    BY <2>1, <2>2
<1>3. ASSUME NEW l \in Node, NEW i \in Items, list_add_tail(l, i) PROVE DListInv'
  <2>1. CASE prev[l] = NULL
    BY <1>3, <2>1, FaultInv DEF list_add_tail
  <2>2. CASE prev[l] # NULL
    <3>1. ring[l] # NULL
      BY <2>2 DEF DListInv, LinkedBothWays
    <3>2. QED
      BY <1>3, <2>2, <3>1, LinkBeforeInv DEF list_add_tail, CanLink
  <2>3. QED
    BY <2>1, <2>2
<1>4. ASSUME NEW i \in Items, list_delete(i) PROVE DListInv'
  BY <1>4, DeleteInv
<1>5. ASSUME NEW h \in Heads, list_remove_head(h) PROVE DListInv'
  BY <1>5, RemoveUnlinksItem, DeleteInv DEF list_remove_head
<1>6. ASSUME NEW h \in Heads, list_remove_tail(h) PROVE DListInv'
  BY <1>6, RemoveUnlinksItem, DeleteInv DEF list_remove_tail
<1>7. CASE UNCHANGED vars
  BY <1>7 DEF vars, DListInv, TypeOK, LinkedBothWays, HeadsHome, RingInUse
<1>8. QED
  BY <1>1, <1>2, <1>3, <1>4, <1>5, <1>6, <1>7 DEF Next

\* Whatever sequence of link and unlink operations the callers make within
\* their discipline, every ring stays closed in both directions and no node's
\* neighbour lies in another list (list.h:27-94, 255-260).
THEOREM DListInvariant == Spec => []DListInv
<1>1. Init => DListInv
  BY DEF Init, init_list_node, DListInv, TypeOK, LinkedBothWays, HeadsHome, RingInUse
<1>2. QED
  BY <1>1, DListInvInductive, PTL DEF Spec

\* A program that gives every head to list_initialize never dereferences a
\* null pointer: the converse is what DListBoot.cfg exhibits.
THEOREM InitialisedListsDoNotFault ==
    ASSUME HeadInit = "list_initialize"
    PROVE  Spec => []NoNullDeref
<1>1. Init => NoNullDeref
  BY DEF Init, NoNullDeref
<1>2. ASSUME DListInv, NoNullDeref, [Next]_vars PROVE NoNullDeref'
  <2>1. ASSUME NEW h \in Heads, list_initialize(h) PROVE NoNullDeref'
    BY <1>2, <2>1 DEF list_initialize, NoNullDeref
  <2>2. ASSUME NEW l \in Node, NEW i \in Items,
               list_add_head(l, i) \/ list_add_tail(l, i)
        PROVE  NoNullDeref'
    <3>1. next[l] # NULL /\ prev[l] # NULL
      BY <1>2, <2>2 DEF DListInv, LinkedBothWays, list_add_head, list_add_tail, CanLink
    <3>2. QED
      BY <1>2, <2>2, <3>1 DEF list_add_head, list_add_tail, NoNullDeref
  <2>3. ASSUME NEW i \in Items, list_delete(i) PROVE NoNullDeref'
    BY <1>2, <2>3, DeleteInv DEF NoNullDeref
  <2>4. ASSUME NEW h \in Heads, list_remove_head(h) \/ list_remove_tail(h)
        PROVE  NoNullDeref'
    <3>1. CASE list_remove_head(h)
      BY <1>2, <3>1, RemoveUnlinksItem, DeleteInv DEF NoNullDeref, list_remove_head
    <3>2. CASE list_remove_tail(h)
      BY <1>2, <3>2, RemoveUnlinksItem, DeleteInv DEF NoNullDeref, list_remove_tail
    <3>3. QED
      BY <2>4, <3>1, <3>2
  <2>5. CASE UNCHANGED vars
    BY <1>2, <2>5 DEF vars, NoNullDeref
  <2>6. QED
    BY <1>2, <2>1, <2>2, <2>3, <2>4, <2>5 DEF Next
<1>3. QED
  BY <1>1, <1>2, DListInvariant, PTL DEF Spec

(***************************************************************************)
(* A ring has its head in it.  DListInv alone would allow a second ring    *)
(* beside it, of items that are said to be in the list and that no walk    *)
(* from the head ever meets.                                               *)
(***************************************************************************)

\* Linked nodes that lead to each other: what a walk along `next' stays in.
Closed(S) == S # {} /\ \A n \in S : ring[n] # NULL /\ next[n] \in S

HeadInRing == \A S \in SUBSET Node : Closed(S) => \E h \in Heads : h \in S

LEMMA LinkKeepsHead ==
    ASSUME DListInv, HeadInRing, NEW list \in Node, NEW item \in Items,
           ring[item] = NULL, ring[list] # NULL,
           LinkAfter(list, item) \/ LinkBefore(list, item),
           ring' = [ring EXCEPT ![item] = ring[list]]
    PROVE  HeadInRing'
<1> SUFFICES ASSUME NEW S \in SUBSET Node, Closed(S)'
             PROVE  \E h \in Heads : h \in S
  BY DEF HeadInRing
<1> DEFINE T == S \ {item}
           last == IF LinkAfter(list, item) THEN list ELSE prev[list]
<1>1. /\ item \in Node /\ last \in Node /\ last # item /\ ring[last] # NULL
      /\ next[last] # item
      /\ next' = [next EXCEPT ![item] = next[last], ![last] = item]
  <2>1. CASE LinkAfter(list, item)
    BY <2>1 DEF LinkAfter, DListInv, TypeOK, LinkedBothWays
  <2>2. CASE ~LinkAfter(list, item)
    BY <2>2 DEF LinkBefore, DListInv, TypeOK, LinkedBothWays
  <2>3. QED
    BY <2>1, <2>2
<1>2. next'[item] = next[last] /\ next'[last] = item
  BY <1>1 DEF DListInv, TypeOK
<1>3. ASSUME NEW n \in T PROVE ring[n] # NULL /\ next[n] \in T
  <2>1. n \in Node /\ n # item /\ ring'[n] = ring[n] /\ ring'[n] # NULL /\ next'[n] \in S
    BY DEF Closed, DListInv, TypeOK
  <2>2. next[n] # item
    BY <2>1 DEF DListInv, LinkedBothWays
  <2>3. CASE n = last
    BY <1>1, <1>2, <2>1, <2>2, <2>3 DEF Closed
  <2>4. CASE n # last
    <3>1. next'[n] = next[n]
      BY <1>1, <2>1, <2>4 DEF DListInv, TypeOK
    <3>2. QED
      BY <2>1, <2>2, <3>1
  <2>5. QED
    BY <2>3, <2>4
<1>4. T # {}
  <2>1. CASE item \in S
    BY <1>1, <1>2, <2>1 DEF Closed
  <2>2. CASE item \notin S
    BY <2>2 DEF Closed
  <2>3. QED
    BY <2>1, <2>2
<1>5. QED
  BY <1>3, <1>4 DEF HeadInRing, Closed

LEMMA UnlinkKeepsHead ==
    ASSUME DListInv, HeadInRing, NEW item \in Items, ring[item] # NULL,
           Unlink(item), ring' = [ring EXCEPT ![item] = NULL]
    PROVE  HeadInRing'
<1> SUFFICES ASSUME NEW S \in SUBSET Node, Closed(S)'
             PROVE  \E h \in Heads : h \in S
  BY DEF HeadInRing
<1> DEFINE T == IF prev[item] \in S THEN S \cup {item} ELSE S
<1>1. /\ item \in Node /\ item \notin Heads
      /\ prev[item] \in Node /\ next[prev[item]] = item
      /\ next' = [next EXCEPT ![prev[item]] = next[item], ![item] = NULL]
  BY DEF Unlink, DListInv, LinkedBothWays
<1>2. item \notin S
  BY <1>1 DEF Closed, DListInv, TypeOK
<1>3. ASSUME NEW n \in S PROVE ring[n] # NULL /\ next[n] \in T
  <2>1. n \in Node /\ n # item /\ ring[n] # NULL /\ next'[n] \in S
    BY <1>2 DEF Closed, DListInv, TypeOK
  <2>2. CASE n = prev[item]
    BY <1>1, <2>1, <2>2
  <2>3. CASE n # prev[item]
    <3>1. next'[n] = next[n]
      BY <1>1, <2>1, <2>3 DEF DListInv, TypeOK
    <3>2. QED
      BY <2>1, <3>1
  <2>4. QED
    BY <2>2, <2>3
<1>4. prev[item] \in S => next[item] \in S
  <2>1. ASSUME prev[item] \in S PROVE next'[prev[item]] = next[item]
    BY <1>1, <1>2, <2>1 DEF DListInv, TypeOK
  <2>2. QED
    BY <2>1 DEF Closed
<1>5. T \in SUBSET Node /\ Closed(T)
  BY <1>1, <1>3, <1>4 DEF Closed
<1>6. PICK h \in Heads : h \in T
  BY <1>5 DEF HeadInRing
<1>7. QED
  BY <1>1, <1>6

LEMMA InitializeKeepsHead ==
    ASSUME DListInv, HeadInRing, NEW h \in Heads, list_initialize(h)
    PROVE  HeadInRing'
<1> SUFFICES ASSUME NEW S \in SUBSET Node, Closed(S)', h \notin S
             PROVE  \E g \in Heads : g \in S
  BY DEF HeadInRing
<1>1. \A n \in S : n \in Node /\ next'[n] = next[n] /\ ring'[n] = ring[n]
  BY DEF list_initialize, DListInv, TypeOK
<1>2. Closed(S)
  BY <1>1 DEF Closed
<1>3. QED
  BY <1>2 DEF HeadInRing

LEMMA HeadInRingInductive == DListInv /\ HeadInRing /\ [Next]_vars => HeadInRing'
<1> SUFFICES ASSUME DListInv, HeadInRing, [Next]_vars PROVE HeadInRing'
  OBVIOUS
<1>1. ASSUME UNCHANGED <<next, ring>> PROVE HeadInRing'
  BY <1>1 DEF HeadInRing, Closed
<1>2. ASSUME NEW l \in Node, NEW i \in Items, list_add_head(l, i) PROVE HeadInRing'
  <2>1. CASE next[l] = NULL
    BY <1>1, <1>2, <2>1 DEF list_add_head, NullDeref
  <2>2. CASE next[l] # NULL
    <3>1. ring[l] # NULL
      BY <2>2 DEF DListInv, LinkedBothWays
    <3>2. QED
      BY <1>2, <2>2, <3>1, LinkKeepsHead DEF list_add_head, CanLink
  <2>3. QED
    BY <2>1, <2>2
<1>3. ASSUME NEW l \in Node, NEW i \in Items, list_add_tail(l, i) PROVE HeadInRing'
  <2>1. CASE prev[l] = NULL
    BY <1>1, <1>3, <2>1 DEF list_add_tail, NullDeref
  <2>2. CASE prev[l] # NULL
    <3>1. ring[l] # NULL
      BY <2>2 DEF DListInv, LinkedBothWays
    <3>2. QED
      BY <1>3, <2>2, <3>1, LinkKeepsHead DEF list_add_tail, CanLink
  <2>3. QED
    BY <2>1, <2>2
<1>4. ASSUME NEW i \in Items, list_delete(i) PROVE HeadInRing'
  <2>1. next[i] \in Node /\ prev[i] \in Node /\ ring[i] # NULL
    BY <1>4 DEF DListInv, LinkedBothWays, list_delete
  <2>2. Unlink(i) /\ ring' = [ring EXCEPT ![i] = NULL]
    BY <1>4, <2>1 DEF list_delete
  <2>3. QED
    BY <2>1, <2>2, UnlinkKeepsHead
<1>5. ASSUME NEW h \in Heads, list_initialize(h) PROVE HeadInRing'
  BY <1>5, InitializeKeepsHead
<1>6. ASSUME NEW h \in Heads, list_remove_head(h) PROVE HeadInRing'
  BY <1>4, <1>6, RemoveUnlinksItem DEF list_remove_head
<1>7. ASSUME NEW h \in Heads, list_remove_tail(h) PROVE HeadInRing'
  BY <1>4, <1>7, RemoveUnlinksItem DEF list_remove_tail
<1>8. CASE UNCHANGED vars
  BY <1>1, <1>8 DEF vars
<1>9. QED
  BY <1>2, <1>3, <1>4, <1>5, <1>6, <1>7, <1>8 DEF Next

\* An item of a list is not beside its ring, so the list is not empty.
LEMMA ItemsMakeRing ==
    ASSUME DListInv, HeadInRing, NEW h \in Heads, ring[h] # NULL,
           NEW i \in Items, ring[i] = h
    PROVE  next[h] # h /\ prev[h] # h
<1> DEFINE S == {n \in Node : ring[n] = h /\ n # h}
<1>1. ring[h] = h /\ h \in Node /\ next[h] \in Node /\ prev[h] \in Node
      /\ prev[next[h]] = h /\ next[prev[h]] = h
  BY DEF DListInv, LinkedBothWays, HeadsHome
<1>2. \A n \in S : n \notin Heads
  BY DEF DListInv, HeadsHome
<1>3. ASSUME prev[h] = h PROVE Closed(S)
  <2>1. ASSUME NEW n \in S PROVE ring[n] # NULL /\ next[n] \in S
    <3>1. /\ n \in Node /\ ring[n] = h /\ n # h /\ ring[n] # NULL
          /\ next[n] \in Node /\ prev[next[n]] = n /\ ring[next[n]] = h
      BY DEF DListInv, LinkedBothWays
    <3>2. next[n] # h
      BY <1>3, <3>1
    <3>3. QED
      BY <3>1, <3>2
  <2>2. i \in S
    OBVIOUS
  <2>3. QED
    BY <2>1, <2>2 DEF Closed
<1>4. prev[h] # h
  BY <1>2, <1>3 DEF HeadInRing
<1>5. QED
  BY <1>1, <1>4

\* What an item's two links say of its place in the list.
LEMMA ItemsPlace ==
    ASSUME DListInv, HeadInRing, NEW h \in Heads, ring[h] # NULL,
           NEW i \in Items, ring[i] = h
    PROVE  /\ list_is_tail(h, i) <=> (list_next(h, i) = NULL)
           /\ list_is_head(h, i) <=> (list_prev(h, i) = NULL)
           /\ list_peek_next(h, i) = list_next(h, i)
           /\ list_peek_prev(h, i) = list_prev(h, i)
           /\ list_next_wrap(h, i) \in Items
           /\ list_prev_wrap(h, list_next_wrap(h, i)) = i
<1>1. /\ i \in Node /\ h \in Node /\ i # h /\ i # NULL /\ h # NULL /\ ring[h] = h
      /\ next[i] \in Node /\ prev[i] \in Node /\ next[h] \in Node /\ prev[h] \in Node
      /\ prev[next[i]] = i /\ next[prev[i]] = i /\ prev[next[h]] = h /\ next[prev[h]] = h
      /\ ring[next[i]] = h /\ ring[next[h]] = h
  BY DEF DListInv, LinkedBothWays, HeadsHome
<1>2. next[h] # h /\ prev[h] # h
  BY ItemsMakeRing
<1>3. \A n \in Node : ring[n] = h /\ n # h => n \in Items
  BY DEF DListInv, HeadsHome
<1>4. (prev[h] = i <=> next[i] = h) /\ (next[h] = i <=> prev[i] = h)
  BY <1>1
<1>5. /\ list_is_tail(h, i) <=> (list_next(h, i) = NULL)
      /\ list_is_head(h, i) <=> (list_prev(h, i) = NULL)
  BY <1>1, <1>4 DEF list_is_tail, list_is_head, list_next, list_prev
<1>6. /\ list_peek_next(h, i) = list_next(h, i)
      /\ list_peek_prev(h, i) = list_prev(h, i)
  BY <1>1, <1>4 DEF list_peek_next, list_peek_prev, list_peek_next_no_check,
                    list_peek_prev_no_check, list_next, list_prev
<1>7. CASE next[i] # h
  <2>1. list_next_wrap(h, i) = next[i] /\ next[i] \in Items
    BY <1>1, <1>3, <1>7 DEF list_next_wrap
  <2>2. list_prev_wrap(h, next[i]) = i
    BY <1>1 DEF list_prev_wrap
  <2>3. QED
    BY <1>5, <1>6, <2>1, <2>2
<1>8. CASE next[i] = h
  <2>1. list_next_wrap(h, i) = next[h] /\ next[h] \in Items
    BY <1>1, <1>2, <1>3, <1>8 DEF list_next_wrap
  <2>2. prev[next[h]] = h /\ prev[h] = i
    BY <1>1, <1>8
  <2>3. list_prev_wrap(h, next[h]) = i
    BY <1>1, <2>2 DEF list_prev_wrap
  <2>4. QED
    BY <1>5, <1>6, <2>1, <2>3
<1>9. QED
  BY <1>7, <1>8

LEMMA RingsAnswer == DListInv /\ HeadInRing => ObserversAgree
<1> SUFFICES ASSUME DListInv, HeadInRing, NEW h \in Heads, ring[h] # NULL
             PROVE  /\ list_is_empty(h) <=> (list_peek_tail(h) = NULL)
                    /\ list_is_empty(h) <=> (\A i \in Items : ring[i] # h)
                    /\ ~list_is_empty(h) => /\ list_peek_head(h) \in Items
                                            /\ list_peek_tail(h) \in Items
  BY ItemsPlace DEF ObserversAgree
<1>1. /\ h \in Node /\ ring[h] = h /\ next[h] \in Node /\ prev[h] \in Node
      /\ prev[next[h]] = h /\ next[prev[h]] = h
      /\ ring[next[h]] = h /\ ring[prev[h]] = h
  BY DEF DListInv, LinkedBothWays, HeadsHome
<1>2. \A n \in Node : ring[n] = h /\ n # h => n \in Items
  BY DEF DListInv, HeadsHome
<1>3. next[h] = h <=> prev[h] = h
  BY <1>1
<1>4. next[h] = h <=> \A i \in Items : ring[i] # h
  BY <1>1, <1>2, ItemsMakeRing
<1>5. QED
  BY <1>1, <1>2, <1>3, <1>4 DEF list_is_empty, list_peek_head, list_peek_tail

\* Every linked item is in a ring with its head, so that the observers of
\* list.h:35-147, which look at one pointer or two, answer for the whole list.
THEOREM ObserversAnswerForList == Spec => []ObserversAgree
<1>1. Init => HeadInRing
  BY DEF Init, HeadInRing, Closed
<1>2. Spec => []HeadInRing
  BY <1>1, HeadInRingInductive, DListInvariant, PTL DEF Spec
<1>3. QED
  BY <1>2, DListInvariant, RingsAnswer, PTL

\* A set of numbers that is not empty has a least one.
LEMMA LeastIn ==
    ASSUME NEW S \in SUBSET Nat, S # {}
    PROVE  \E m \in S : \A n \in S : m <= n
<1> DEFINE R == {ss \in Nat \X Nat : ss[1] < ss[2]}
<1>1. IsWellFoundedOn(R, Nat)
  BY NatLessThanWellFounded DEF OpToRel
<1>2. PICK m \in S : \A n \in S : ~ (<<n, m>> \in R)
  BY <1>1, WFMin
<1>3. \A n \in S : ~ (n < m)
  BY <1>2
<1>4. QED
  BY <1>3

(***************************************************************************)
(* The walk from a head.  What a walk finds is stated without recursion:   *)
(* w is the walk of h when h leads to its first item, each item to the     *)
(* next one and the last back to h.                                        *)
(***************************************************************************)
IsWalk(w, link, h) ==
    /\ w \in Seq(Items) /\ IsInjective(w)
    /\ link[h] = IF w = <<>> THEN h ELSE w[1]
    /\ \A k \in 1..Len(w) : link[w[k]] = IF k < Len(w) THEN w[k + 1] ELSE h

\* A sequence without repetition is as long as the set of its members.
LEMMA WalkLength ==
    ASSUME NEW w \in Seq(Items), IsInjective(w)
    PROVE  /\ IsFiniteSet(ToSet(w)) /\ ToSet(w) \subseteq Items
           /\ Len(w) = Cardinality(ToSet(w))
<1>1. Len(w) \in Nat /\ DOMAIN w = 1..Len(w) /\ \A k \in 1..Len(w) : w[k] \in Items
  OBVIOUS
<1>2. w \in Bijection(1..Len(w), ToSet(w))
  BY <1>1 DEF Bijection, Injection, Surjection, ToSet, IsInjective
<1>3. ExistsBijection(1..Len(w), ToSet(w))
  BY <1>2 DEF ExistsBijection
<1>4. IsFiniteSet(ToSet(w))
  BY <1>1, <1>3, FS_NatBijection
<1>5. Cardinality(ToSet(w)) = Len(w)
  BY <1>1, <1>3, FS_CountingElements
<1>6. QED
  BY <1>1, <1>4, <1>5 DEF ToSet

\* The nodes of a walk and its head are not more than there are nodes.
LEMMA WalkFits ==
    ASSUME NEW w \in Seq(Items), IsInjective(w), NEW h \in Heads
    PROVE  Len(w) \in Nat /\ Cardinality(Node) \in Nat /\ Len(w) + 1 <= Cardinality(Node)
<1>1. IsFiniteSet(Node) /\ Cardinality(Node) \in Nat
  BY ListsAssumption, FS_Union, FS_CardinalityType
<1>2. IsFiniteSet(ToSet(w)) /\ ToSet(w) \subseteq Items /\ Len(w) = Cardinality(ToSet(w))
  BY WalkLength
<1>3. h \notin ToSet(w) /\ ToSet(w) \cup {h} \subseteq Node
  BY <1>2
<1>4. Cardinality(ToSet(w) \cup {h}) = Cardinality(ToSet(w)) + 1
  BY <1>2, <1>3, FS_AddElement
<1>5. Cardinality(ToSet(w) \cup {h}) <= Cardinality(Node)
  BY <1>1, <1>3, FS_Subset
<1>6. QED
  BY <1>1, <1>2, <1>4, <1>5

\* What f gives for the numbers up to n is n steps from h along link.
Leads(f, link, h, n) ==
    /\ f[0] = h
    /\ \A i \in 1..n : f[i] = IF f[i - 1] = NULL THEN NULL ELSE link[f[i - 1]]

LEMMA StepsExist ==
    ASSUME NEW link, NEW h, NEW n \in Nat
    PROVE  \E f : Leads(f, link, h, n)
<1> DEFINE step(b) == IF b = NULL THEN NULL ELSE link[b]
           Steps(f, m) == Leads(f, link, h, m)
           missing == {m \in Nat : ~ \E f : Steps(f, m)}
<1>1. SUFFICES ASSUME missing # {} PROVE FALSE
  OBVIOUS
<1>2. PICK m \in missing : \A m1 \in missing : m <= m1
  BY <1>1, LeastIn
<1>3. m # 0
  <2>1. Steps([i \in {0} |-> h], 0)
    BY DEF Leads
  <2> HIDE DEF Steps
  <2>2. QED
    BY <1>2, <2>1
<1>4. m \in Nat /\ m - 1 \in Nat /\ m - 1 \notin missing
  BY <1>2, <1>3
<1>5. PICK f : f[0] = h /\ \A i \in 1..(m - 1) : f[i] = step(f[i - 1])
  <2>1. PICK f : Steps(f, m - 1)
    BY <1>4
  <2>2. QED
    BY <2>1 DEF Leads
<1> DEFINE f1 == [i \in 0..m |-> IF i = m THEN step(f[m - 1]) ELSE f[i]]
<1> HIDE DEF step
<1>6. f1[0] = h
  BY <1>3, <1>4, <1>5
<1>7. ASSUME NEW i \in 1..m PROVE f1[i] = step(f1[i - 1])
  <2>1. i \in 0..m /\ i - 1 \in 0..m /\ i - 1 # m
    BY <1>4
  <2>2. f1[i - 1] = f[i - 1] /\ f1[i] = IF i = m THEN step(f[m - 1]) ELSE f[i]
    BY <2>1
  <2>3. i # m => i \in 1..(m - 1)
    BY <1>4
  <2> HIDE DEF f1
  <2>4. QED
    BY <1>5, <2>2, <2>3
<1> HIDE DEF f1
<1>8. Steps(f1, m)
  BY <1>6, <1>7 DEF Leads, step
<1> HIDE DEF Steps
<1>9. QED
  BY <1>2, <1>8

\* The recursive function Nth leads through the walk and back to the head.
LEMMA NthOfWalk ==
    ASSUME NEW h \in Heads, NEW link, NEW w, IsWalk(w, link, h),
           NEW k \in 0..(Len(w) + 1)
    PROVE  Nth(link, h)[k] = IF k \in 1..Len(w) THEN w[k] ELSE h
<1> DEFINE n == Cardinality(Node)
           m == Len(w)
           step(b) == IF b = NULL THEN NULL ELSE link[b]
           IsAt(g) == g = [i \in 0..n |-> IF i = 0 THEN h
                                ELSE IF g[i - 1] = NULL THEN NULL ELSE link[g[i - 1]]]
           node(i) == IF i \in 1..m THEN w[i] ELSE h
           g1 == CHOOSE g : IsAt(g)
<1>1. /\ w \in Seq(Items) /\ IsInjective(w) /\ m \in Nat
      /\ \A i \in 1..m : w[i] \in Items
      /\ m = 0 <=> w = <<>>
  BY DEF IsWalk
<1>2. n \in Nat /\ m + 1 <= n
  BY <1>1, WalkFits
<1>3. /\ link[h] = IF m = 0 THEN h ELSE w[1]
      /\ \A i \in 1..m : link[w[i]] = IF i < m THEN w[i + 1] ELSE h
  BY <1>1 DEF IsWalk
<1> HIDE DEF n, m
<1>4. ASSUME NEW i \in 1..(m + 1) PROVE node(i) = step(node(i - 1))
  <2>1. h # NULL /\ \A j \in 1..m : w[j] # NULL
    BY <1>1
  <2>2. CASE i = 1
    BY <1>1, <1>3, <2>1, <2>2
  <2>3. CASE i # 1
    <3>1. i - 1 \in 1..m /\ (i - 1) + 1 = i /\ (i \in 1..m <=> i - 1 < m)
      BY <1>1, <2>3
    <3>2. QED
      BY <1>3, <2>1, <3>1
  <2>4. QED
    BY <2>2, <2>3
<1>5. node(0) = h
  BY <1>1
<1>6. \E g : IsAt(g)
  <2>1. PICK f : f[0] = h /\ \A i \in 1..n : f[i] = step(f[i - 1])
    <3>1. PICK f : Leads(f, link, h, n)
      BY <1>2, StepsExist
    <3>2. QED
      BY <3>1 DEF Leads
  <2> DEFINE g0 == [i \in 0..n |-> f[i]]
             value(i) == IF i = 0 THEN h ELSE step(g0[i - 1])
  <2>2. ASSUME NEW i \in 0..n PROVE g0[i] = value(i)
    <3>1. CASE i = 0
      BY <1>2, <2>1, <3>1
    <3>2. CASE i # 0
      <4>1. i - 1 \in 0..n /\ i \in 1..n
        BY <1>2, <3>2
      <4>2. g0[i] = f[i] /\ g0[i - 1] = f[i - 1]
        BY <4>1
      <4> HIDE DEF g0, step
      <4>3. QED
        BY <2>1, <3>2, <4>1, <4>2
    <3>3. QED
      BY <3>1, <3>2
  <2>3. g0 = [i \in 0..n |-> value(i)]
    BY <2>2
  <2>4. IsAt(g0)
    BY <2>3
  <2> HIDE DEF g0
  <2>5. QED
    BY <2>4
<1>7. IsAt(g1)
  <2> HIDE DEF IsAt
  <2>1. QED
    BY <1>6
<1>8. /\ g1[0] = h
      /\ \A i \in 0..n : i # 0 => g1[i] = step(g1[i - 1])
  <2> HIDE DEF g1
  <2>1. QED
    BY <1>2, <1>7
<1> HIDE DEF g1, node, step
\* The first place at which the two differ would follow one at which they agree.
<1>9. ASSUME NEW i \in 0..(m + 1) PROVE g1[i] = node(i)
  <2> DEFINE differ == {j \in 0..(m + 1) : g1[j] # node(j)}
  <2>1. SUFFICES ASSUME differ # {} PROVE FALSE
    OBVIOUS
  <2>2. differ \subseteq Nat
    OBVIOUS
  <2>3. PICK j \in differ : \A i1 \in differ : j <= i1
    BY <2>1, <2>2, LeastIn
  <2>4. j # 0
    BY <1>5, <1>8, <2>3
  <2>5. j \in 1..(m + 1) /\ j - 1 \in 0..(m + 1) /\ j - 1 \notin differ /\ j \in 0..n
    BY <1>1, <1>2, <2>3, <2>4
  <2>6. g1[j - 1] = node(j - 1)
    BY <2>5
  <2>7. g1[j] = step(g1[j - 1])
    BY <1>8, <2>4, <2>5
  <2>8. node(j) = step(node(j - 1))
    BY <1>4, <2>5
  <2>9. QED
    BY <2>3, <2>6, <2>7, <2>8
<1>10. Nth(link, h) = g1
  BY DEF Nth, g1, n
<1>11. QED
  BY <1>9, <1>10 DEF m, node

\* The first return to the head ends the walk, so that Walk is what IsWalk says.
LEMMA WalkIs ==
    ASSUME NEW h \in Heads, NEW link, NEW w, IsWalk(w, link, h)
    PROVE  Walk(link, h) = w
<1> DEFINE at == Nth(link, h)
           m == Len(w)
           backAt == {k \in 1..Cardinality(Node) : at[k] = h}
           IsFirst(k) == k \in backAt /\ \A j \in backAt : k <= j
           first == CHOOSE k \in backAt : \A j \in backAt : k <= j
<1>1. /\ w \in Seq(Items) /\ IsInjective(w) /\ m \in Nat
      /\ \A i \in 1..m : w[i] \in Items /\ w[i] # h
  BY DEF IsWalk
<1>2. Cardinality(Node) \in Nat /\ m + 1 <= Cardinality(Node)
  BY <1>1, WalkFits
<1>3. \A k \in 1..m : at[k] = w[k]
  BY <1>1, NthOfWalk
<1>4. at[m + 1] = h
  <2>1. m + 1 \in 0..(m + 1) /\ m + 1 \notin 1..m
    BY <1>1
  <2>2. QED
    BY <2>1, NthOfWalk
<1> HIDE DEF at, m
<1>5. \A k \in backAt : k \in Nat /\ k >= m + 1
  BY <1>1, <1>2, <1>3
<1>6. m + 1 \in backAt
  BY <1>1, <1>2, <1>4
<1> HIDE DEF backAt
<1>7. first = m + 1
  <2>1. \A k : IsFirst(k) => k = m + 1
    BY <1>1, <1>5, <1>6
  <2>2. IsFirst(m + 1)
    BY <1>5, <1>6
  <2>3. QED
    BY <2>1, <2>2
<1> HIDE DEF first
<1>8. [k \in 1..(first - 1) |-> at[k]] = w
  <2>1. first - 1 = m /\ w = [k \in 1..m |-> w[k]]
    BY <1>1, <1>7 DEF m
  <2>2. QED
    BY <1>3, <2>1
<1>9. backAt # {}
  BY <1>6
<1>10. Walk(link, h) = IF backAt = {} THEN <<NULL>> ELSE [k \in 1..(first - 1) |-> at[k]]
  BY DEF Walk, backAt, at, first
<1>11. QED
  BY <1>8, <1>9, <1>10

(***************************************************************************)
(* The walk is the list, and an operation changes it at one place.         *)
(***************************************************************************)
LEMMA SeqConcat ==
    ASSUME NEW S, NEW a \in Seq(S), NEW b \in Seq(S)
    PROVE  /\ a \o b \in Seq(S) /\ Len(a \o b) = Len(a) + Len(b)
           /\ \A j \in 1..(Len(a) + Len(b)) :
                (a \o b)[j] = IF j <= Len(a) THEN a[j] ELSE b[j - Len(a)]
  OBVIOUS

\* What is at place j after e was inserted at place k.
Inserted(s, k, e, j) == IF j < k THEN s[j] ELSE IF j = k THEN e ELSE s[j - 1]

LEMMA SeqInsert ==
    ASSUME NEW S, NEW s \in Seq(S), NEW e \in S, NEW k \in 1..(Len(s) + 1)
    PROVE  /\ InsertAt(s, k, e) \in Seq(S)
           /\ Len(InsertAt(s, k, e)) = Len(s) + 1
           /\ \A j \in 1..(Len(s) + 1) : InsertAt(s, k, e)[j] = Inserted(s, k, e, j)
<1> DEFINE a == SubSeq(s, 1, k - 1)
           b == SubSeq(s, k, Len(s))
<1>1. Len(s) \in Nat /\ k \in Nat /\ k >= 1 /\ k <= Len(s) + 1 /\ \A j \in 1..Len(s) : s[j] \in S
  OBVIOUS
<1>2. a \in Seq(S) /\ Len(a) = k - 1 /\ \A j \in 1..(k - 1) : a[j] = s[j]
  BY <1>1
<1>3. b \in Seq(S) /\ Len(b) = Len(s) - k + 1 /\ \A j \in 1..(Len(s) - k + 1) : b[j] = s[k + j - 1]
  BY <1>1
<1>4. <<e>> \in Seq(S) /\ Len(<<e>>) = 1
  OBVIOUS
<1> HIDE DEF a, b
<1>5. InsertAt(s, k, e) = (a \o <<e>>) \o b
  BY DEF InsertAt, a, b
<1> DEFINE c == a \o <<e>>
<1>6. c \in Seq(S) /\ Len(c) = k /\ \A j \in 1..k : c[j] = IF j < k THEN s[j] ELSE e
  BY <1>1, <1>2, <1>4
<1> HIDE DEF c
<1>7. /\ c \o b \in Seq(S) /\ Len(c \o b) = Len(s) + 1
      /\ \A j \in 1..(Len(s) + 1) : (c \o b)[j] = IF j <= k THEN c[j] ELSE b[j - k]
  <2>1. /\ c \o b \in Seq(S) /\ Len(c \o b) = Len(c) + Len(b)
        /\ \A j \in 1..(Len(c) + Len(b)) : (c \o b)[j] = IF j <= Len(c) THEN c[j] ELSE b[j - Len(c)]
    BY <1>3, <1>6, SeqConcat
  <2>2. Len(c) = k /\ Len(c) + Len(b) = Len(s) + 1
    BY <1>1, <1>3, <1>6
  <2>3. QED
    BY <2>1, <2>2
<1>8. ASSUME NEW j \in 1..(Len(s) + 1)
      PROVE  (c \o b)[j] = IF j < k THEN s[j] ELSE IF j = k THEN e ELSE s[j - 1]
  <2>1. CASE j <= k
    BY <1>1, <1>6, <1>7, <2>1
  <2>2. CASE j > k
    <3>1. (c \o b)[j] = b[j - k] /\ j - k \in 1..(Len(s) - k + 1)
      BY <1>1, <1>7, <2>2
    <3>2. k + (j - k) - 1 = j - 1
      BY <1>1
    <3>3. QED
      BY <1>1, <1>3, <2>2, <3>1, <3>2
  <2>3. j <= k \/ j > k
    BY <1>1
  <2>4. QED
    BY <2>1, <2>2, <2>3
<1>9. QED
  BY <1>5, <1>7, <1>8 DEF c, Inserted

LEMMA SeqRemove ==
    ASSUME NEW S, NEW s \in Seq(S), NEW k \in 1..Len(s)
    PROVE  /\ RemoveAt(s, k) \in Seq(S)
           /\ Len(RemoveAt(s, k)) = Len(s) - 1
           /\ \A j \in 1..(Len(s) - 1) : RemoveAt(s, k)[j] = IF j < k THEN s[j] ELSE s[j + 1]
<1> DEFINE a == SubSeq(s, 1, k - 1)
           b == SubSeq(s, k + 1, Len(s))
<1>1. Len(s) \in Nat /\ k \in Nat /\ k >= 1 /\ k <= Len(s) /\ \A j \in 1..Len(s) : s[j] \in S
  OBVIOUS
<1>2. a \in Seq(S) /\ Len(a) = k - 1 /\ \A j \in 1..(k - 1) : a[j] = s[j]
  BY <1>1
<1>3. b \in Seq(S) /\ Len(b) = Len(s) - k /\ \A j \in 1..(Len(s) - k) : b[j] = s[k + j]
  BY <1>1
<1>4. RemoveAt(s, k) = a \o b
  BY DEF RemoveAt
<1> HIDE DEF a, b
<1>5. /\ a \o b \in Seq(S) /\ Len(a \o b) = Len(s) - 1
      /\ \A j \in 1..(Len(s) - 1) : (a \o b)[j] = IF j <= k - 1 THEN a[j] ELSE b[j - (k - 1)]
  <2>1. /\ a \o b \in Seq(S) /\ Len(a \o b) = Len(a) + Len(b)
        /\ \A j \in 1..(Len(a) + Len(b)) : (a \o b)[j] = IF j <= Len(a) THEN a[j] ELSE b[j - Len(a)]
    BY <1>2, <1>3, SeqConcat
  <2>2. Len(a) = k - 1 /\ Len(a) + Len(b) = Len(s) - 1
    BY <1>1, <1>2, <1>3
  <2>3. QED
    BY <2>1, <2>2
<1>6. ASSUME NEW j \in 1..(Len(s) - 1)
      PROVE  (a \o b)[j] = IF j < k THEN s[j] ELSE s[j + 1]
  <2>1. CASE j < k
    BY <1>1, <1>2, <1>5, <2>1
  <2>2. CASE j >= k
    <3>1. (a \o b)[j] = b[j - (k - 1)] /\ j - (k - 1) \in 1..(Len(s) - k)
      BY <1>1, <1>5, <2>2
    <3>2. k + (j - (k - 1)) = j + 1
      BY <1>1
    <3>3. QED
      BY <1>1, <1>3, <2>2, <3>1, <3>2
  <2>3. j < k \/ j >= k
    BY <1>1
  <2>4. QED
    BY <2>1, <2>2, <2>3
<1>7. QED
  BY <1>4, <1>5, <1>6

\* The walk of h is w, and the items in it are those that are said to be in
\* the list.
IsList(w, link, of, h) ==
    IsWalk(w, link, h) /\ ToSet(w) = {i \in Items : of[i] = h}

\* The list of h is left alone by what changes other nodes' links.
Untouched(h, link, of, link1, of1) ==
    /\ link1[h] = link[h]
    /\ \A i \in Items : (of1[i] = h <=> of[i] = h) /\ (of[i] = h => link1[i] = link[i])

LEMMA ListStays ==
    ASSUME NEW h \in Heads, NEW w, NEW link, NEW of, IsList(w, link, of, h),
           NEW link1, NEW of1, Untouched(h, link, of, link1, of1)
    PROVE  IsList(w, link1, of1, h)
<1>1. w \in Seq(Items) /\ \A k \in 1..Len(w) : w[k] \in Items /\ of[w[k]] = h
  BY DEF IsList, IsWalk, ToSet
<1>2. IsWalk(w, link1, h)
  BY <1>1 DEF IsList, IsWalk, Untouched
<1>3. QED
  BY <1>2 DEF IsList, Untouched

\* The node that leads to the place k of a walk.
Before(w, h, k) == IF k = 1 THEN h ELSE w[k - 1]

LEMMA ListInsert ==
    ASSUME NEW h \in Heads, NEW w, NEW link, NEW of, IsList(w, link, of, h),
           DOMAIN link = Node, DOMAIN of = Node,
           NEW item \in Items, of[item] # h, NEW k \in 1..(Len(w) + 1),
           NEW link1, NEW of1,
           link1 = [link EXCEPT ![item] = link[Before(w, h, k)], ![Before(w, h, k)] = item],
           of1 = [of EXCEPT ![item] = h]
    PROVE  IsList(InsertAt(w, k, item), link1, of1, h)
<1> DEFINE v == InsertAt(w, k, item)
           m == Len(w)
           last == Before(w, h, k)
<1>1. /\ w \in Seq(Items) /\ m \in Nat /\ DOMAIN w = 1..m
      /\ \A i \in 1..m : w[i] \in Items /\ w[i] # item /\ w[i] # h /\ w[i] \in Node
      /\ item \in Node /\ h \in Node /\ item # h
  BY DEF IsList, IsWalk, ToSet
<1>2. \A i \in 1..m, j \in 1..m : w[i] = w[j] => i = j
  BY <1>1 DEF IsList, IsWalk, IsInjective
<1>3. /\ link[h] = IF m = 0 THEN h ELSE w[1]
      /\ \A i \in 1..m : link[w[i]] = IF i < m THEN w[i + 1] ELSE h
  BY <1>1 DEF IsList, IsWalk
<1>4. /\ v \in Seq(Items) /\ Len(v) = m + 1 /\ DOMAIN v = 1..(m + 1)
      /\ \A j \in 1..(m + 1) : v[j] = IF j < k THEN w[j] ELSE IF j = k THEN item ELSE w[j - 1]
  <2>0. w \in Seq(Items) /\ k \in 1..(Len(w) + 1)
    BY <1>1
  <2>1. v \in Seq(Items) /\ Len(v) = m + 1
    BY <2>0, SeqInsert
  <2>2. \A j \in 1..(m + 1) : v[j] = Inserted(w, k, item, j)
    BY <2>0, SeqInsert
  <2> HIDE DEF v, m
  <2>3. DOMAIN v = 1..(m + 1)
    BY <2>1
  <2>4. QED
    BY <2>1, <2>2, <2>3 DEF Inserted
<1> HIDE DEF v, m
<1>5. /\ last \in Node /\ last # item
      /\ last = h <=> k = 1
      /\ \A i \in 1..m : last = w[i] <=> i + 1 = k
      /\ link[last] = IF k <= m THEN w[k] ELSE h
  BY <1>1, <1>2, <1>3 DEF Before, m
<1> HIDE DEF last
<1>6. /\ link1[item] = link[last] /\ link1[last] = item
      /\ \A n \in Node : n # item /\ n # last => link1[n] = link[n]
  BY <1>1, <1>5 DEF last
<1>7. ASSUME NEW i \in 1..(m + 1), NEW j \in 1..(m + 1), v[i] = v[j] PROVE i = j
  <2>1. /\ (i > k => i - 1 \in 1..m) /\ (i < k => i \in 1..m)
        /\ (j > k => j - 1 \in 1..m) /\ (j < k => j \in 1..m)
        /\ i \in Nat /\ j \in Nat /\ k \in Nat /\ k <= m + 1 /\ k >= 1
    BY <1>1 DEF m
  <2>2. QED
    BY <1>1, <1>2, <1>4, <1>7, <2>1
<1>8. IsInjective(v)
  BY <1>4, <1>7 DEF IsInjective
<1>9. link1[h] = v[1] /\ v # <<>>
  <2>1. 1 \in 1..(m + 1) /\ k \in 1..(m + 1)
    BY <1>1 DEF m
  <2>2. v # <<>>
    BY <1>1, <1>4
  <2>3. CASE k = 1
    BY <1>4, <1>5, <1>6, <2>1, <2>2, <2>3
  <2>4. CASE k # 1
    BY <1>1, <1>3, <1>4, <1>5, <1>6, <2>1, <2>2, <2>4
  <2>5. QED
    BY <2>3, <2>4
<1>10. ASSUME NEW j \in 1..(m + 1)
       PROVE  link1[v[j]] = IF j < m + 1 THEN v[j + 1] ELSE h
  <2>1. k \in Nat /\ k >= 1 /\ k <= m + 1 /\ j \in Nat
    BY <1>1 DEF m
  <2>2. CASE j = k
    <3>1. link1[v[j]] = IF k <= m THEN w[k] ELSE h
      BY <1>4, <1>5, <1>6, <2>2
    <3>2. j < m + 1 => j + 1 \in 1..(m + 1) /\ v[j + 1] = w[k]
      BY <1>1, <1>4, <2>1, <2>2
    <3>3. QED
      BY <1>1, <2>1, <2>2, <3>1, <3>2
  <2>3. CASE j < k
    <3>1. v[j] = w[j] /\ j \in 1..m /\ j < m + 1 /\ j + 1 \in 1..(m + 1)
      BY <1>1, <1>4, <2>1, <2>3
    <3>2. CASE j + 1 = k
      BY <1>4, <1>5, <1>6, <3>1, <3>2
    <3>3. CASE j + 1 # k
      <4>1. w[j] # last /\ link1[w[j]] = link[w[j]] /\ j < m /\ j + 1 < k
        BY <1>1, <1>5, <1>6, <2>1, <2>3, <3>1, <3>3
      <4>2. QED
        BY <1>3, <1>4, <3>1, <4>1
    <3>4. QED
      BY <3>2, <3>3
  <2>4. CASE j > k
    <3>1. v[j] = w[j - 1] /\ j - 1 \in 1..m /\ j # k
      BY <1>1, <1>4, <2>1, <2>4
    <3>2. w[j - 1] # last /\ link1[w[j - 1]] = link[w[j - 1]]
      BY <1>1, <1>5, <1>6, <2>4, <3>1
    <3>3. link[w[j - 1]] = IF j - 1 < m THEN w[j] ELSE h
      BY <1>1, <1>3, <3>1
    <3>4. j < m + 1 => j + 1 \in 1..(m + 1) /\ v[j + 1] = w[j]
      BY <1>1, <1>4, <2>1, <2>4
    <3>5. QED
      BY <1>1, <2>1, <3>1, <3>2, <3>3, <3>4
  <2>5. QED
    BY <2>1, <2>2, <2>3, <2>4
<1>11. IsWalk(v, link1, h)
  BY <1>4, <1>8, <1>9, <1>10 DEF IsWalk
<1>12. ToSet(v) = ToSet(w) \cup {item}
  <2>1. k \in 1..(m + 1)
    BY DEF m
  <2>2. ToSet(v) \subseteq ToSet(w) \cup {item}
    BY <1>1, <1>4, <2>1 DEF ToSet
  <2>3. item \in ToSet(v)
    BY <1>4, <2>1 DEF ToSet
  <2>4. ASSUME NEW i \in 1..m PROVE w[i] \in ToSet(v)
    <3>1. CASE i < k
      <4>1. i \in 1..(m + 1) /\ v[i] = w[i]
        BY <1>1, <1>4, <3>1
      <4>2. QED
        BY <1>4, <4>1 DEF ToSet
    <3>2. CASE i >= k
      <4>1. i + 1 \in 1..(m + 1) /\ ~(i + 1 < k) /\ i + 1 # k /\ (i + 1) - 1 = i
        BY <1>1, <2>1, <3>2
      <4>2. v[i + 1] = w[i]
        BY <1>4, <4>1
      <4>3. QED
        BY <1>4, <4>1, <4>2 DEF ToSet
    <3>3. QED
      BY <2>1, <3>1, <3>2
  <2>5. ToSet(w) = {w[i] : i \in 1..m}
    BY <1>1 DEF ToSet
  <2>6. QED
    BY <2>2, <2>3, <2>4, <2>5
<1>13. {i \in Items : of1[i] = h} = {i \in Items : of[i] = h} \cup {item}
  BY <1>1
<1>14. QED
  BY <1>11, <1>12, <1>13 DEF IsList, v

LEMMA ListRemove ==
    ASSUME NEW h \in Heads, NEW w, NEW link, NEW of, IsList(w, link, of, h),
           DOMAIN link = Node, DOMAIN of = Node, NEW k \in 1..Len(w),
           NEW link1, NEW of1,
           link1 = [link EXCEPT ![Before(w, h, k)] = link[w[k]], ![w[k]] = NULL],
           of1 = [of EXCEPT ![w[k]] = NULL]
    PROVE  IsList(RemoveAt(w, k), link1, of1, h)
<1> DEFINE v == RemoveAt(w, k)
           m == Len(w)
           last == Before(w, h, k)
<1>1. /\ w \in Seq(Items) /\ m \in Nat /\ DOMAIN w = 1..m
      /\ \A i \in 1..m : w[i] \in Items /\ w[i] # h /\ w[i] \in Node
      /\ h \in Node /\ k \in 1..m /\ NULL # h
  BY DEF IsList, IsWalk, ToSet
<1>2. \A i \in 1..m, j \in 1..m : w[i] = w[j] => i = j
  BY <1>1 DEF IsList, IsWalk, IsInjective
<1>3. /\ link[h] = IF m = 0 THEN h ELSE w[1]
      /\ \A i \in 1..m : link[w[i]] = IF i < m THEN w[i + 1] ELSE h
  BY <1>1 DEF IsList, IsWalk
<1>4. /\ v \in Seq(Items) /\ Len(v) = m - 1 /\ DOMAIN v = 1..(m - 1)
      /\ \A j \in 1..(m - 1) : v[j] = IF j < k THEN w[j] ELSE w[j + 1]
  <2>0. w \in Seq(Items) /\ k \in 1..Len(w)
    BY <1>1
  <2>1. v \in Seq(Items) /\ Len(v) = m - 1
    BY <2>0, SeqRemove
  <2>2. \A j \in 1..(m - 1) : v[j] = IF j < k THEN w[j] ELSE w[j + 1]
    BY <2>0, SeqRemove
  <2> HIDE DEF v, m
  <2>3. DOMAIN v = 1..(m - 1)
    BY <2>1
  <2>4. QED
    BY <2>1, <2>2, <2>3
<1> HIDE DEF v, m
<1>5. /\ last \in Node /\ last # w[k]
      /\ last = h <=> k = 1
      /\ \A i \in 1..m : last = w[i] <=> i + 1 = k
  BY <1>1, <1>2, <1>3 DEF Before
<1> HIDE DEF last
<1>6. /\ link1[last] = link[w[k]]
      /\ \A n \in Node : n # w[k] /\ n # last => link1[n] = link[n]
  BY <1>1, <1>5 DEF last
<1>7. ASSUME NEW i \in 1..(m - 1), NEW j \in 1..(m - 1), v[i] = v[j] PROVE i = j
  <2>1. /\ i \in 1..m /\ j \in 1..m /\ i + 1 \in 1..m /\ j + 1 \in 1..m /\ k \in Nat
    BY <1>1
  <2>2. QED
    BY <1>2, <1>4, <1>7, <2>1
<1>8. IsInjective(v)
  BY <1>4, <1>7 DEF IsInjective
<1>9. link1[h] = IF v = <<>> THEN h ELSE v[1]
  <2>1. v = <<>> <=> m = 1
    BY <1>1, <1>4
  <2>2. CASE k = 1
    <3>1. link1[h] = IF 1 < m THEN w[1 + 1] ELSE h
      BY <1>1, <1>3, <1>5, <1>6, <2>2
    <3>2. m # 1 => v[1] = w[1 + 1] /\ 1 < m
      BY <1>1, <1>4, <2>2
    <3>3. QED
      BY <2>1, <3>1, <3>2
  <2>3. CASE k # 1
    <3>1. link1[h] = w[1] /\ m # 1 /\ 1 \in 1..(m - 1) /\ 1 < k
      BY <1>1, <1>3, <1>5, <1>6, <2>3
    <3>2. QED
      BY <1>4, <2>1, <3>1
  <2>4. QED
    BY <2>2, <2>3
<1>10. ASSUME NEW j \in 1..(m - 1)
       PROVE  link1[v[j]] = IF j < m - 1 THEN v[j + 1] ELSE h
  <2>1. k \in Nat /\ k >= 1 /\ k <= m /\ j \in Nat /\ j \in 1..m /\ j + 1 \in 1..m
    BY <1>1
  <2>2. CASE j + 1 = k
    <3>1. v[j] = last /\ link1[last] = IF k < m THEN w[k + 1] ELSE h
      BY <1>1, <1>3, <1>4, <1>5, <1>6, <2>1, <2>2
    <3>2. j < m - 1 => v[j + 1] = w[k + 1] /\ k < m
      BY <1>1, <1>4, <2>1, <2>2
    <3>3. ~(j < m - 1) => ~(k < m)
      BY <1>1, <2>1, <2>2
    <3>4. QED
      BY <3>1, <3>2, <3>3
  <2>3. CASE j + 1 < k
    <3>1. v[j] = w[j] /\ w[j] # last /\ w[j] # w[k] /\ link1[w[j]] = link[w[j]]
      BY <1>1, <1>2, <1>4, <1>5, <1>6, <2>1, <2>3
    <3>2. j < m /\ j < m - 1 /\ j + 1 \in 1..(m - 1)
      BY <1>1, <2>1, <2>3
    <3>3. QED
      BY <1>3, <1>4, <2>1, <2>3, <3>1, <3>2
  <2>4. CASE j >= k
    <3>1. /\ v[j] = w[j + 1] /\ w[j + 1] # last /\ w[j + 1] # w[k]
          /\ link1[w[j + 1]] = link[w[j + 1]]
      BY <1>1, <1>2, <1>4, <1>5, <1>6, <2>1, <2>4
    <3>2. link[w[j + 1]] = IF j + 1 < m THEN w[(j + 1) + 1] ELSE h
      BY <1>3, <2>1
    <3>3. j < m - 1 => v[j + 1] = w[(j + 1) + 1] /\ j + 1 < m
      BY <1>1, <1>4, <2>1, <2>4
    <3>4. ~(j < m - 1) => ~(j + 1 < m)
      BY <1>1, <2>1
    <3>5. QED
      BY <3>1, <3>2, <3>3, <3>4
  <2>5. QED
    BY <2>1, <2>2, <2>3, <2>4
<1>11. IsWalk(v, link1, h)
  BY <1>4, <1>8, <1>9, <1>10 DEF IsWalk
<1>12. ToSet(v) = ToSet(w) \ {w[k]}
  <2>1. ASSUME NEW j \in 1..(m - 1) PROVE v[j] \in ToSet(w) \ {w[k]}
    <3>1. j \in 1..m /\ j + 1 \in 1..m
      BY <1>1
    <3>2. QED
      BY <1>1, <1>2, <1>4, <3>1 DEF ToSet
  <2>2. ASSUME NEW i \in 1..m, i # k PROVE w[i] \in ToSet(v)
    <3>1. CASE i < k
      <4>1. i \in 1..(m - 1) /\ v[i] = w[i]
        BY <1>1, <1>4, <3>1
      <4>2. QED
        BY <1>4, <4>1 DEF ToSet
    <3>2. CASE i > k
      <4>1. i - 1 \in 1..(m - 1) /\ ~(i - 1 < k) /\ (i - 1) + 1 = i
        BY <1>1, <3>2
      <4>2. v[i - 1] = w[i]
        BY <1>4, <4>1
      <4>3. QED
        BY <1>4, <4>1, <4>2 DEF ToSet
    <3>3. QED
      BY <1>1, <2>2, <3>1, <3>2
  <2>3. QED
    BY <1>1, <1>4, <2>1, <2>2 DEF ToSet
<1>13. {i \in Items : of1[i] = h} = {i \in Items : of[i] = h} \ {w[k]}
  BY <1>1
<1>14. QED
  BY <1>11, <1>12, <1>13 DEF IsList, v

\* Every list in use is walked: what TLC computes with Walk is what it says.
HasWalks ==
    \A h \in Heads : ring[h] # NULL => IsList(Walk(next, h), next, ring, h)

\* The refinement mapping of DListRefine.
Lists == [h \in Heads |-> IF ring[h] = NULL THEN NULL ELSE Walk(next, h)]

\* What a step has to say of one head, and of every other.
LEMMA ListsChange ==
    ASSUME NEW g \in Heads, NEW v, ring'[g] # NULL, IsList(v, next', ring', g),
           \A h \in Heads \ {g} :
             /\ ring'[h] = NULL <=> ring[h] = NULL
             /\ ring[h] # NULL => IsList(Walk(next, h), next', ring', h)
    PROVE  HasWalks' /\ Lists' = [Lists EXCEPT ![g] = v]
<1>1. Walk(next', g) = v
  BY WalkIs DEF IsList
<1>2. ASSUME NEW h \in Heads \ {g}, ring[h] # NULL PROVE Walk(next', h) = Walk(next, h)
  BY <1>2, WalkIs DEF IsList
<1>3. HasWalks'
  BY <1>1, <1>2 DEF HasWalks
<1>4. ASSUME NEW h \in Heads PROVE Lists'[h] = [Lists EXCEPT ![g] = v][h]
  BY <1>1, <1>2 DEF Lists
<1>5. DOMAIN Lists' = Heads /\ DOMAIN [Lists EXCEPT ![g] = v] = Heads
  BY DEF Lists
<1>6. Lists' = [h \in Heads |-> Lists'[h]] /\ [Lists EXCEPT ![g] = v] = [h \in Heads |-> [Lists EXCEPT ![g] = v][h]]
  BY DEF Lists
<1>7. QED
  BY <1>3, <1>4, <1>6

\* Linking an item inserts it in the list of the node it is linked at.
LEMMA LinkStep ==
    ASSUME DListInv, HasWalks, NEW list \in Node, NEW item \in Items,
           ring[item] = NULL, ring[list] # NULL,
           LinkAfter(list, item) \/ LinkBefore(list, item),
           ring' = [ring EXCEPT ![item] = ring[list]]
    PROVE  /\ HasWalks'
           /\ ring[list] \in Heads /\ ring[ring[list]] # NULL
           /\ \E k \in 1..(Len(Walk(next, ring[list])) + 1) :
                Lists' = [Lists EXCEPT ![ring[list]] = InsertAt(Walk(next, ring[list]), k, item)]
<1> DEFINE g == ring[list]
           w == Walk(next, g)
           last == IF LinkAfter(list, item) THEN list ELSE prev[list]
<1>1. /\ item \in Node /\ last \in Node /\ last # item /\ ring[last] = g
      /\ next' = [next EXCEPT ![item] = next[last], ![last] = item]
  <2>1. CASE LinkAfter(list, item)
    BY <2>1 DEF LinkAfter, DListInv, TypeOK, LinkedBothWays
  <2>2. CASE ~LinkAfter(list, item)
    BY <2>2 DEF LinkBefore, DListInv, TypeOK, LinkedBothWays
  <2>3. QED
    BY <2>1, <2>2
<1>2. /\ g \in Heads /\ ring[g] = g /\ g # NULL /\ DOMAIN next = Node /\ DOMAIN ring = Node
      /\ \A h \in Heads : ring[h] \in {h, NULL}
      /\ ring' = [ring EXCEPT ![item] = g]
  BY DEF DListInv, TypeOK, RingInUse, HeadsHome
<1> HIDE DEF g, last
<1>3. IsList(w, next, ring, g)
  BY <1>2 DEF HasWalks
<1>4. w \in Seq(Items) /\ DOMAIN w = 1..Len(w) /\ Len(w) \in Nat
  BY <1>3 DEF IsList, IsWalk
<1> HIDE DEF w
<1>5. \E k \in 1..(Len(w) + 1) : Before(w, g, k) = last
  <2>1. CASE last = g
    <3>1. 1 \in 1..(Len(w) + 1) /\ Before(w, g, 1) = last
      BY <1>4, <2>1 DEF Before
    <3>2. QED
      BY <3>1
  <2>2. CASE last # g
    <3>1. last \in Items
      BY <1>1, <1>2, <2>2
    <3>2. last \in ToSet(w)
      BY <1>1, <1>3, <3>1 DEF IsList
    <3>3. PICK j \in 1..Len(w) : w[j] = last
      BY <1>4, <3>2 DEF ToSet
    <3>4. j + 1 \in 1..(Len(w) + 1) /\ j + 1 # 1 /\ (j + 1) - 1 = j
      BY <1>4
    <3>5. Before(w, g, j + 1) = last
      BY <3>3, <3>4 DEF Before
    <3>6. QED
      BY <3>4, <3>5
  <2>3. QED
    BY <2>1, <2>2
<1>6. PICK k \in 1..(Len(w) + 1) : Before(w, g, k) = last
  BY <1>5
<1>7. ring[item] # g
  BY <1>2
<1>8. IsList(InsertAt(w, k, item), next', ring', g)
  BY <1>1, <1>2, <1>3, <1>6, <1>7, ListInsert
<1>9. ASSUME NEW h \in Heads \ {g}
      PROVE  /\ ring'[h] = NULL <=> ring[h] = NULL
             /\ ring[h] # NULL => IsList(Walk(next, h), next', ring', h)
  <2>1. h # item /\ h # last /\ h \in Node
    BY <1>1, <1>2
  <2>2. ring'[h] = ring[h] /\ next'[h] = next[h]
    BY <1>1, <1>2, <2>1
  <2>3. \A i \in Items : ring'[i] = h <=> ring[i] = h
    BY <1>1, <1>2
  <2>4. ASSUME NEW i \in Items, ring[i] = h PROVE next'[i] = next[i]
    <3>1. i # item /\ i # last /\ i \in Node
      BY <1>1, <1>2, <2>4
    <3>2. QED
      BY <1>1, <1>2, <3>1
  <2>5. ring[h] # NULL => IsList(Walk(next, h), next, ring, h)
    BY DEF HasWalks
  <2>6. CASE ring[h] # NULL
    <3>1. Untouched(h, next, ring, next', ring')
      BY <2>2, <2>3, <2>4 DEF Untouched
    <3>2. IsList(Walk(next, h), next', ring', h)
      BY <2>5, <2>6, <3>1, ListStays
    <3>3. QED
      BY <2>2, <3>2
  <2>7. QED
    BY <2>2, <2>6
<1>10. ring'[g] # NULL
  BY <1>1, <1>2
<1>11. HasWalks' /\ Lists' = [Lists EXCEPT ![g] = InsertAt(w, k, item)]
  BY <1>2, <1>8, <1>9, <1>10, ListsChange
<1>12. QED
  BY <1>2, <1>11 DEF g, w

\* Unlinking an item takes it from its list.
LEMMA UnlinkStep ==
    ASSUME DListInv, HasWalks, NEW item \in Items, ring[item] # NULL,
           Unlink(item), ring' = [ring EXCEPT ![item] = NULL]
    PROVE  /\ HasWalks'
           /\ ring[item] \in Heads /\ ring[ring[item]] # NULL
           /\ \E k \in 1..Len(Walk(next, ring[item])) :
                Lists' = [Lists EXCEPT ![ring[item]] = RemoveAt(Walk(next, ring[item]), k)]
<1> DEFINE g == ring[item]
           w == Walk(next, g)
<1>1. /\ item \in Node /\ prev[item] \in Node /\ ring[prev[item]] = g
      /\ next' = [next EXCEPT ![prev[item]] = next[item], ![item] = NULL]
      /\ \A n \in Node : ring[n] # NULL => prev[next[n]] = n
  BY DEF Unlink, DListInv, LinkedBothWays
<1>2. /\ g \in Heads /\ g \in Node /\ ring[g] = g /\ g # NULL /\ g # item
      /\ DOMAIN next = Node /\ DOMAIN ring = Node
      /\ \A h \in Heads : ring[h] \in {h, NULL}
  BY DEF DListInv, TypeOK, RingInUse, HeadsHome
<1> HIDE DEF g
<1>3. IsList(w, next, ring, g)
  BY <1>2 DEF HasWalks
<1>4. w \in Seq(Items) /\ DOMAIN w = 1..Len(w) /\ Len(w) \in Nat
  BY <1>3 DEF IsList, IsWalk
<1> HIDE DEF w
<1>5. PICK k \in 1..Len(w) : w[k] = item
  <2>1. item \in ToSet(w)
    BY <1>3 DEF IsList, g
  <2>2. QED
    BY <1>4, <2>1 DEF ToSet
<1>6. \A j \in 1..Len(w) : w[j] \in Node /\ ring[w[j]] = g
  BY <1>3, <1>4 DEF IsList, ToSet
<1>7. prev[item] = Before(w, g, k)
  <2>1. CASE k = 1
    <3>1. w # <<>> /\ next[g] = w[1]
      BY <1>3, <1>4, <2>1 DEF IsList, IsWalk
    <3>2. QED
      BY <1>1, <1>2, <1>5, <2>1, <3>1 DEF Before
  <2>2. CASE k # 1
    <3>1. k - 1 \in 1..Len(w) /\ k - 1 < Len(w) /\ (k - 1) + 1 = k
      BY <1>4, <2>2
    <3>2. next[w[k - 1]] = w[k]
      BY <1>3, <3>1 DEF IsList, IsWalk
    <3>3. QED
      BY <1>1, <1>2, <1>5, <1>6, <2>2, <3>1, <3>2 DEF Before
  <2>3. QED
    BY <2>1, <2>2
<1>8. IsList(RemoveAt(w, k), next', ring', g)
  BY <1>1, <1>2, <1>3, <1>5, <1>7, ListRemove
<1>9. ASSUME NEW h \in Heads \ {g}
      PROVE  /\ ring'[h] = NULL <=> ring[h] = NULL
             /\ ring[h] # NULL => IsList(Walk(next, h), next', ring', h)
  <2>1. h # item /\ h # prev[item] /\ h \in Node
    BY <1>1, <1>2
  <2>2. ring'[h] = ring[h] /\ next'[h] = next[h]
    BY <1>1, <1>2, <2>1
  <2>3. \A i \in Items : ring'[i] = h <=> ring[i] = h
    BY <1>1, <1>2 DEF g
  <2>4. ASSUME NEW i \in Items, ring[i] = h PROVE next'[i] = next[i]
    <3>1. i # item /\ i # prev[item] /\ i \in Node
      BY <1>1, <1>2, <2>4 DEF g
    <3>2. QED
      BY <1>1, <1>2, <3>1
  <2>5. ring[h] # NULL => IsList(Walk(next, h), next, ring, h)
    BY DEF HasWalks
  <2>6. CASE ring[h] # NULL
    <3>1. Untouched(h, next, ring, next', ring')
      BY <2>2, <2>3, <2>4 DEF Untouched
    <3>2. IsList(Walk(next, h), next', ring', h)
      BY <2>5, <2>6, <3>1, ListStays
    <3>3. QED
      BY <2>2, <3>2
  <2>7. QED
    BY <2>2, <2>6
<1>10. ring'[g] # NULL
  BY <1>1, <1>2
<1>11. HasWalks' /\ Lists' = [Lists EXCEPT ![g] = RemoveAt(w, k)]
  BY <1>2, <1>8, <1>9, <1>10, ListsChange
<1>12. QED
  BY <1>2, <1>11 DEF g, w

\* Initialising a head opens an empty list.
LEMMA InitializeStep ==
    ASSUME DListInv, HasWalks, NEW h \in Heads, list_initialize(h)
    PROVE  /\ HasWalks' /\ ring[h] = NULL
           /\ Lists' = [Lists EXCEPT ![h] = <<>>]
<1>1. /\ ring[h] = NULL /\ h \in Node /\ DOMAIN next = Node /\ DOMAIN ring = Node
      /\ next' = [next EXCEPT ![h] = h] /\ ring' = [ring EXCEPT ![h] = h] /\ h # NULL
  BY DEF list_initialize, DListInv, TypeOK
<1>2. \A i \in Items : ring[i] # h
  BY <1>1 DEF DListInv, RingInUse
<1>3. IsList(<<>>, next', ring', h)
  <2>1. <<>> \in Seq(Items)
    OBVIOUS
  <2>2. IsInjective(<<>>) /\ Len(<<>>) = 0 /\ ToSet(<<>>) = {}
    BY DEF IsInjective, ToSet
  <2>3. next'[h] = h /\ \A i \in Items : ring'[i] # h
    BY <1>1, <1>2
  <2>4. QED
    BY <2>1, <2>2, <2>3 DEF IsList, IsWalk
<1>4. ASSUME NEW g \in Heads \ {h}
      PROVE  /\ ring'[g] = NULL <=> ring[g] = NULL
             /\ ring[g] # NULL => IsList(Walk(next, g), next', ring', g)
  <2>1. ring'[g] = ring[g] /\ next'[g] = next[g]
    BY <1>1
  <2>2. \A i \in Items : ring'[i] = ring[i] /\ next'[i] = next[i]
    BY <1>1
  <2>3. ring[g] # NULL => IsList(Walk(next, g), next, ring, g)
    BY DEF HasWalks
  <2>4. Untouched(g, next, ring, next', ring')
    BY <2>1, <2>2 DEF Untouched
  <2>5. QED
    BY <2>1, <2>3, <2>4, ListStays
<1>5. ring'[h] # NULL
  BY <1>1
<1>6. QED
  BY <1>1, <1>3, <1>4, <1>5, ListsChange

\* Each operation is one step of ListSeq, or none.
ListStep(item, h) ==
    \/ ring[h] = NULL /\ Lists' = [Lists EXCEPT ![h] = <<>>]
    \/ /\ ring[item] = NULL /\ ring[h] # NULL
       /\ \E k \in 1..(Len(Walk(next, h)) + 1) :
            Lists' = [Lists EXCEPT ![h] = InsertAt(Walk(next, h), k, item)]
    \/ /\ ring[h] # NULL
       /\ \E k \in 1..Len(Walk(next, h)) :
            Lists' = [Lists EXCEPT ![h] = RemoveAt(Walk(next, h), k)]

LEMMA FaultKeepsLists ==
    ASSUME HasWalks, UNCHANGED <<next, prev, ring>>
    PROVE  HasWalks' /\ Lists' = Lists
  BY DEF HasWalks, Lists

LEMMA NextIsListStep ==
    ASSUME DListInv, HasWalks, [Next]_vars
    PROVE  /\ HasWalks'
           /\ \/ Lists' = Lists
              \/ \E h \in Heads : ring[h] = NULL /\ Lists' = [Lists EXCEPT ![h] = <<>>]
              \/ \E h \in Heads, item \in Items : ListStep(item, h)
<1> DEFINE Stepped == /\ HasWalks'
                      /\ \/ Lists' = Lists
                         \/ \E h \in Heads : ring[h] = NULL /\ Lists' = [Lists EXCEPT ![h] = <<>>]
                         \/ \E h \in Heads, item \in Items : ListStep(item, h)
<1>0. UNCHANGED <<next, prev, ring>> => Stepped
  BY FaultKeepsLists
<1>1. ASSUME NEW h \in Heads, list_initialize(h) PROVE Stepped
  BY <1>1, InitializeStep
<1>2. ASSUME NEW l \in Node, NEW i \in Items, list_add_head(l, i) \/ list_add_tail(l, i)
      PROVE  Stepped
  <2>1. CASE NullDeref
    BY <1>0, <2>1 DEF NullDeref
  <2>2. CASE ~NullDeref
    <3>1. /\ LinkAfter(l, i) \/ LinkBefore(l, i)
          /\ ring[i] = NULL /\ ring' = [ring EXCEPT ![i] = ring[l]]
          /\ next[l] # NULL \/ prev[l] # NULL
      BY <1>2, <2>2 DEF list_add_head, list_add_tail, CanLink
    <3>2. ring[l] # NULL
      BY <3>1 DEF DListInv, LinkedBothWays
    <3>3. /\ HasWalks' /\ ring[l] \in Heads /\ ring[ring[l]] # NULL
          /\ \E k \in 1..(Len(Walk(next, ring[l])) + 1) :
               Lists' = [Lists EXCEPT ![ring[l]] = InsertAt(Walk(next, ring[l]), k, i)]
      BY <3>1, <3>2, LinkStep
    <3>4. ListStep(i, ring[l])
      BY <3>1, <3>3 DEF ListStep
    <3>5. QED
      BY <3>3, <3>4
  <2>3. QED
    BY <2>1, <2>2
<1>3. ASSUME NEW i \in Items, list_delete(i) PROVE Stepped
  <2>1. next[i] # NULL /\ prev[i] # NULL /\ ring[i] # NULL
    BY <1>3 DEF DListInv, LinkedBothWays, list_delete
  <2>2. Unlink(i) /\ ring' = [ring EXCEPT ![i] = NULL]
    BY <1>3, <2>1 DEF list_delete
  <2>3. /\ HasWalks' /\ ring[i] \in Heads /\ ring[ring[i]] # NULL
        /\ \E k \in 1..Len(Walk(next, ring[i])) :
             Lists' = [Lists EXCEPT ![ring[i]] = RemoveAt(Walk(next, ring[i]), k)]
    BY <2>1, <2>2, UnlinkStep
  <2>4. ListStep(i, ring[i])
    BY <2>3 DEF ListStep
  <2>5. QED
    BY <2>3, <2>4
<1>4. ASSUME NEW h \in Heads, list_remove_head(h) PROVE Stepped
  BY <1>3, <1>4, RemoveUnlinksItem DEF list_remove_head
<1>5. ASSUME NEW h \in Heads, list_remove_tail(h) PROVE Stepped
  BY <1>3, <1>5, RemoveUnlinksItem DEF list_remove_tail
<1>6. CASE UNCHANGED vars
  BY <1>0, <1>6 DEF vars
<1>7. QED
  BY <1>1, <1>2, <1>3, <1>4, <1>5, <1>6 DEF Next

\* What list.h offers its callers, the traversals first of all, is a sequence:
\* from every head in use, the pointers lead through the items of its list, in
\* an order, and back.
THEOREM ListsAreWalked == Spec => []HasWalks
<1>1. Init => HasWalks
  BY DEF Init, HasWalks
<1>2. DListInv /\ HasWalks /\ [Next]_vars => HasWalks'
  BY NextIsListStep
<1>3. QED
  BY <1>1, <1>2, DListInvariant, PTL DEF Spec

\* The inverted walk is the walk from its end.
LEMMA WalkBack ==
    ASSUME DListInv, NEW h \in Heads, ring[h] # NULL, NEW w, IsList(w, next, ring, h)
    PROVE  /\ IsWalk(Reverse(w), prev, h)
           /\ ToSet(Reverse(w)) \subseteq ToSet(w)
<1> DEFINE m == Len(w)
           v == Reverse(w)
<1>1. /\ w \in Seq(Items) /\ m \in Nat /\ DOMAIN w = 1..m
      /\ \A i \in 1..m : w[i] \in Items /\ w[i] \in Node /\ ring[w[i]] = h
      /\ \A i \in 1..m, j \in 1..m : w[i] = w[j] => i = j
      /\ h \in Node /\ h # NULL /\ m = 0 <=> w = <<>>
  BY DEF IsList, IsWalk, IsInjective, ToSet
<1>2. /\ next[h] = IF m = 0 THEN h ELSE w[1]
      /\ \A i \in 1..m : next[w[i]] = IF i < m THEN w[i + 1] ELSE h
  BY <1>1 DEF IsList, IsWalk
<1>3. \A n \in Node : ring[n] # NULL => prev[next[n]] = n
  BY DEF DListInv, LinkedBothWays
<1>4. /\ v \in Seq(Items) /\ Len(v) = m /\ DOMAIN v = 1..m
      /\ \A i \in 1..m : v[i] = w[(m - i) + 1]
  <2>1. v = [i \in 1..m |-> w[(m - i) + 1]]
    BY DEF Reverse
  <2>2. \A i \in 1..m : (m - i) + 1 \in 1..m
    BY <1>1
  <2> HIDE DEF m, v
  <2>3. v \in [1..m -> Items]
    BY <1>1, <2>1, <2>2
  <2>4. v \in Seq(Items) /\ Len(v) = m
    BY <1>1, <2>3
  <2>5. QED
    BY <2>1, <2>4
<1> HIDE DEF m, v
<1>5. \A i \in 1..m : (m - i) + 1 \in 1..m
  BY <1>1
<1>6. IsInjective(v)
  <2>1. ASSUME NEW i \in 1..m, NEW j \in 1..m, v[i] = v[j] PROVE i = j
    <3>1. (m - i) + 1 = (m - j) + 1
      BY <1>1, <1>4, <1>5, <2>1
    <3>2. QED
      BY <1>1, <3>1
  <2>2. QED
    BY <1>4, <2>1 DEF IsInjective
<1>7. prev[h] = IF v = <<>> THEN h ELSE v[1]
  <2>1. CASE m = 0
    <3>1. v = <<>> /\ next[h] = h
      BY <1>2, <1>4, <2>1
    <3>2. QED
      BY <1>1, <1>3, <3>1
  <2>2. CASE m # 0
    <3>1. 1 \in 1..m /\ m \in 1..m /\ (m - 1) + 1 = m
      BY <1>1, <2>2
    <3>2. v[1] = w[m] /\ next[w[m]] = h /\ v # <<>>
      BY <1>2, <1>4, <2>2, <3>1
    <3>3. QED
      BY <1>1, <1>3, <3>1, <3>2
  <2>3. QED
    BY <2>1, <2>2
<1>8. ASSUME NEW i \in 1..m PROVE prev[v[i]] = IF i < m THEN v[i + 1] ELSE h
  <2> DEFINE j == (m - i) + 1
  <2>1. j \in 1..m /\ v[i] = w[j] /\ (i < m <=> j > 1) /\ (j - 1) + 1 = j
    BY <1>1, <1>4
  <2>2. CASE i < m
    <3>1. j - 1 \in 1..m /\ j - 1 < m /\ i + 1 \in 1..m /\ (m - (i + 1)) + 1 = j - 1
      BY <1>1, <2>2
    <3>2. v[i + 1] = w[j - 1]
      BY <1>4, <3>1
    <3> HIDE DEF j
    <3>3. next[w[j - 1]] = w[j]
      BY <1>2, <2>1, <3>1
    <3>4. prev[w[j]] = w[j - 1]
      BY <1>1, <1>3, <3>1, <3>3
    <3>5. QED
      BY <2>1, <2>2, <3>2, <3>4
  <2>3. CASE ~(i < m)
    <3>1. j = 1 /\ m # 0
      BY <1>1, <2>3
    <3>2. next[h] = w[1] /\ v[i] = w[1]
      BY <1>2, <2>1, <3>1
    <3>3. QED
      BY <1>1, <1>3, <2>3, <3>2
  <2>4. QED
    BY <2>2, <2>3
<1>9. ToSet(v) \subseteq ToSet(w)
  BY <1>1, <1>4, <1>5 DEF ToSet
<1>10. QED
  BY <1>4, <1>6, <1>7, <1>8, <1>9 DEF IsWalk, v

\* Walking a list meets every item that was linked into it and not unlinked
\* since, once, in one order from the front and in the opposite one from the
\* back (list.h:160-253), however many operations have come before.
THEOREM WalksMeetTheRing == Spec => []WalkIsRing
<1>1. DListInv /\ HasWalks => WalkIsRing
  <2> SUFFICES ASSUME DListInv, HasWalks, NEW h \in Heads, ring[h] # NULL
               PROVE  /\ ToSet(list_for_every(h)) = {i \in Items : ring[i] = h}
                      /\ list_length(h) = Cardinality({i \in Items : ring[i] = h})
                      /\ list_for_each_entry_inverted(h) = Reverse(list_for_every(h))
    BY DEF WalkIsRing
  <2> DEFINE w == Walk(next, h)
  <2>1. IsList(w, next, ring, h)
    BY DEF HasWalks
  <2>2. w \in Seq(Items) /\ IsInjective(w) /\ ToSet(w) = {i \in Items : ring[i] = h}
    BY <2>1 DEF IsList, IsWalk
  <2>3. Len(w) = Cardinality(ToSet(w))
    BY <2>2, WalkLength
  <2>4. Walk(prev, h) = Reverse(w)
    BY <2>1, WalkBack, WalkIs
  <2>5. QED
    BY <2>2, <2>3, <2>4 DEF list_for_every, list_length, list_for_each_entry_inverted
<1>2. QED
  BY <1>1, DListInvariant, ListsAreWalked, PTL

\* list.h implements ListSeq for any number of heads and items: whatever an
\* operation does to up to four pointers is the insertion or the removal of
\* one item at one place of one list, or nothing when it faults.
THEOREM PointersImplementLists == Spec => RefinesListSeq
<1>1. Init => Abs!Init
  BY DEF Init, Abs!Init
<1>2. DListInv /\ HasWalks /\ [Next]_vars =>
        [Abs!Next]_([h \in Heads |-> IF ring[h] = NULL THEN NULL ELSE Walk(next, h)])
  <2> SUFFICES ASSUME DListInv, HasWalks, [Next]_vars
               PROVE  Lists' = Lists \/ Abs!Next
    BY DEF Lists
  <2>0. /\ \A s : Abs!ToSet(s) = ToSet(s)
        /\ \A s, k, e : Abs!InsertAt(s, k, e) = InsertAt(s, k, e)
        /\ \A s, k : Abs!RemoveAt(s, k) = RemoveAt(s, k)
    BY DEF Abs!ToSet, ToSet, Abs!InsertAt, InsertAt, Abs!RemoveAt, RemoveAt
  <2>1. ASSUME NEW h \in Heads
        PROVE  /\ Lists[h] # NULL <=> ring[h] # NULL
               /\ ring[h] # NULL => Lists[h] = Walk(next, h)
               /\ ring[h] # NULL => ToSet(Lists[h]) = {i \in Items : ring[i] = h}
    <3>1. ring[h] # NULL => IsList(Walk(next, h), next, ring, h)
      BY DEF HasWalks
    <3>2. ring[h] # NULL => Walk(next, h) # NULL
      BY <3>1, ListsAssumption DEF IsList, IsWalk
    <3>3. QED
      BY <3>1, <3>2 DEF Lists, IsList
  <2>2. Abs!InUse = {h \in Heads : ring[h] # NULL}
    BY <2>1 DEF Abs!InUse, Lists
  <2>3. ASSUME NEW i \in Items, ring[i] = NULL PROVE i \notin Abs!Linked
    <3>1. ASSUME NEW h \in Abs!InUse PROVE i \notin ToSet(Lists[h])
      BY <2>1, <2>2, <2>3
    <3>2. Abs!Linked = UNION {ToSet(Lists[h]) : h \in Abs!InUse}
      BY <2>0 DEF Abs!Linked, Lists
    <3>3. QED
      BY <3>1, <3>2
  <2>4. ASSUME NEW h \in Heads, ring[h] = NULL, Lists' = [Lists EXCEPT ![h] = <<>>]
        PROVE  Abs!Next
    <3>1. Abs!Open(h)
      BY <2>2, <2>4 DEF Abs!Open, Lists
    <3>2. QED
      BY <3>1 DEF Abs!Next
  <2>5. ASSUME NEW h \in Heads, NEW i \in Items, ring[i] = NULL, ring[h] # NULL,
               NEW k \in 1..(Len(Walk(next, h)) + 1),
               Lists' = [Lists EXCEPT ![h] = InsertAt(Walk(next, h), k, i)]
        PROVE  Abs!Next
    <3>1. h \in Abs!InUse /\ i \notin Abs!Linked /\ Lists[h] = Walk(next, h)
      BY <2>1, <2>2, <2>3, <2>5
    <3>2. Lists' = [Lists EXCEPT ![h] = InsertAt(@, k, i)] /\ k \in 1..(Len(Lists[h]) + 1)
      BY <2>5, <3>1
    <3>3. Abs!Insert(h, i, k)
      <4>1. h \in Abs!InUse /\ i \notin Abs!Linked
        BY <3>1
      <4>2. Lists' = [Lists EXCEPT ![h] = Abs!InsertAt(@, k, i)]
        BY <2>0, <3>2
      <4>3. QED
        BY <4>1, <4>2, Zenon DEF Abs!Insert, Lists
    <3>4. QED
      BY <3>1, <3>2, <3>3 DEF Abs!Next, Lists
  <2>6. ASSUME NEW h \in Heads, ring[h] # NULL, NEW k \in 1..Len(Walk(next, h)),
               Lists' = [Lists EXCEPT ![h] = RemoveAt(Walk(next, h), k)]
        PROVE  Abs!Next
    <3>1. h \in Abs!InUse /\ Lists[h] = Walk(next, h)
      BY <2>1, <2>2, <2>6
    <3>2. Lists' = [Lists EXCEPT ![h] = RemoveAt(@, k)] /\ k \in 1..Len(Lists[h])
      BY <2>6, <3>1
    <3>3. Abs!Take(h, k)
      <4>1. h \in Abs!InUse
        BY <3>1
      <4>2. Lists' = [Lists EXCEPT ![h] = Abs!RemoveAt(@, k)]
        BY <2>0, <3>2
      <4>3. QED
        BY <4>1, <4>2, Zenon DEF Abs!Take, Lists
    <3>4. QED
      BY <3>1, <3>2, <3>3 DEF Abs!Next, Lists
  <2>7. \/ Lists' = Lists
        \/ \E h \in Heads : ring[h] = NULL /\ Lists' = [Lists EXCEPT ![h] = <<>>]
        \/ \E h \in Heads, item \in Items : ListStep(item, h)
    BY NextIsListStep
  <2>8. QED
    BY <2>4, <2>5, <2>6, <2>7 DEF ListStep
<1>3. QED
  BY <1>1, <1>2, DListInvariant, ListsAreWalked, PTL DEF Spec, RefinesListSeq, Abs!Spec

(***************************************************************************)
(* The traversal macros.  LoopInv says that what is left of the order a    *)
(* loop began with is still linked as it was, whatever the body has done   *)
(* with the nodes it was given.                                            *)
(***************************************************************************)
Link(l) == IF l \in Inverted THEN prev ELSE next

EndOf(l, h) == IF l \in EndsOnHead THEN h ELSE NULL

\* The k-th node of a loop over q, or what ends it.
Visit(l, h, q, k) == IF k <= Len(q) THEN q[k] ELSE EndOf(l, h)

\* From place k on, q is linked in the list of h.
Ahead(link, of, q, h, k) ==
    \A j \in 1..Len(q) : j >= k =>
        of[q[j]] = h /\ link[q[j]] = IF j < Len(q) THEN q[j + 1] ELSE h

Idle == loop = NULL /\ head = NULL /\ cn = NULL /\ cns = NULL /\ order = <<>> /\ seen = <<>>

Looping ==
    /\ loop \in Loops /\ head \in Heads /\ ring[head] # NULL
    /\ order \in Seq(Items) /\ IsInjective(order)
    /\ seen \in Seq(Items) /\ Len(seen) <= Len(order)
    /\ \A j \in 1..Len(seen) : seen[j] = order[j]
    /\ cn \in Pointer /\ cns \in Pointer
    /\ Ahead(Link(loop), ring, order, head, Len(seen) + 1)

LoopInv ==
    /\ pc \in {"idle", "test", "body", "step", "done"}
    /\ pc = "idle" => Idle
    /\ pc # "idle" => Looping
    /\ pc \in {"test", "body"} =>
         /\ cn = Visit(loop, head, order, Len(seen) + 1)
         /\ loop \in Safe /\ Len(seen) < Len(order) =>
              cns = Visit(loop, head, order, Len(seen) + 2)
    /\ pc = "body" => Len(seen) < Len(order)
    /\ pc = "step" =>
         /\ Len(seen) >= 1 /\ cn = order[Len(seen)]
         /\ loop \in Safe => cns = Visit(loop, head, order, Len(seen) + 1)
         /\ loop \notin Safe => Ahead(Link(loop), ring, order, head, Len(seen))
    /\ pc = "done" => Len(seen) = Len(order)

\* A loop goes from a node in the list to its neighbour, or ends.
LEMMA SuccessorIs ==
    ASSUME DListInv, HeadInRing, NEW h \in Heads, ring[h] # NULL,
           NEW i \in Items, ring[i] = h, NEW l \in Loops
    PROVE  Successor(l, h, i) = IF Link(l)[i] = h THEN EndOf(l, h) ELSE Link(l)[i]
<1>1. list_peek_next(h, i) = list_next(h, i) /\ list_peek_prev(h, i) = list_prev(h, i)
  BY ItemsPlace
<1>2. CASE l \in EndsOnHead
  BY <1>2 DEF Successor, EndOf, Link, EndsOnHead, Inverted
<1>3. CASE l \in Inverted
  BY <1>1, <1>3 DEF Successor, EndOf, Link, EndsOnHead, Inverted, list_prev
<1>4. CASE l \notin EndsOnHead /\ l \notin Inverted
  BY <1>1, <1>4 DEF Successor, EndOf, Link, list_next
<1>5. QED
  BY <1>2, <1>3, <1>4

\* What a loop computes from a node it has yet to visit.
LEMMA SuccessorAhead ==
    ASSUME DListInv, HeadInRing, NEW h \in Heads, ring[h] # NULL,
           NEW q \in Seq(Items), NEW l \in Loops, NEW k \in 1..Len(q),
           Ahead(Link(l), ring, q, h, k)
    PROVE  /\ Successor(l, h, q[k]) = Visit(l, h, q, k + 1)
           /\ Ahead(Link(l), ring, q, h, k + 1)
<1>1. Len(q) \in Nat /\ \A j \in 1..Len(q) : q[j] \in Items
  OBVIOUS
<1>2. ring[q[k]] = h /\ Link(l)[q[k]] = IF k < Len(q) THEN q[k + 1] ELSE h
  BY <1>1 DEF Ahead
<1>3. Successor(l, h, q[k]) = IF Link(l)[q[k]] = h THEN EndOf(l, h) ELSE Link(l)[q[k]]
  BY <1>1, <1>2, SuccessorIs
<1>4. k < Len(q) => k + 1 \in 1..Len(q) /\ q[k + 1] # h
  BY <1>1
<1>5. Successor(l, h, q[k]) = Visit(l, h, q, k + 1)
  BY <1>1, <1>2, <1>3, <1>4 DEF Visit
<1>6. QED
  BY <1>1, <1>5 DEF Ahead

\* A node on the way, or what ends it, is one that a pointer can have.
LEMMA VisitIsPointer ==
    ASSUME NEW h \in Heads, NEW q \in Seq(Items), NEW l \in Loops, NEW k \in Nat \ {0}
    PROVE  Visit(l, h, q, k) \in Pointer
<1>1. k <= Len(q) => k \in 1..Len(q) /\ q[k] \in Items
  OBVIOUS
<1>2. QED
  BY <1>1 DEF Visit, EndOf

\* Links that are changed at other nodes leave what is ahead as it is.
LEMMA AheadStays ==
    ASSUME NEW q, NEW h, NEW link, NEW of, NEW link1, NEW of1, NEW k, NEW k1,
           Ahead(link, of, q, h, k), k1 \in Int, k \in Int, k1 >= k,
           \A j \in 1..Len(q) : j >= k1 => link1[q[j]] = link[q[j]] /\ of1[q[j]] = of[q[j]]
    PROVE  Ahead(link1, of1, q, h, k1)
  BY DEF Ahead

\* The first node of a loop begins the walk.
LEMMA BeginLoop ==
    ASSUME DListInv, HeadInRing, HasWalks, LoopInv, NEW l \in Loops, NEW h \in Heads, Begin(l, h)
    PROVE  LoopInv'
<1> DEFINE w == Walk(next, h)
           q == IF l \in Inverted THEN Reverse(w) ELSE w
<1>1. /\ ring[h] # NULL /\ pc' = "test" /\ loop' = l /\ head' = h /\ order' = q /\ seen' = <<>>
      /\ cn' = FirstNode(l, h)
      /\ cns' = IF l \in Safe THEN Successor(l, h, FirstNode(l, h)) ELSE NULL
      /\ next' = next /\ prev' = prev /\ ring' = ring
  BY DEF Begin, vars
<1>2. IsList(w, next, ring, h)
  BY <1>1 DEF HasWalks
<1>3. IsWalk(q, Link(l), h) /\ ToSet(q) \subseteq {i \in Items : ring[i] = h}
  <2>1. CASE l \in Inverted
    BY <1>1, <1>2, <2>1, WalkBack DEF Link, IsList
  <2>2. CASE l \notin Inverted
    BY <1>2, <2>2 DEF Link, IsList
  <2>3. QED
    BY <2>1, <2>2
<1> HIDE DEF q, w
<1>4. q \in Seq(Items) /\ IsInjective(q) /\ Len(q) \in Nat /\ DOMAIN q = 1..Len(q)
  BY <1>3 DEF IsWalk
<1>5. Ahead(Link(l), ring, q, h, 1)
  BY <1>3, <1>4 DEF IsWalk, Ahead, ToSet
<1>6. FirstNode(l, h) = Visit(l, h, q, 1)
  <2>1. Link(l)[h] = IF q = <<>> THEN h ELSE q[1]
    BY <1>3 DEF IsWalk
  <2>2. (q = <<>> <=> ~(1 <= Len(q))) /\ (q # <<>> => q[1] # h)
    BY <1>4
  <2>3. FirstNode(l, h) = IF Link(l)[h] = h THEN EndOf(l, h) ELSE Link(l)[h]
    BY DEF FirstNode, Link, EndOf, EndsOnHead, Inverted, list_peek_head, list_peek_tail
  <2>4. QED
    BY <2>1, <2>2, <2>3 DEF Visit
<1>7. Len(q) # 0 => Successor(l, h, FirstNode(l, h)) = Visit(l, h, q, 2)
  <2>1. ASSUME Len(q) # 0 PROVE Successor(l, h, q[1]) = Visit(l, h, q, 1 + 1)
    <3>1. 1 \in 1..Len(q)
      BY <1>4, <2>1
    <3>2. QED
      BY <1>1, <1>4, <1>5, <3>1, SuccessorAhead
  <2>2. Len(q) # 0 => FirstNode(l, h) = q[1]
    BY <1>4, <1>6 DEF Visit
  <2>3. QED
    BY <2>1, <2>2
<1>8. Successor(l, h, EndOf(l, h)) \in Pointer
  BY DEF Successor, EndOf, EndsOnHead, Inverted, list_peek_next, list_peek_prev, DListInv, TypeOK
<1>9. FirstNode(l, h) \in Pointer /\ Successor(l, h, FirstNode(l, h)) \in Pointer
  <2>1. CASE Len(q) = 0
    <3>1. FirstNode(l, h) = EndOf(l, h)
      BY <1>4, <1>6, <2>1 DEF Visit
    <3>2. EndOf(l, h) \in Pointer
      BY DEF EndOf
    <3>3. QED
      BY <1>8, <3>1, <3>2
  <2>2. CASE Len(q) # 0
    BY <1>4, <1>6, <1>7, <2>2, VisitIsPointer
  <2>3. QED
    BY <2>1, <2>2
<1>10. <<>> \in Seq(Items) /\ Len(<<>>) = 0
  OBVIOUS
<1>11. Looping'
  BY <1>1, <1>4, <1>5, <1>9, <1>10 DEF Looping, Link
<1>12. QED
  BY <1>1, <1>4, <1>6, <1>7, <1>10, <1>11 DEF LoopInv

\* The loop's test.
LEMMA TestLoop ==
    ASSUME DListInv, LoopInv, Test
    PROVE  LoopInv'
<1>1. /\ pc = "test" /\ Looping /\ cn = Visit(loop, head, order, Len(seen) + 1)
      /\ loop \in Safe /\ Len(seen) < Len(order) => cns = Visit(loop, head, order, Len(seen) + 2)
  BY DEF Test, LoopInv
<1>2. /\ pc' = IF Ends(loop, head, cn) THEN "done" ELSE "body"
      /\ loop' = loop /\ head' = head /\ order' = order /\ seen' = seen
      /\ cn' = cn /\ cns' = cns
      /\ next' = next /\ prev' = prev /\ ring' = ring
  BY DEF Test, vars
<1>3. Looping'
  BY <1>1, <1>2 DEF Looping, Link
<1>4. /\ Len(seen) \in Nat /\ Len(order) \in Nat /\ Len(seen) <= Len(order)
      /\ \A j \in 1..Len(order) : order[j] \in Items
      /\ head \in Heads
  BY <1>1 DEF Looping
<1>5. Ends(loop, head, cn) <=> Len(seen) = Len(order)
  <2>1. Ends(loop, head, cn) <=> cn = EndOf(loop, head)
    BY DEF Ends, EndOf
  <2>2. CASE Len(seen) = Len(order)
    BY <1>1, <1>4, <2>1, <2>2 DEF Visit
  <2>3. CASE Len(seen) # Len(order)
    <3>1. Len(seen) + 1 \in 1..Len(order)
      BY <1>4, <2>3
    <3>2. cn = order[Len(seen) + 1] /\ cn \in Items
      BY <1>1, <1>4, <3>1 DEF Visit
    <3>3. EndOf(loop, head) \notin Items
      BY <1>4 DEF EndOf
    <3>4. QED
      BY <2>1, <2>3, <3>2, <3>3
  <2>4. QED
    BY <2>2, <2>3
<1>6. QED
  BY <1>1, <1>2, <1>3, <1>4, <1>5 DEF LoopInv

\* The body runs on the next item of the order.
LEMMA BodyNode ==
    ASSUME LoopInv, Body
    PROVE  /\ Looping /\ Len(seen) \in Nat /\ Len(order) \in Nat
           /\ Len(seen) + 1 \in 1..Len(order)
           /\ cn = order[Len(seen) + 1] /\ cn \in Items
           /\ loop \in Safe => cns = Visit(loop, head, order, Len(seen) + 2)
<1>1. /\ Looping /\ cn = Visit(loop, head, order, Len(seen) + 1) /\ Len(seen) < Len(order)
      /\ loop \in Safe /\ Len(seen) < Len(order) => cns = Visit(loop, head, order, Len(seen) + 2)
  BY DEF Body, LoopInv
<1>2. order \in Seq(Items) /\ seen \in Seq(Items)
  BY <1>1 DEF Looping
<1>3. Len(seen) \in Nat /\ Len(order) \in Nat /\ Len(seen) + 1 \in 1..Len(order)
  BY <1>1, <1>2
<1>4. cn = order[Len(seen) + 1]
  BY <1>1, <1>3 DEF Visit
<1>5. QED
  BY <1>1, <1>2, <1>3, <1>4

LEMMA BodyLoop ==
    ASSUME DListInv, LoopInv, Body
    PROVE  LoopInv'
<1> DEFINE m == Len(seen)
<1>1. /\ Looping /\ m \in Nat /\ Len(order) \in Nat /\ m + 1 \in 1..Len(order)
      /\ cn = order[m + 1] /\ cn \in Items
      /\ loop \in Safe => cns = Visit(loop, head, order, m + 2)
  BY BodyNode
<1>2. /\ order \in Seq(Items) /\ seen \in Seq(Items) /\ head \in Heads /\ head # cn /\ head # NULL
      /\ \A j \in 1..m : seen[j] = order[j]
      /\ \A j \in 1..Len(order) : order[j] \in Items /\ order[j] \in Node
      /\ \A i \in 1..Len(order), j \in 1..Len(order) : order[i] = order[j] => i = j
      /\ Ahead(Link(loop), ring, order, head, m + 1)
  BY <1>1 DEF Looping, IsInjective
<1>3. /\ pc' = "step" /\ loop' = loop /\ head' = head /\ order' = order
      /\ cn' = cn /\ cns' = cns /\ seen' = Append(seen, cn)
      /\ \/ UNCHANGED vars
         \/ loop \in Safe /\ list_delete(cn)
  BY <1>1 DEF Body
<1>4. /\ seen' \in Seq(Items) /\ Len(seen') = m + 1
      /\ \A j \in 1..(m + 1) : seen'[j] = order[j]
  BY <1>1, <1>2, <1>3
<1> HIDE DEF m
<1>5. CASE UNCHANGED vars
  <2>1. next' = next /\ prev' = prev /\ ring' = ring /\ Link(loop)' = Link(loop)
    BY <1>3, <1>5 DEF vars, Link
  <2>2. Ahead(Link(loop), ring, order, head, m + 2)
    BY <1>1, <1>2 DEF Ahead
  <2>3. Looping'
    BY <1>1, <1>2, <1>3, <1>4, <2>1, <2>2 DEF Looping, Link
  <2>4. QED
    BY <1>1, <1>2, <1>3, <1>4, <2>1, <2>3 DEF LoopInv, Link
<1>6. CASE loop \in Safe /\ list_delete(cn)
  <2>1. /\ next[cn] \in Node /\ prev[cn] \in Node /\ cn \in Node
        /\ Unlink(cn) /\ ring' = [ring EXCEPT ![cn] = NULL]
        /\ next[prev[cn]] = cn /\ prev[next[cn]] = cn
    BY <1>1, <1>6 DEF list_delete, DListInv, LinkedBothWays
  <2>2. ring'[head] # NULL
    BY <1>1, <1>2, <2>1 DEF Looping, DListInv, TypeOK
  <2>3. ASSUME NEW j \in 1..Len(order), j >= m + 2
        PROVE  Link(loop)'[order[j]] = Link(loop)[order[j]] /\ ring'[order[j]] = ring[order[j]]
    <3>1. order[j] # cn /\ order[j] \in Node /\ j >= m + 1
      BY <1>1, <1>2, <2>3
    <3>2. Link(loop)[order[j]] = IF j < Len(order) THEN order[j + 1] ELSE head
      BY <1>2, <3>1 DEF Ahead
    <3>3. Link(loop)[order[j]] # cn
      <4>1. j < Len(order) => j + 1 \in 1..Len(order) /\ j + 1 # m + 1
        BY <1>1, <2>3
      <4>2. QED
        BY <1>1, <1>2, <3>2, <4>1
    <3>4. CASE loop \in Inverted
      <4>1. prev' = [prev EXCEPT ![next[cn]] = prev[cn], ![cn] = NULL] /\ order[j] # next[cn]
        BY <2>1, <3>3, <3>4 DEF Unlink, Link
      <4>2. QED
        BY <1>3, <2>1, <3>1, <3>4, <4>1 DEF Link, DListInv, TypeOK
    <3>5. CASE loop \notin Inverted
      <4>1. next' = [next EXCEPT ![prev[cn]] = next[cn], ![cn] = NULL] /\ order[j] # prev[cn]
        BY <2>1, <3>3, <3>5 DEF Unlink, Link
      <4>2. QED
        BY <1>3, <2>1, <3>1, <3>5, <4>1 DEF Link, DListInv, TypeOK
    <3>6. QED
      BY <3>4, <3>5
  <2>4. Ahead(Link(loop)', ring', order, head, m + 2)
    BY <1>1, <1>2, <2>3 DEF Ahead
  <2>5. Looping'
    BY <1>1, <1>2, <1>3, <1>4, <2>2, <2>4 DEF Looping
  <2>6. QED
    BY <1>1, <1>2, <1>3, <1>4, <1>6, <2>5 DEF LoopInv
<1>7. QED
  BY <1>3, <1>5, <1>6

\* A _safe loop's body links the item it has unlinked into another list.
LEMMA RelinkLoop ==
    ASSUME DListInv, LoopInv, BodyRelink
    PROVE  LoopInv' /\ cn \in Items
<1>1. /\ pc = "step" /\ Looping /\ loop \in Safe /\ ring[cn] = NULL
      /\ Len(seen) >= 1 /\ cn = order[Len(seen)]
  BY DEF BodyRelink, LoopInv
<1>2. /\ order \in Seq(Items) /\ seen \in Seq(Items) /\ head \in Heads
      /\ Len(seen) \in Nat /\ Len(order) \in Nat /\ Len(seen) <= Len(order)
      /\ \A j \in 1..Len(order) : order[j] \in Items /\ order[j] \in Node
      /\ ring[head] # NULL
      /\ Ahead(Link(loop), ring, order, head, Len(seen) + 1)
  BY <1>1 DEF Looping
<1>3. cn \in Items /\ cn \in Node
  BY <1>1, <1>2
<1>4. UNCHANGED <<pc, loop, head, cn, cns, order, seen>>
  BY DEF BodyRelink, loopVars
<1>5. PICK h \in Heads \ {head} : ring[h] # NULL /\ (list_add_head(h, cn) \/ list_add_tail(h, cn))
  BY DEF BodyRelink
<1>6. \A g \in Heads : ring[g] # NULL => ring[g] = g
  BY DEF DListInv, HeadsHome
<1>7. \/ UNCHANGED <<next, prev, ring>>
      \/ /\ LinkAfter(h, cn) \/ LinkBefore(h, cn)
         /\ ring' = [ring EXCEPT ![cn] = ring[h]]
  BY <1>5 DEF list_add_head, list_add_tail, NullDeref
<1>8. /\ h \in Node /\ next[h] \in Node /\ prev[h] \in Node
      /\ ring[h] = h /\ ring[next[h]] = h /\ ring[prev[h]] = h
  BY <1>5, <1>6 DEF DListInv, LinkedBothWays
<1>9. ASSUME NEW n \in Node, ring[n] = head
      PROVE  next'[n] = next[n] /\ prev'[n] = prev[n] /\ ring'[n] = ring[n]
  <2>1. n # cn /\ n # h /\ n # next[h] /\ n # prev[h]
    BY <1>1, <1>2, <1>5, <1>8, <1>9
  <2>2. QED
    BY <1>7, <1>8, <2>1 DEF LinkAfter, LinkBefore, DListInv, TypeOK
<1>10. ring'[head] # NULL
  BY <1>2, <1>6, <1>9
<1>11. Ahead(Link(loop)', ring', order, head, Len(seen) + 1)
  <2>1. ASSUME NEW j \in 1..Len(order), j >= Len(seen) + 1
        PROVE  Link(loop)'[order[j]] = Link(loop)[order[j]] /\ ring'[order[j]] = ring[order[j]]
    <3>1. ring[order[j]] = head /\ order[j] \in Node
      BY <1>2, <2>1 DEF Ahead
    <3>2. QED
      BY <1>4, <1>9, <3>1 DEF Link
  <2>2. QED
    BY <1>2, <2>1 DEF Ahead
<1>12. Looping'
  BY <1>1, <1>2, <1>4, <1>10, <1>11 DEF Looping
<1>13. QED
  BY <1>1, <1>3, <1>4, <1>12 DEF LoopInv

\* The loop goes on to its next node.
LEMMA StepLoop ==
    ASSUME DListInv, HeadInRing, LoopInv, Step
    PROVE  LoopInv'
<1> DEFINE m == Len(seen)
<1>1. /\ pc = "step" /\ Looping /\ m >= 1 /\ cn = order[m]
      /\ loop \in Safe => cns = Visit(loop, head, order, m + 1)
      /\ loop \notin Safe => Ahead(Link(loop), ring, order, head, m)
  BY DEF Step, LoopInv
<1>2. /\ order \in Seq(Items) /\ seen \in Seq(Items) /\ head \in Heads /\ loop \in Loops
      /\ m \in Nat /\ Len(order) \in Nat /\ m <= Len(order)
      /\ \A j \in 1..Len(order) : order[j] \in Items
      /\ ring[head] # NULL
      /\ Ahead(Link(loop), ring, order, head, m + 1)
  BY <1>1 DEF Looping
<1>3. /\ pc' = "test" /\ loop' = loop /\ head' = head /\ order' = order /\ seen' = seen
      /\ next' = next /\ prev' = prev /\ ring' = ring
  BY DEF Step, vars
<1>4. CASE loop \in Safe
  <2>1. cn' = cns /\ cns' = Successor(loop, head, cns)
    BY <1>4 DEF Step
  <2>2. CASE m < Len(order)
    <3>1. m + 1 \in 1..Len(order) /\ (m + 1) + 1 = m + 2 /\ m + 2 \in Nat \ {0} /\ m + 1 \in Nat \ {0}
      BY <1>2, <2>2
    <3>2. cns = order[m + 1]
      BY <1>1, <1>4, <2>2, <3>1 DEF Visit
    <3>3. cns' = Visit(loop, head, order, m + 2)
      BY <1>2, <2>1, <3>1, <3>2, SuccessorAhead
    <3>4. cn' \in Pointer /\ cns' \in Pointer
      BY <1>1, <1>2, <1>4, <2>1, <3>1, <3>3, VisitIsPointer
    <3>5. Looping'
      BY <1>1, <1>3, <3>4 DEF Looping, Link
    <3>6. QED
      BY <1>1, <1>3, <1>4, <2>1, <3>3, <3>5 DEF LoopInv
  <2>3. CASE ~(m < Len(order))
    <3>1. cns = EndOf(loop, head)
      BY <1>1, <1>2, <1>4, <2>3 DEF Visit
    <3>2. EndOf(loop, head) \in Pointer /\ Successor(loop, head, EndOf(loop, head)) \in Pointer
      BY <1>2 DEF Successor, EndOf, EndsOnHead, Inverted, list_peek_next, list_peek_prev,
                  DListInv, TypeOK
    <3>3. cn' \in Pointer /\ cns' \in Pointer
      BY <2>1, <3>1, <3>2
    <3>4. Looping'
      BY <1>1, <1>3, <3>3 DEF Looping, Link
    <3>5. QED
      BY <1>1, <1>3, <1>4, <2>1, <2>3, <3>4 DEF LoopInv
  <2>4. QED
    BY <2>2, <2>3
<1>5. CASE loop \notin Safe
  <2>1. cn' = Successor(loop, head, cn) /\ cns' = NULL
    BY <1>5 DEF Step
  <2>2. m \in 1..Len(order) /\ m + 1 \in Nat \ {0}
    BY <1>1, <1>2
  <2>3. cn' = Visit(loop, head, order, m + 1)
    BY <1>1, <1>2, <1>5, <2>1, <2>2, SuccessorAhead
  <2>4. cn' \in Pointer /\ cns' \in Pointer
    BY <1>2, <2>1, <2>2, <2>3, VisitIsPointer
  <2>5. Looping'
    BY <1>1, <1>3, <2>4 DEF Looping, Link
  <2>6. QED
    BY <1>1, <1>3, <1>5, <2>3, <2>5 DEF LoopInv
<1>6. QED
  BY <1>4, <1>5

TraverseInv == DListInv /\ HeadInRing /\ HasWalks /\ LoopInv

LEMMA TraverseInit == InitTraverse => Init /\ TraverseInv
<1> SUFFICES ASSUME InitTraverse PROVE Init /\ TraverseInv
  OBVIOUS
<1>1. Init
  BY DEF InitTraverse
<1>2. DListInv /\ HeadInRing /\ HasWalks
  BY <1>1 DEF Init, init_list_node, DListInv, TypeOK, LinkedBothWays, HeadsHome, RingInUse,
              HeadInRing, Closed, HasWalks
<1>3. LoopInv
  BY DEF InitTraverse, LoopInv, Idle
<1>4. QED
  BY <1>1, <1>2, <1>3 DEF TraverseInv

LEMMA TraverseStep ==
    ASSUME TraverseInv, [NextTraverse]_allVars
    PROVE  TraverseInv' /\ [Next]_vars
<1> USE DEF TraverseInv
<1>1. ASSUME [Next]_vars, LoopInv' PROVE TraverseInv' /\ [Next]_vars
  BY <1>1, DListInvInductive, HeadInRingInductive, NextIsListStep
<1>2. CASE BetweenLoops
  <2>1. Next /\ pc = "idle" /\ UNCHANGED loopVars
    BY <1>2 DEF BetweenLoops
  <2>2. LoopInv'
    BY <2>1 DEF LoopInv, loopVars, Idle
  <2>3. QED
    BY <1>1, <2>1, <2>2
<1>3. ASSUME NEW l \in Loops, NEW h \in Heads, Begin(l, h) PROVE TraverseInv' /\ [Next]_vars
  BY <1>1, <1>3, BeginLoop DEF Begin
<1>4. CASE Test
  BY <1>1, <1>4, TestLoop DEF Test, vars
<1>5. CASE Body
  <2>1. cn \in Items
    BY <1>5, BodyNode
  <2>2. [Next]_vars
    BY <1>5, <2>1 DEF Body, Next
  <2>3. QED
    BY <1>1, <1>5, <2>2, BodyLoop
<1>6. CASE BodyRelink
  <2>1. LoopInv' /\ cn \in Items
    BY <1>6, RelinkLoop
  <2>2. Next
    BY <1>6, <2>1 DEF BodyRelink, Next
  <2>3. QED
    BY <1>1, <2>1, <2>2
<1>7. CASE Step
  BY <1>1, <1>7, StepLoop DEF Step
<1>8. CASE Leave
  <2>1. LoopInv'
    BY <1>8 DEF Leave, LoopInv, Idle
  <2>2. QED
    BY <1>1, <1>8, <2>1 DEF Leave
<1>9. CASE UNCHANGED allVars
  <2>1. UNCHANGED vars /\ UNCHANGED loopVars
    BY <1>9 DEF allVars
  <2>2. LoopInv'
    BY <2>1 DEF LoopInv, Looping, Idle, Link, vars, loopVars
  <2>3. QED
    BY <1>1, <2>1, <2>2
<1>10. QED
  BY <1>2, <1>3, <1>4, <1>5, <1>6, <1>7, <1>8, <1>9 DEF NextTraverse

\* What a running loop relies on: what is left of its order is linked as it was.
THEOREM LoopsKeepTheirWay == SpecTraverse => []TraverseInv
  BY TraverseInit, TraverseStep, PTL DEF SpecTraverse

\* The loops do with the lists what callers may: the theorems about DList hold
\* of a program that traverses its lists and unlinks and relinks on the way.
THEOREM LoopsUseLists == SpecTraverse => Spec
<1>1. InitTraverse => Init
  BY TraverseInit
<1>2. TraverseInv /\ [NextTraverse]_allVars => [Next]_vars
  BY TraverseStep
<1>3. QED
  BY <1>1, <1>2, LoopsKeepTheirWay, PTL DEF SpecTraverse, Spec

\* Each of the six traversal macros (list.h:160-253) runs its body once for each
\* item that was in the list when it began, in the list's order, although the
\* body of a _safe one moves the items it is given to other lists.
THEOREM LoopsVisitEachOnce == SpecTraverse => []VisitsEachOnce
<1>1. TraverseInv => VisitsEachOnce
  <2> SUFFICES ASSUME LoopInv PROVE VisitsEachOnce
    BY DEF TraverseInv
  <2>1. CASE pc = "idle"
    BY <2>1 DEF LoopInv, Idle, VisitsEachOnce, IsPrefix
  <2>2. CASE pc # "idle"
    <3>1. /\ order \in Seq(Items) /\ seen \in Seq(Items) /\ Len(seen) <= Len(order)
          /\ \A j \in 1..Len(seen) : seen[j] = order[j]
          /\ pc = "done" => Len(seen) = Len(order)
      BY <2>2 DEF LoopInv, Looping
    <3>2. Len(seen) \in Nat /\ Len(order) \in Nat
      BY <3>1
    <3>3. SubSeq(seen, 1, Len(seen)) = SubSeq(order, 1, Len(seen))
      BY <3>1, <3>2
    <3>4. Len(seen) = Len(order) => seen = order
      BY <3>1, <3>2
    <3>5. QED
      BY <3>1, <3>3, <3>4 DEF VisitsEachOnce, IsPrefix
  <2>3. QED
    BY <2>1, <2>2
<1>2. QED
  BY <1>1, LoopsKeepTheirWay, PTL

\* A loop's node and its saved node are nodes or null, and it meets items only.
THEOREM TraverseTypes == SpecTraverse => []TypeOKTraverse
<1>1. TraverseInv => TypeOKTraverse
  <2> SUFFICES ASSUME TraverseInv PROVE TypeOKTraverse
    OBVIOUS
  <2>1. TypeOK /\ pc \in {"idle", "test", "body", "step", "done"}
    BY DEF TraverseInv, DListInv, LoopInv
  <2>2. CASE pc = "idle"
    <3>1. <<>> \in Seq(Items)
      OBVIOUS
    <3>2. QED
      BY <2>1, <2>2, <3>1 DEF TraverseInv, LoopInv, Idle, TypeOKTraverse
  <2>3. CASE pc # "idle"
    BY <2>1, <2>3 DEF TraverseInv, LoopInv, Looping, TypeOKTraverse
  <2>4. QED
    BY <2>2, <2>3
<1>2. QED
  BY <1>1, LoopsKeepTheirWay, PTL
=============================================================================
