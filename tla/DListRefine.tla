---------------------------- MODULE DListRefine ----------------------------
(***************************************************************************)
(* DList implements ListSeq: the abstract list of a head is the sequence   *)
(* of nodes the `next' pointers lead through until they come back to it,   *)
(* which is what every list_for_each... macro visits.                      *)
(***************************************************************************)
EXTENDS DList, Integers, Sequences, SequencesExt, FiniteSets

\* The nodes of a program's memory, and no list for the null pointer.
ASSUME ListsAssumption ==
    /\ IsFiniteSet(Heads) /\ IsFiniteSet(Items)
    /\ NULL \notin Seq(Items)

\* The k-th node reached from the head h along a link field.
Nth(link, h) ==
    LET at[k \in 0..Cardinality(Node)] ==
          IF k = 0 THEN h
          ELSE IF at[k - 1] = NULL THEN NULL ELSE link[at[k - 1]]
    IN  at

\* The items visited from h along a link field until h comes back: the loop
\* of list_for_every and list_for_each_entry_list.  A walk that never
\* returns to h, or meets NULL, is <<NULL>>.
Walk(link, h) ==
    LET at == Nth(link, h)
        backAt == {k \in 1..Cardinality(Node) : at[k] = h}
    IN  IF backAt = {} THEN <<NULL>>
        ELSE LET last == CHOOSE k \in backAt : \A j \in backAt : k <= j
             IN  [k \in 1..(last - 1) |-> at[k]]

list_for_every(h) == Walk(next, h)
list_for_each_entry_inverted(h) == Walk(prev, h)
list_length(h) == Len(list_for_every(h))

Abs == INSTANCE ListSeq
         WITH list <- [h \in Heads |-> IF ring[h] = NULL THEN NULL ELSE Walk(next, h)]

\* Every step of the pointer structure is a step of the abstract lists: an
\* insertion or a removal touches one list, at one place, and keeps the order.
RefinesListSeq == Abs!Spec

\* Walking a list visits exactly the items that were linked into its ring,
\* each once, the inverted walk visits the same items in the opposite order,
\* and list_length counts them: no operation detaches a part of the ring.
WalkIsRing ==
    \A h \in Heads : ring[h] # NULL =>
        /\ ToSet(list_for_every(h)) = {i \in Items : ring[i] = h}
        /\ list_length(h) = Cardinality({i \in Items : ring[i] = h})
        /\ list_for_each_entry_inverted(h) = Reverse(list_for_every(h))
=============================================================================
