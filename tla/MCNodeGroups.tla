---------------------------- MODULE MCNodeGroups ----------------------------
(* A growing node and its callers for model checking NodeGroups. *)
EXTENDS NodeGroups

\* For F = 4: a block of level 2 and one of the last level; the node then grows by
\* a single item, the one the last merge of the latter looks at.
GrowingNode == <<16, 2, 1>>

NoRequests == {}

Ask(n, f) == [nitems |-> n, flags |-> f]

\* Three items, and thirteen, rounded up to a block; three blocks of two levels; a
\* block of level 2 that is set apart, and blocks of one and two items that are,
\* whose frees merge.  kmalloc asks for an item and for two.
AllCallers == {Ask(3, "OBJECT"), Ask(13, "OBJECT"), Ask(19, "DCONT"), Ask(16, "DEBUG"),
               Ask(16, "RESERVED"), Ask(1, "DEBUG"), Ask(2, "DEBUG")}

\* What the theorems of FreeGroupProofs about the callers suppose.
ASSUME PlainCallersAssumption == AlignedGrowth /\ PlainCallers
=============================================================================
