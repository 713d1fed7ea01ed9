---------------------------- MODULE MCFreeGroup ----------------------------
(* A node and callers for model checking FreeGroup, as the theorems of *)
(* FreeGroupProofs suppose them. *)
EXTENDS FreeGroup

\* For F = 4: an order-1 block of level 2 and one of the last level; the node
\* then grows by the buddy of the latter and by an item past it.
SmallNode == <<32, 2, 2, 1>>

SmallCachedAndLarge ==
    [lvl : {3}, order : {0, 1}, type : {MIGRATION_UNMOVABLE}]
        \cup {[lvl |-> 3, order |-> 1, type |-> MIGRATION_MOVABLE],
              [lvl |-> 3, order |-> 0, type |-> MIGRATION_LRUTYPE],
              [lvl |-> 2, order |-> 1, type |-> MIGRATION_UNMOVABLE]}

ASSUME MCFreeGroupAssumption == AlignedGrowth /\ PlainRequests
=============================================================================
